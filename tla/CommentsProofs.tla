--------------------------- MODULE CommentsProofs ----------------------------
(***************************************************************************)
(* Machine-checked proofs about Comments, for any notes, anchors, requests *)
(* and comments, and any bound of the run.                                 *)
(***************************************************************************)
EXTENDS Comments, TLAPS

------------------------------------------------------------------------------
(* The inductive invariant. *)

(* Comments have drawn ids, and so do those a pass went over.              *)
UsedInv == Ids(comments) \subseteq used /\ seen \subseteq used

(* What a request knows of its parent is still so if the parent exists.    *)
ReqInv ==
    \A r \in Requests : req[r] # NoPost /\ req[r].parent # None =>
        /\ req[r].parent \in used
        /\ \A c \in comments : c.id = req[r].parent =>
              c.note = req[r].at /\ c.anchor = req[r].anchor

IInv == CommentsTypeOK /\ ThreadsHonest /\ OrphansFollow /\ UsedInv /\ ReqInv

------------------------------------------------------------------------------
(* Lemmas. *)

(* Two rows that differ in their flags at most.                            *)
SameThread(c, d) ==
    c.id = d.id /\ c.note = d.note /\ c.parent = d.parent /\ c.anchor = d.anchor

(* A step that keeps the requests and ids and rewrites the flags of the    *)
(* rows keeps threads, ids and requests honest.                            *)
LEMMA FlagsOnly ==
    ASSUME IInv, NEW D, D = comments',
           \A d \in D : \E c \in comments : SameThread(c, d),
           \A c \in comments : \E d \in D : SameThread(c, d),
           \A n \in CommentedNotes : place[n] # "gone" => place'[n] # "gone",
           used' = used, seen' \subseteq used,
           \A r \in Requests : req'[r] = req[r] \/ req'[r] = NoPost
    PROVE  ThreadsHonest' /\ UsedInv' /\ ReqInv'
<1>1. ThreadsHonest'
  <2>. SUFFICES ASSUME NEW d \in D
       PROVE  /\ place'[d.note] # "gone"
              /\ d.parent # None => \E e \in D : /\ e.id = d.parent /\ e.note = d.note
                                                 /\ e.anchor = d.anchor
    BY DEF ThreadsHonest
  <2>1. PICK c \in comments : SameThread(c, d)
    OBVIOUS
  <2>2. c.note \in CommentedNotes /\ place'[d.note] # "gone"
    BY <2>1 DEF IInv, CommentsTypeOK, Comment, ThreadsHonest, SameThread
  <2>3. ASSUME d.parent # None
        PROVE  \E e \in D : e.id = d.parent /\ e.note = d.note /\ e.anchor = d.anchor
    <3>1. PICK p \in comments : p.id = c.parent /\ p.note = c.note /\ p.anchor = c.anchor
      BY <2>1, <2>3 DEF IInv, ThreadsHonest, SameThread
    <3>2. PICK e \in D : SameThread(p, e)
      OBVIOUS
    <3>. QED BY <2>1, <3>1, <3>2 DEF SameThread
  <2>. QED BY <2>2, <2>3
<1>2. UsedInv'
  <2>1. \A d \in D : d.id \in used
    BY DEF IInv, UsedInv, Ids, SameThread
  <2>. QED BY <2>1 DEF UsedInv, Ids
<1>3. ReqInv'
  <2>. SUFFICES ASSUME NEW r \in Requests, req'[r] # NoPost, req'[r].parent # None
       PROVE  /\ req'[r].parent \in used
              /\ \A d \in D : d.id = req'[r].parent =>
                    d.note = req'[r].at /\ d.anchor = req'[r].anchor
    BY DEF ReqInv
  <2>1. req'[r] = req[r]
    OBVIOUS
  <2>. QED BY <2>1 DEF IInv, ReqInv, SameThread
<1>. QED BY <1>1, <1>2, <1>3

(* The orphan pass over some comments of a note: every row keeps its       *)
(* thread, rows it went over get the flag of the document.                 *)
LEMMA RecheckedRows ==
    ASSUME CommentsTypeOK, NEW n \in CommentedNotes, NEW C \in SUBSET comments
    PROVE  /\ Rechecked(C, n) \in SUBSET Comment
           /\ \A d, e \in Rechecked(C, n) : d.id = e.id => d = e
           /\ \A c \in comments : \E d \in Rechecked(C, n) : SameThread(c, d)
           /\ \A d \in Rechecked(C, n) : \E c \in comments :
                 /\ SameThread(c, d)
                 /\ c \notin C => d = c
                 /\ c \in C => (d.orphan <=> c.anchor \notin doc[n])
<1>. DEFINE F(c) == IF c \in C THEN [c EXCEPT !.orphan = c.anchor \notin doc[n]] ELSE c
<1>1. ASSUME NEW c \in comments
      PROVE  /\ F(c) \in Comment
             /\ SameThread(c, F(c))
             /\ c \notin C => F(c) = c
             /\ c \in C => (F(c).orphan <=> c.anchor \notin doc[n])
  <2>1. c \in Comment
    BY DEF CommentsTypeOK
  <2>2. CASE c \notin C
    BY <2>1, <2>2 DEF SameThread
  <2>3. CASE c \in C
    <3>1. (c.anchor \notin doc[n]) \in BOOLEAN
      OBVIOUS
    <3>. DEFINE b == c.anchor \notin doc[n]
    <3>2. F(c) = [c EXCEPT !.orphan = b]
      BY <2>3
    <3>. HIDE DEF b
    <3>3. b \in BOOLEAN
      BY <3>1 DEF b
    <3>4. /\ [c EXCEPT !.orphan = b] \in Comment
          /\ SameThread(c, [c EXCEPT !.orphan = b])
          /\ [c EXCEPT !.orphan = b].orphan = b
      BY <2>1, <3>3 DEF Comment, SameThread
    <3>5. b <=> c.anchor \notin doc[n]
      BY DEF b
    <3>. HIDE DEF F
    <3>. QED BY <2>3, <3>2, <3>4, <3>5
  <2>. HIDE DEF F
  <2>. QED BY <2>2, <2>3
<1>2. Rechecked(C, n) = {F(c) : c \in comments}
  BY DEF Rechecked
<1>. HIDE DEF F
<1>3. ASSUME NEW d \in Rechecked(C, n), NEW e \in Rechecked(C, n), d.id = e.id
      PROVE  d = e
  <2>1. PICK c \in comments, f \in comments : d = F(c) /\ e = F(f)
    BY <1>2
  <2>2. c.id = f.id
    BY <1>1, <1>3, <2>1 DEF SameThread
  <2>. QED BY <2>1, <2>2 DEF CommentsTypeOK
<1>. QED BY <1>1, <1>2, <1>3

(* A step that leaves the rows alone keeps the threads.                    *)
LEMMA RowsAlone ==
    ASSUME IInv, comments' = comments,
           \A n \in CommentedNotes : place[n] # "gone" => place'[n] # "gone",
           used' = used, seen' = seen,
           \A r \in Requests : req'[r] = req[r] \/ req'[r] = NoPost
    PROVE  ThreadsHonest' /\ UsedInv' /\ ReqInv'
<1>1. \A d \in comments : SameThread(d, d)
  BY DEF SameThread
<1>2. seen' \subseteq used
  BY DEF IInv, UsedInv
<1>. DEFINE D == comments'
<1>3. /\ \A d \in D : \E c \in comments : SameThread(c, d)
      /\ \A c \in comments : \E d \in D : SameThread(c, d)
  BY <1>1
<1>. HIDE DEF D
<1>4. D = comments'
  BY DEF D
<1>. QED BY <1>2, <1>3, <1>4, FlagsOnly

(* Taking out rows together with all replies to them keeps the threads.    *)
LEMMA RowsDropped ==
    ASSUME IInv, comments' \subseteq comments,
           \A c \in comments', d \in comments : d.id = c.parent => d \in comments',
           \A c \in comments' : place'[c.note] # "gone",
           used' = used, seen' = seen, req' = req
    PROVE  ThreadsHonest' /\ UsedInv' /\ ReqInv'
<1>1. ThreadsHonest'
  BY DEF IInv, ThreadsHonest
<1>2. UsedInv'
  BY DEF IInv, UsedInv, Ids
<1>3. ReqInv'
  BY DEF IInv, ReqInv
<1>. QED BY <1>1, <1>2, <1>3

------------------------------------------------------------------------------
(* One lemma per action. *)

LEMMA InitHolds == CommentsInit => IInv
<1>. SUFFICES ASSUME CommentsInit PROVE IInv
  OBVIOUS
<1>1. CommentsTypeOK
  BY CommentsAssumption DEF CommentsInit, CommentsTypeOK
<1>2. ThreadsHonest /\ OrphansFollow
  BY DEF CommentsInit, ThreadsHonest, OrphansFollow
<1>3. UsedInv /\ ReqInv
  BY DEF CommentsInit, UsedInv, ReqInv, Ids
<1>. QED BY <1>1, <1>2, <1>3 DEF IInv

LEMMA StutterKeeps == ASSUME IInv, UNCHANGED commentVars PROVE IInv'
<1>1. CommentsTypeOK'
  BY DEF IInv, CommentsTypeOK, commentVars, docVars
<1>2. ThreadsHonest' /\ OrphansFollow'
  BY DEF IInv, ThreadsHonest, OrphansFollow, commentVars, docVars
<1>3. UsedInv' /\ ReqInv'
  BY DEF IInv, UsedInv, ReqInv, Ids, commentVars, docVars
<1>. QED BY <1>1, <1>2, <1>3 DEF IInv

LEMMA PostBeginKeeps ==
    ASSUME IInv, NEW r \in Requests, NEW n \in CommentedNotes, NEW a \in Anchors,
           PostBegin(r, n, a)
    PROVE  IInv'
<1>1. CommentsTypeOK'
  BY DEF IInv, CommentsTypeOK, PostBegin, docVars, Post
<1>2. ThreadsHonest' /\ OrphansFollow' /\ UsedInv'
  BY DEF IInv, ThreadsHonest, OrphansFollow, UsedInv, Ids, PostBegin, docVars
<1>3. ReqInv'
  BY DEF IInv, CommentsTypeOK, ReqInv, PostBegin
<1>. QED BY <1>1, <1>2, <1>3 DEF IInv

LEMMA ReplyBeginKeeps ==
    ASSUME IInv, NEW r \in Requests, NEW c \in comments, ReplyBegin(r, c)
    PROVE  IInv'
<1>0. c \in Comment /\ c.id \in used
  BY DEF IInv, CommentsTypeOK, UsedInv, Ids
<1>1. CommentsTypeOK'
  BY <1>0 DEF IInv, CommentsTypeOK, ReplyBegin, docVars, Post, Comment
<1>2. ThreadsHonest' /\ OrphansFollow' /\ UsedInv'
  BY DEF IInv, ThreadsHonest, OrphansFollow, UsedInv, Ids, ReplyBegin, docVars
<1>3. ReqInv'
  BY <1>0 DEF IInv, CommentsTypeOK, ReqInv, ReplyBegin
<1>. QED BY <1>1, <1>2, <1>3 DEF IInv

(* The new row has an id nobody refers to, and a parent that is there.     *)
LEMMA PostEndKeeps ==
    ASSUME IInv, NEW r \in Requests, PostEnd(r) PROVE IInv'
<1>0. /\ UNCHANGED <<place, doc, saved, seen, lag, changes>>
      /\ \A s \in Requests : req'[s] = req[s] \/ req'[s] = NoPost
      /\ req' \in [Requests -> Post \cup {NoPost}]
  BY DEF IInv, CommentsTypeOK, PostEnd, docVars
<1>1. CASE ~ Accepted(req[r])
  <2>1. comments' = comments /\ used' = used
    BY <1>1 DEF PostEnd
  <2>2. ThreadsHonest' /\ UsedInv' /\ ReqInv'
    BY <1>0, <2>1, RowsAlone
  <2>3. CommentsTypeOK' /\ OrphansFollow'
    BY <1>0, <2>1 DEF IInv, CommentsTypeOK, OrphansFollow
  <2>. QED BY <2>2, <2>3 DEF IInv
<1>2. CASE Accepted(req[r])
  <2>. DEFINE p == req[r]
              Row(i) == [id |-> i, note |-> p.at, parent |-> p.parent,
                         anchor |-> p.anchor, resolved |-> FALSE, orphan |-> FALSE]
  <2>1. PICK i \in CommentIds \ used :
           used' = used \cup {i} /\ comments' = comments \cup {Row(i)}
    BY <1>2 DEF PostEnd
  <2>2. p \in Post
    BY DEF IInv, CommentsTypeOK, PostEnd
  <2>3. /\ Row(i) \in Comment
        /\ Row(i).id = i /\ Row(i).note = p.at /\ Row(i).parent = p.parent
        /\ Row(i).anchor = p.anchor
    BY <2>2 DEF Post, Comment
  <2>4. /\ place[p.at] # "gone"
        /\ p.parent # None => \E d \in comments :
              d.id = p.parent /\ d.note = p.at /\ d.anchor = p.anchor
    <3>1. p # NoPost
      BY DEF PostEnd
    <3>. QED BY <1>2, <3>1 DEF Accepted, Ids, IInv, ReqInv
  <2>5. \A c \in comments : c.id \in used
    BY DEF IInv, UsedInv, Ids
  <2>. HIDE DEF p, Row
  <2>6. CommentsTypeOK'
    BY <1>0, <2>1, <2>3, <2>5 DEF IInv, CommentsTypeOK
  <2>7. ThreadsHonest'
    BY <1>0, <2>1, <2>3, <2>4 DEF IInv, ThreadsHonest
  <2>8. OrphansFollow'
    <3>1. Row(i).id \notin seen
      BY <2>1, <2>3 DEF IInv, UsedInv
    <3>. QED BY <1>0, <2>1, <3>1 DEF IInv, OrphansFollow
  <2>9. UsedInv'
    BY <1>0, <2>1, <2>3 DEF IInv, UsedInv, Ids
  <2>10. ReqInv'
    <3>1. ASSUME NEW s \in Requests, req'[s] # NoPost, req'[s].parent # None,
                 NEW c \in comments', c.id = req'[s].parent
          PROVE  c.note = req'[s].at /\ c.anchor = req'[s].anchor
      <4>1. req'[s] = req[s]
        BY <1>0, <3>1
      <4>2. req[s].parent \in used
        BY <3>1, <4>1 DEF IInv, ReqInv
      <4>3. c \in comments
        BY <2>1, <2>3, <3>1, <4>1, <4>2
      <4>. QED BY <3>1, <4>1, <4>3 DEF IInv, ReqInv
    <3>2. ASSUME NEW s \in Requests, req'[s] # NoPost, req'[s].parent # None
          PROVE  req'[s].parent \in used'
      BY <1>0, <2>1, <3>2 DEF IInv, ReqInv
    <3>. QED BY <3>1, <3>2 DEF ReqInv
  <2>. QED BY <2>6, <2>7, <2>8, <2>9, <2>10 DEF IInv
<1>. QED BY <1>1, <1>2

LEMMA SetResolvedKeeps ==
    ASSUME IInv, NEW c \in comments, NEW b \in BOOLEAN, SetResolved(c, b)
    PROVE  IInv'
<1>. DEFINE e == [c EXCEPT !.resolved = b]
            D == comments'
<1>0. c \in Comment
  BY DEF IInv, CommentsTypeOK
<1>1. e \in Comment /\ SameThread(c, e) /\ e.orphan = c.orphan
  BY <1>0 DEF Comment, SameThread
<1>. HIDE DEF e
<1>2. /\ comments' = (comments \ {c}) \cup {e}
      /\ UNCHANGED <<place, doc, saved, req, used, seen, lag, changes>>
  BY DEF SetResolved, docVars, e
<1>3. \A d \in comments : SameThread(d, d)
  BY DEF SameThread
<1>4. /\ \A d \in D : \E f \in comments : SameThread(f, d) /\ d.orphan = f.orphan
      /\ \A f \in comments : \E d \in D : SameThread(f, d)
  BY <1>1, <1>2, <1>3
<1>5. CommentsTypeOK'
  BY <1>1, <1>2 DEF IInv, CommentsTypeOK, SameThread
<1>6. D = comments' /\ seen' \subseteq used
  BY <1>2 DEF IInv, UsedInv
<1>. HIDE DEF D
<1>7. ThreadsHonest' /\ UsedInv' /\ ReqInv'
  BY <1>2, <1>4, <1>6, FlagsOnly
<1>8. OrphansFollow'
  BY <1>2, <1>4, <1>6 DEF IInv, OrphansFollow, SameThread
<1>. QED BY <1>5, <1>7, <1>8 DEF IInv

(* A row that stays has no ancestor in the deleted thread.                 *)
LEMMA DeleteKeeps == ASSUME IInv, NEW c \in comments, Delete(c) PROVE IInv'
<1>1. /\ comments' = comments \ Thread(c)
      /\ UNCHANGED <<place, doc, saved, req, used, seen, lag, changes>>
  BY DEF Delete, docVars
<1>2. ASSUME NEW d \in comments, NEW e \in Thread(c), e.id = d.parent
      PROVE  d \in Thread(c)
  <2>1. ASSUME NEW S \in SUBSET comments, c \in S,
               \A f \in comments : f.parent \in Ids(S) => f \in S
        PROVE  d \in S
    <3>1. e \in S
      BY <2>1 DEF Thread
    <3>. QED BY <1>2, <2>1, <3>1 DEF Ids
  <2>. QED BY <2>1 DEF Thread
<1>3. ThreadsHonest' /\ UsedInv' /\ ReqInv'
  <2>1. \A d \in comments', e \in comments : e.id = d.parent => e \in comments'
    BY <1>1, <1>2
  <2>2. \A d \in comments' : place'[d.note] # "gone"
    BY <1>1 DEF IInv, ThreadsHonest
  <2>3. comments' \subseteq comments
    BY <1>1
  <2>. QED BY <1>1, <2>1, <2>2, <2>3, RowsDropped
<1>4. CommentsTypeOK' /\ OrphansFollow'
  BY <1>1 DEF IInv, CommentsTypeOK, OrphansFollow
<1>. QED BY <1>3, <1>4 DEF IInv

(* A complete pass makes the flags those of the document being stored; a   *)
(* store that is skipped is counted, or changes nothing.                   *)
LEMMA StoreKeeps == ASSUME IInv, NEW n \in CommentedNotes, Store(n) PROVE IInv'
<1>0. /\ saved' = [saved EXCEPT ![n] = doc[n]]
      /\ UNCHANGED <<place, doc, req, used, changes>>
      /\ \A m \in CommentedNotes : place[m] # "gone" => place'[m] # "gone"
      /\ \A r \in Requests : req'[r] = req[r] \/ req'[r] = NoPost
  BY DEF Store
<1>1. CASE place[n] = "live"
  <2>. DEFINE D == comments'
  <2>1. /\ D = Rechecked(Of(n), n)
        /\ seen' = seen \cup Ids(Of(n))
        /\ lag' = [lag EXCEPT ![n] = FALSE]
    BY <1>1 DEF Store
  <2>2. Of(n) \in SUBSET comments
    BY DEF Of
  <2>3. /\ D \in SUBSET Comment
        /\ \A d, e \in D : d.id = e.id => d = e
        /\ \A c \in comments : \E d \in D : SameThread(c, d)
        /\ \A d \in D : \E c \in comments :
              /\ SameThread(c, d)
              /\ c \notin Of(n) => d = c
              /\ c \in Of(n) => (d.orphan <=> c.anchor \notin doc[n])
    BY <2>1, <2>2, RecheckedRows DEF IInv
  <2>4. D = comments'
    OBVIOUS
  <2>. HIDE DEF D
  <2>5. seen' \subseteq used
    BY <2>1 DEF IInv, UsedInv, Ids, Of
  <2>6. ThreadsHonest' /\ UsedInv' /\ ReqInv'
    BY <1>0, <2>3, <2>4, <2>5, FlagsOnly
  <2>7. CommentsTypeOK'
    <3>1. /\ saved' \in [CommentedNotes -> SUBSET Anchors]
          /\ lag' \in [CommentedNotes -> BOOLEAN]
      BY <1>0, <2>1 DEF IInv, CommentsTypeOK
    <3>2. seen' \in SUBSET CommentIds
      BY <2>5 DEF IInv, CommentsTypeOK
    <3>. QED BY <1>0, <2>3, <2>4, <3>1, <3>2 DEF IInv, CommentsTypeOK
  <2>8. OrphansFollow'
    <3>. SUFFICES ASSUME NEW d \in D, d.id \in seen', ~ lag'[d.note]
         PROVE  d.orphan <=> d.anchor \notin saved'[d.note]
      BY <2>4 DEF OrphansFollow
    <3>1. PICK c \in comments :
             /\ SameThread(c, d)
             /\ c \notin Of(n) => d = c
             /\ c \in Of(n) => (d.orphan <=> c.anchor \notin doc[n])
      BY <2>3
    <3>2. c.note \in CommentedNotes
      BY DEF IInv, CommentsTypeOK, Comment
    <3>3. CASE c \in Of(n)
      BY <1>0, <3>1, <3>2, <3>3 DEF Of, SameThread, IInv, CommentsTypeOK
    <3>4. CASE c \notin Of(n)
      <4>1. d = c /\ c.note # n
        BY <3>1, <3>4 DEF Of
      <4>2. c.id \notin Ids(Of(n))
        BY <3>4 DEF Ids, Of, IInv, CommentsTypeOK
      <4>3. c.id \in seen /\ ~ lag[c.note] /\ saved'[c.note] = saved[c.note]
        BY <1>0, <2>1, <3>2, <4>1, <4>2 DEF IInv, CommentsTypeOK
      <4>. QED BY <4>1, <4>3 DEF IInv, OrphansFollow
    <3>. QED BY <3>3, <3>4
  <2>. QED BY <2>6, <2>7, <2>8 DEF IInv
<1>2. CASE place[n] # "live"
  <2>1. /\ comments' = comments /\ seen' = seen
        /\ lag' = [lag EXCEPT ![n] = lag[n] \/ saved[n] # doc[n]]
    BY <1>2 DEF Store
  <2>2. ThreadsHonest' /\ UsedInv' /\ ReqInv'
    BY <1>0, <2>1, RowsAlone
  <2>3. CommentsTypeOK'
    <3>1. /\ saved' \in [CommentedNotes -> SUBSET Anchors]
          /\ lag' \in [CommentedNotes -> BOOLEAN]
      BY <1>0, <2>1 DEF IInv, CommentsTypeOK
    <3>. QED BY <1>0, <2>1, <3>1 DEF IInv, CommentsTypeOK
  <2>4. OrphansFollow'
    <3>. SUFFICES ASSUME NEW c \in comments, c.id \in seen, ~ lag'[c.note]
         PROVE  c.orphan <=> c.anchor \notin saved'[c.note]
      BY <2>1 DEF OrphansFollow
    <3>1. c.note \in CommentedNotes
      BY DEF IInv, CommentsTypeOK, Comment
    <3>2. ~ lag[c.note] /\ saved'[c.note] = saved[c.note]
      BY <1>0, <2>1, <3>1 DEF IInv, CommentsTypeOK
    <3>. QED BY <3>2 DEF IInv, OrphansFollow
  <2>. QED BY <2>2, <2>3, <2>4 DEF IInv
<1>. QED BY <1>1, <1>2

(* Steps that only move the document in memory, or a note.                 *)
LEMMA ElsewhereKeeps ==
    ASSUME IInv,
           UNCHANGED <<saved, comments, req, used, seen, lag>>,
           doc' \in [CommentedNotes -> SUBSET Anchors],
           place' \in [CommentedNotes -> {"live", "trashed", "gone"}],
           \A n \in CommentedNotes : place[n] # "gone" => place'[n] # "gone",
           changes' \in 0..MaxChanges
    PROVE  IInv'
<1>1. ThreadsHonest' /\ UsedInv' /\ ReqInv'
  BY RowsAlone
<1>2. CommentsTypeOK' /\ OrphansFollow'
  BY DEF IInv, CommentsTypeOK, OrphansFollow
<1>. QED BY <1>1, <1>2 DEF IInv

(* The bound is respected.                                                 *)
LEMMA BoundKept == ASSUME CommentsTypeOK, Bounded PROVE changes' \in 0..MaxChanges
BY CommentsAssumption DEF CommentsTypeOK, Bounded

LEMMA EditKeeps ==
    ASSUME IInv, NEW n \in CommentedNotes, NEW A \in SUBSET Anchors, Edit(n, A)
    PROVE  IInv'
<1>1. changes' \in 0..MaxChanges
  BY BoundKept DEF IInv, Edit
<1>2. /\ doc' \in [CommentedNotes -> SUBSET Anchors]
      /\ place' \in [CommentedNotes -> {"live", "trashed", "gone"}]
  BY DEF IInv, CommentsTypeOK, Edit
<1>. QED BY <1>1, <1>2, ElsewhereKeeps DEF Edit

LEMMA TrashKeeps == ASSUME IInv, NEW n \in CommentedNotes, Trash(n) PROVE IInv'
<1>1. changes' \in 0..MaxChanges
  BY BoundKept DEF IInv, Trash
<1>2. /\ doc' \in [CommentedNotes -> SUBSET Anchors]
      /\ place' \in [CommentedNotes -> {"live", "trashed", "gone"}]
      /\ \A m \in CommentedNotes : place[m] # "gone" => place'[m] # "gone"
  BY DEF IInv, CommentsTypeOK, Trash, docVars
<1>. QED BY <1>1, <1>2, ElsewhereKeeps DEF Trash, docVars

LEMMA RestoreKeeps == ASSUME IInv, NEW n \in CommentedNotes, Restore(n) PROVE IInv'
<1>1. /\ doc' \in [CommentedNotes -> SUBSET Anchors]
      /\ place' \in [CommentedNotes -> {"live", "trashed", "gone"}]
      /\ \A m \in CommentedNotes : place[m] # "gone" => place'[m] # "gone"
      /\ changes' \in 0..MaxChanges
  BY DEF IInv, CommentsTypeOK, Restore, docVars
<1>. QED BY <1>1, ElsewhereKeeps DEF Restore, docVars

(* Replies are on the note of their parent, so a purge takes whole threads.*)
LEMMA PurgeKeeps == ASSUME IInv, NEW n \in CommentedNotes, Purge(n) PROVE IInv'
<1>1. /\ place' = [place EXCEPT ![n] = "gone"]
      /\ comments' = comments \ Of(n)
      /\ UNCHANGED <<doc, saved, req, used, seen, lag, changes>>
  BY DEF Purge, docVars
<1>2. \A c \in comments : c.note \in CommentedNotes
  BY DEF IInv, CommentsTypeOK, Comment
<1>3. \A c \in comments', d \in comments : d.id = c.parent => d \in comments'
  <2>. SUFFICES ASSUME NEW c \in comments', NEW d \in comments, d.id = c.parent
       PROVE  d.note # n
    BY <1>1 DEF Of
  <2>1. c \in comments /\ c.note # n
    BY <1>1 DEF Of
  <2>2. c.parent # None
    BY CommentsAssumption DEF IInv, CommentsTypeOK, Comment
  <2>3. PICK e \in comments : e.id = c.parent /\ e.note = c.note
    BY <2>1, <2>2 DEF IInv, ThreadsHonest
  <2>. QED BY <2>1, <2>3 DEF IInv, CommentsTypeOK
<1>4. \A c \in comments' : place'[c.note] # "gone"
  BY <1>1, <1>2 DEF Of, IInv, CommentsTypeOK, ThreadsHonest
<1>5. comments' \subseteq comments
  BY <1>1
<1>6. ThreadsHonest' /\ UsedInv' /\ ReqInv'
  BY <1>1, <1>3, <1>4, <1>5, RowsDropped
<1>7. CommentsTypeOK' /\ OrphansFollow'
  BY <1>1 DEF IInv, CommentsTypeOK, OrphansFollow
<1>. QED BY <1>6, <1>7 DEF IInv

LEMMA CrashKeeps == ASSUME IInv, CommentsCrash PROVE IInv'
<1>1. /\ UNCHANGED <<place, saved, comments, used, seen, lag, changes>>
      /\ doc' = saved
      /\ req' = [r \in Requests |-> NoPost]
  BY DEF CommentsCrash, Reboot
<1>2. ThreadsHonest' /\ UsedInv' /\ ReqInv'
  BY <1>1, RowsAlone
<1>3. CommentsTypeOK' /\ OrphansFollow'
  BY <1>1 DEF IInv, CommentsTypeOK, OrphansFollow
<1>. QED BY <1>2, <1>3 DEF IInv

LEMMA CrashInStoreKeeps == ASSUME IInv, NEW n \in CommentedNotes, CrashInStore(n) PROVE IInv'
<1>. DEFINE D == comments'
<1>1. PICK C \in SUBSET Of(n) : D = Rechecked(C, n)
  BY DEF CrashInStore
<1>2. /\ UNCHANGED <<place, used, seen, changes>>
      /\ saved' = [saved EXCEPT ![n] = doc[n]] /\ doc' = saved'
      /\ req' = [r \in Requests |-> NoPost]
      /\ lag' = [lag EXCEPT ![n] = TRUE]
  BY DEF CrashInStore, Reboot
<1>3. C \in SUBSET comments
  BY DEF Of
<1>4. /\ D \in SUBSET Comment
      /\ \A d, e \in D : d.id = e.id => d = e
      /\ \A c \in comments : \E d \in D : SameThread(c, d)
      /\ \A d \in D : \E c \in comments : SameThread(c, d) /\ (c \notin C => d = c)
  BY <1>1, <1>3, RecheckedRows DEF IInv
<1>5. D = comments'
  OBVIOUS
<1>. HIDE DEF D
<1>6. seen' \subseteq used
  BY <1>2 DEF IInv, UsedInv
<1>7. ThreadsHonest' /\ UsedInv' /\ ReqInv'
  BY <1>2, <1>4, <1>5, <1>6, FlagsOnly
<1>8. CommentsTypeOK'
  <2>1. saved' \in [CommentedNotes -> SUBSET Anchors] /\ lag' \in [CommentedNotes -> BOOLEAN]
    BY <1>2 DEF IInv, CommentsTypeOK
  <2>. QED BY <1>2, <1>4, <1>5, <2>1 DEF IInv, CommentsTypeOK
<1>9. OrphansFollow'
  <2>. SUFFICES ASSUME NEW d \in D, d.id \in seen, ~ lag'[d.note]
       PROVE  d.orphan <=> d.anchor \notin saved'[d.note]
    BY <1>2, <1>5 DEF OrphansFollow
  <2>1. PICK c \in comments : SameThread(c, d) /\ (c \notin C => d = c)
    BY <1>4
  <2>2. c.note \in CommentedNotes
    BY DEF IInv, CommentsTypeOK, Comment
  <2>3. c.note # n /\ ~ lag[c.note] /\ saved'[c.note] = saved[c.note]
    BY <1>2, <2>1, <2>2 DEF IInv, CommentsTypeOK, SameThread
  <2>4. d = c
    BY <2>1, <2>3 DEF Of
  <2>. QED BY <2>3, <2>4 DEF IInv, OrphansFollow
<1>. QED BY <1>7, <1>8, <1>9 DEF IInv

------------------------------------------------------------------------------
(* Theorems. *)

(* Every step keeps the invariant.                                         *)
LEMMA StepKeeps == IInv /\ [CommentsNext]_commentVars => IInv'
<1>. SUFFICES ASSUME IInv, [CommentsNext]_commentVars PROVE IInv'
  OBVIOUS
<1>1. CASE UNCHANGED commentVars
  BY <1>1, StutterKeeps
<1>2. ASSUME NEW r \in Requests, NEW n \in CommentedNotes, NEW a \in Anchors,
             PostBegin(r, n, a)
      PROVE  IInv'
  BY <1>2, PostBeginKeeps
<1>3. ASSUME NEW r \in Requests, NEW c \in comments, ReplyBegin(r, c) PROVE IInv'
  BY <1>3, ReplyBeginKeeps
<1>4. ASSUME NEW r \in Requests, PostEnd(r) PROVE IInv'
  BY <1>4, PostEndKeeps
<1>5. ASSUME NEW c \in comments, Resolve(c) PROVE IInv'
  <2>1. SetResolved(c, TRUE)
    BY <1>5 DEF Resolve
  <2>. QED BY <2>1, SetResolvedKeeps
<1>6. ASSUME NEW c \in comments, Reopen(c) PROVE IInv'
  <2>1. SetResolved(c, FALSE)
    BY <1>6 DEF Reopen
  <2>. QED BY <2>1, SetResolvedKeeps
<1>7. ASSUME NEW c \in comments, Delete(c) PROVE IInv'
  BY <1>7, DeleteKeeps
<1>8. ASSUME NEW n \in CommentedNotes, Store(n) PROVE IInv'
  BY <1>8, StoreKeeps
<1>9. ASSUME NEW n \in CommentedNotes, NEW A \in SUBSET Anchors, Edit(n, A) PROVE IInv'
  BY <1>9, EditKeeps
<1>10. ASSUME NEW n \in CommentedNotes, Trash(n) PROVE IInv'
  BY <1>10, TrashKeeps
<1>11. ASSUME NEW n \in CommentedNotes, Restore(n) PROVE IInv'
  BY <1>11, RestoreKeeps
<1>12. ASSUME NEW n \in CommentedNotes, Purge(n) PROVE IInv'
  BY <1>12, PurgeKeeps
<1>13. ASSUME NEW n \in CommentedNotes, CrashInStore(n) PROVE IInv'
  BY <1>13, CrashInStoreKeeps
<1>14. CASE CommentsCrash
  BY <1>14, CrashKeeps
<1>. QED BY <1>1, <1>2, <1>3, <1>4, <1>5, <1>6, <1>7, <1>8, <1>9, <1>10, <1>11,
            <1>12, <1>13, <1>14 DEF CommentsNext

(* The invariant holds of every behaviour of the comment routes and the    *)
(* orphan pass.                                                            *)
THEOREM Invariant == CommentsSpec => []IInv
<1>. QED BY InitHolds, StepKeeps, PTL DEF CommentsSpec

(* The tables hold rows of their types, one per id.                        *)
THEOREM TypeCorrect == CommentsSpec => []CommentsTypeOK
<1>1. IInv => CommentsTypeOK
  BY DEF IInv
<1>. QED BY <1>1, Invariant, PTL

(* Threads stay whole: a reply's parent exists on its note and anchor,     *)
(* whatever a delete or purge did while the reply was under way.           *)
THEOREM ThreadsStayHonest == CommentsSpec => []ThreadsHonest
<1>1. IInv => ThreadsHonest
  BY DEF IInv
<1>. QED BY <1>1, Invariant, PTL

(* The orphan flags that the hook computes follow the stored document.     *)
THEOREM OrphansStayCurrent == CommentsSpec => []OrphansFollow
<1>1. IInv => OrphansFollow
  BY DEF IInv
<1>. QED BY <1>1, Invariant, PTL

==============================================================================
