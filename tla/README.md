# Bartleby in TLA+

Bartleby is a small collaborative notes server (Node, TypeScript, SQLite,
Hocuspocus/Yjs) with a web client (SvelteKit) and a terminal client (Python,
Textual). This directory holds TLA+ models of it, TLC configurations that check
them on small instances, and TLAPS proofs that hold for every instance. Paths
below are relative to the repository.

Contents: [1 inventory](#1-inventory), [2 plan](#2-plan),
[3 the mention pipeline](#3-the-mention-email-pipeline),
[4 version history](#4-version-history),
[5 notes and what is derived from them](#5-notes-and-what-is-derived-from-them),
[6 comments](#6-comments), [7 sign-in](#7-sign-in),
[8 the terminal client](#8-the-terminal-client),
[9 the web client](#9-the-web-client),
[10 runs](#10-what-each-run-checks-and-shows),
[11 fairness](#11-fairness), [12 proofs](#12-proofs),
[13 limits](#13-what-is-only-model-checked-and-what-is-not-modelled),
[14 how to run](#14-running).

## 1 Inventory

The server is one process with one event loop: the code between two `await`s
runs without interruption, and everything that goes wrong between actors goes
wrong at an `await`, a timer, a crash, or a message from a client. SQLite
statements commit one by one unless the repository wraps them in a
transaction; foreign keys are on and cascade from `notes`.

| Component | State | Operations | Hard behaviour | What makes it correct |
|---|---|---|---|---|
| **Mention email pipeline** `server/src/mentions/{pipeline,batcher,email-sender}.ts` | per-user queues and timers in memory; batches inside `onSend`; `mentions.email_sent_at` | `enqueueByMentionId`, `enqueue`, window timer, `fireBatch`, `flushAll`, `send` with retries, `markEmailSent` | sliding windows, retries after a lost response, mentions that arrive during a send, shutdown, crash | a row marked sent was really sent; no row forgotten; bounded copies; every item ends |
| **Version history** `server/src/snapshots/*`, `db/repositories/snapshots.ts` | `snapshots` rows; ticks and requests under way | scheduler tick, named snapshot, restore, retention | ticks may overlap; rows read once per tick; the document is read in one callback and written down in another | retention bound; a skipped note has nothing new; a restore can be undone |
| **Derived-state hook** `server/src/derived/*` | `markdown_export`, `updated_at`, tags, backlinks, mention rows, orphan flags | `onStoreDocument` after a debounced store | skips trashed notes; resolves titles at store time | what search, export and backlinks show is what the stored document says |
| **Notes CRUD, title history, purge** `server/src/notes/*`, `db/repositories/{notes,note-titles-history,tags,backlinks}.ts` | `notes` rows, title history, tags | create, rename, retag, trash, restore, purge (route and hourly job) | handlers that read a row, await the body, then write | title history matches titles; purge only of what was trashed long enough |
| **Comments** `server/src/comments/*` | comment rows, anchors, orphan flags | create, reply, edit, resolve, delete, orphan scan | quote read from a document that moves; purge during the read | threads stay of one note; orphan flag follows the document |
| **Mention rows, inbox** `db/repositories/mentions.ts`, `mentions/routes.ts` | `read_at` | list, mark read | read by several clients | a read mention stays read |
| **Authentication** `server/src/auth/*` | users (SQLite); device authorizations, refresh tokens, revoked session ids (memory) | OAuth sign-in, device code start/poll/approve, refresh, sign-out | rotation across an `await`; restart forgets memory | a refresh token is used once; a revoked session stays revoked |
| **Import and export** `server/src/{import,export}/*` | none of their own | multi-file import, zip export | failure in the middle of a list of files | all or a reported part |
| **Lifecycle** `server/src/{index,http,server}.ts` | phase of the process | boot, SIGTERM/SIGINT handler | producers still run while the handler drains | nothing promised to be drained is dropped |
| **Collaboration server** (Hocuspocus, Yjs; a library) | documents in memory, `documents` table | load, update, debounced store, direct connections | store after the last change, unload with stores under way | (external) |
| **Search, users** | none | queries, upsert of the signed-in user | none | |
| **TUI connection** `tui/.../connection.py` | socket, `connected`, `pending`, reconnect task, awareness clocks | connect, handshake, send, receive, reconnect with backoff | drop, retry, edits while offline | offline edits reach the server; the status line tells the truth |
| **TUI application** `tui/.../app.py`, panes, modals | open note, search box, panes, cached list | open, search, filter, poll, export | answers that arrive after the user moved on | the screen shows what the state says |
| **TUI editing** `tui/.../{editing,editor,renderer}.py` | rich-text runs, cursor | split, mark, insert, delete | index arithmetic | text is preserved; marks cover what was selected |
| **TUI sign-in** `tui/.../auth.py` | token file | device-code client, refresh | polling against the server's expiry | ends with a token or an error |
| **Web client** `web/src/{lib,routes}/*` | pages with their loads; stores for notes, mentions, comments; overlay and panes; editor | optimistic updates, forms, debounced search, polling, pickers | responses out of order, rollback over a newer answer | the last request wins; a failed update is undone |
| **Ops** `ops/*` | none | deploy, entry point | | |

Interactions. A client edit reaches Hocuspocus, which stores the document after
a debounce and calls the hook; the hook writes the derived rows and hands each
new mention to the pipeline by id; comment routes hand theirs the same way. The
pipeline looks the row up again, holds the item in memory through a window that
restarts at every new mention for the same person, and sends one email per
batch. The scheduler and the snapshot routes read documents through direct
connections, which may make Hocuspocus store again. The purger and the trash
view delete notes under all of them. The shutdown handler stops the purger and
the scheduler, flushes the pipeline, closes HTTP, then WebSockets, then exits.

The clients talk to the server over two channels. A WebSocket per open note
carries the Yjs document; everything else (lists, search, comments, snapshots,
sign-in) is a request, asked by one component of a screen and applied when its
answer arrives.

`PROJECT.json` lists under `hazards` the places in this code where those
interactions bite, each at its line, with the properties that watch it or the
reason why none does.

## 2 Plan

In order of importance. All rows are modelled and checked; the last column says
what is proved. What is still open stands below the table.

| # | Module | Models | Abstract spec, composition | Main properties | Theorems |
|---|---|---|---|---|---|
| 1 | `MentionPipeline` (done) | hook and comment producers, batcher, sender, provider, shutdown, crash | implements `MentionDelivery` | `OneHolder`, `SentIsTrue`, `UnsentAccounted`, `WindowSlides`, liveness | invariant, safety, refinement |
| 2 | `Snapshots` (done) | scheduler, routes, retention, document reads | in `MCEventually` for liveness | `AutosBounded`, `ScheduledIsCurrent`, `ChangesCaptured` | invariant, safety |
| 3 | `NoteTables` (done) | notes CRUD, title history, tags, backlinks, export, import, purge, crashes between statements | planned: an abstract "derived state is a function of the stored document" it implements up to skipped stores | `HistoryAgrees`, `OldTitlesResolve`, `DerivedUnlessSkipped`, `BacklinksHonest` | invariant, title history |
| 4 | `Comments` (done) | comment rows, cascades, the orphan pass | in `MCComments`, beside the pipeline | `ThreadsHonest`, `OrphansFollow` | invariant |
| 5 | `TuiConnection` (done) | socket, handshake, send tasks, receive and reconnect loops, against a server that drops, crashes and restarts | in `MCClients` | `HandshakeCarriesAll`, `EditsReachServer` | invariant, `HandshakeCarriesAll` |
| 6 | `AuthSessions` (done) | sign-in, gate, logout, device flow, refresh rotation, the terminal's keyring, restarts | in `MCClients` | `OneIdentityPerEmail`, `StoredTokenAdmitted`, `OneSuccessorEach` | each of them |
| 7 | `TuiApp` (done) | the terminal's message pump, poll, workers, panes and dialogs | in `MCScreens` | `ListSettles` | invariant (types) |
| 8 | `TuiEditor` (done) | the primitives of `editing.py`, the keys of `editor.py`, edits of others | in `MCClients` | `PrimitivesAtPlaces` (against a reference on plain sequences), `TypingLands` | types and both |
| 9 | `NotesSidebar`, `SearchOverlay` (done) | the polled store and the sidebar; the debounced search | in `MCScreens` | `ListNeverGoesBack`, `HitsMatchQuery` | invariant and property of each |
| 10 | `CommentsPanel`, `HistoryPanel` (done) | optimistic comments in a shared store; snapshots, saves and restores | in `MCScreens` | `LocalEditsAgree`, `UndoOffered` | invariant and property of each |
| 11 | `NoteRoutes` (done) | the pages of the trash, the inbox and a note, their loads, dialogs and forms, against other sessions | in `MCScreens` | `PagesAgree`, `RenamesAsTyped` | invariant and both properties |
| 12 | `EditorView` (done) | mounting, triggers and popover, comment composer | in `MCScreens`, alone in `MCEditorView` | `PickTakesTheQuery`, `QuoteAnchored` | invariant and both |

Open: an abstract specification that `TuiConnection` refines (a set of edits that
only grows, up to what a crash takes back), awareness, and `NoteTables` as the
refinement of "derived state is a function of the stored document".

## 3 The mention email pipeline

`MentionPipeline.tla`, with `MentionDelivery.tla` as its abstract
specification and `MCMentionPipeline.tla` for TLC.

State. `row` is the `mentions` table (`none`, `unsent`, `sent`, and `deleted`
for a row its note's purge took), `note` the life of each `notes` row, `queue`
and `timer` the batcher's map, `inflight` the calls of `onSend` under way (each
with its attempt and whether it waits for the provider or sleeps), `proc` where
the process is between boot and exit, `accepted` what the provider did. `quiet`
and `fate` are history: the quiet time of a window, and how an item left memory.
A mention is a uuid whose recipient, note and source are fixed when it is
drawn, so these are constants and `InsertMentions` picks uuids that fit.

| Action | Code |
|---|---|
| `StoreDocument` | the hook: net-new mentions of the stored body, one row each, enqueue |
| `PostComment` | `extractCommentMentions` on create and reply |
| `Tick`, `FireBatch` | the window timer: detach the queue, call `onSend` |
| `ProviderAccepts`, `Acknowledged`, `TransientFailure`, `Retry`, `DeadLetter` | one attempt of `send`; the provider's acceptance and the response are two steps, so a response can be lost |
| `TrashNote`, `RestoreNote`, `PurgeNote` | notes routes and purger; cascade to the rows |
| `Shutdown`, `FlushSettled`, `HttpClosed`, `Exit` | the signal handler, one await at a time |
| `Crash`, `Boot` | memory is lost; nothing is re-enqueued at boot |
| `CrashInInsert` | the process dies between the insert of a row and its enqueue, in a store or in a comment's POST: the rows of the loop so far are in the table, the last one was never handed on (`fate` is "cut") |

Producers stay enabled while the handler runs (`proc \in Up`), because nothing
in `index.ts` stops them first: comment posts until HTTP is closed, stores until
the WebSocket server is.

Properties. `OneHolder`: an item is in one queue or one batch, always its
recipient's. `SentIsTrue`: `email_sent_at` is set only on mentions that an
accepted email carried. `UnsentAccounted`: a row without `email_sent_at` is
on its way, dead-lettered, was in memory at an exit, or was cut off by a crash before its
enqueue. `OneBodyRow`: one row per note body and user, however
often it is stored, and none for oneself. `WindowSlides`: a timer fires only
after a whole quiet window. `ImplementsDelivery`: the refinement of `MentionDelivery`, in
which a mention is submitted, gets a bounded number of copies, and is settled once.
`CopiesBounded` (one copy per attempt at most) and `FinalIsFinal` (no email after the
outcome) say parts of that in the terms of the pipeline; they are proved, and no run
checks them beside the refinement. Liveness: `EventuallySettled` and `ShutdownEnds`.

## 4 Version history

`Snapshots.tla`, with `MCSnapshots.tla` for TLC. Every change of a document
gets a fresh revision number, and a Yjs state contains all changes up to its
revision, so a number stands for a content.

State. `doc`, `stored`, `exported` and `updated` follow one note's content
through memory, the `documents` table, `markdown_export` and `updated_at`;
`snaps` is the table; `tick` and `req` are the scheduler ticks and the requests
under way, each between two awaits.

| Action | Code |
|---|---|
| `TickBegin` | `runOnce` up to its first read: `listAll` once, skip notes whose latest snapshot is not older than `updated_at` |
| `TickEncode` | the `transact` callback of `yjs.read` |
| `TickInsert` | insert with `created_at` = start of the tick, prune, on to the next row; ends the whole tick if the foreign key refuses, and the notes after it wait for the next one |
| `NamedBegin`, `RequestEncode`, `NamedInsert` | POST snapshots: `created_at` is the time of the insert |
| `RestoreBegin`, `PreRestoreInsert`, `Replace` | POST restore |
| `RequestFails` | the note was purged during the read |
| `Edit`, `Store`, `DirectOpen` | clients and Hocuspocus. A direct connection may make it store at once, whether or not something changed |
| `Rename`, `TrashNote`, `RestoreNote`, `PurgeNote`, `TimePasses`, `Crash` | the rest |

Two decisions a reader should know. Hocuspocus is a library: its store and the
hook are one step, and `Store` is nondeterministic while a direct connection is
open. `setInterval` does not wait for `runOnce`, so ticks may overlap: `Ticks`
is the number that can.

Properties. `AutosBounded`: never more unlabeled rows of a note than the
retention, whoever inserts. `ScheduledIsCurrent`: a scheduled snapshot with a
later stamp than `updated_at` contains everything exported, so the scheduler is right
to skip on its account; it is the stamp taken *before* the read that makes it so.
`ChangesCaptured` (liveness): once crashes cease, every exported change of a live note gets
into a snapshot, although a tick ends at a purged note and what it held of the notes after
it is dropped. Which rows a prune takes is an operator (`Pruned`), not a property.

## 5 Notes and what is derived from them

`NoteTables.tla`, with `MCNoteTables.tla` for TLC. A document's content is a
model value, and the constants `TagsOf` and `LinksOf` say which tags and which
linked titles its markdown shows: the scanners in `derived/` are pure functions
of the text.

State. `note`, `title` and `export` are columns of `notes`; `history`, `tags` and
`links` are the tables `note_titles_history`, `tags` and `backlinks`; `doc` is the
document in memory and `saved` the one in `documents`. `req` holds what a request
carries over an await: a PATCH the title it read, an import the file it is at.
`torn`, `lag` and `retagged` are history: a crash cut the last title change, a
store was skipped or cut, a request set the tags since the last export.

| Action | Code |
|---|---|
| `Create` | POST `/notes`: the row and its first title |
| `PatchBegin`, `PatchEnd` | PATCH `/notes/:id` before and after the await of its body: `Rename` (`updateTitle`, `append`) and `SetTags` |
| `ImportBegin`, `ImportSeed`, `ImportTag` | one file of POST `/notes/import`: row and title, the replace of the document, the frontmatter's tags |
| `Edit`, `Store` | a client's change, and Hocuspocus' store followed by the hook: `Hook` replaces export, tags and links of a live note, a trashed or missing one is skipped |
| `TrashNote`, `RestoreNote`, `PurgeNote` | the routes and the purger, with the cascades of the foreign keys |
| `Crash`, `CrashInTitle`, `CrashInStore` | the process dies between two callbacks, between the row and its history, or between two writes of a store |

Properties. `HistoryAgrees`: a note has one open title row, the one its `notes`
row shows, although two renames may hold a title that is no longer the note's.
`OldTitlesResolve` (an action property): while a note exists, no title it had
leaves the history. `DerivedUnlessSkipped`: the export is of the stored document
and the tags are the export's or a later request's, unless a store was skipped or
cut. `BacklinksHonest`: a link joins two existing notes, by a title the target has
or had and the source's export shows, and a title is linked to one note per source.
`PurgeTakesDocument`, which `PRD.md:209` promises, is false: a purge takes the row of
`notes` and, by the cascades, its history, tags and links, but the row of `documents` stays,
and a store that comes late writes it again. `SearchFollowsDocument` is false as well (see 10).

## 6 Comments

`Comments.tla`, with `MCComments.tla` for TLC, which runs it beside the mail pipeline (the
names of the two modules are disjoint). An anchor is a model value, and a
document is the set of anchors of which both ends resolve in it, which is all
`isAnchorOrphaned` reads.

State. `comments` is the table, `req` the requests between lookup and insert with
what they looked up, `doc` and `saved` the document, `note` where its note is.
`used`, `seen` and `lag` are history: uuids already drawn, comments a
complete orphan pass went over, notes with a store since that had no such pass.

| Action | Code |
|---|---|
| `PostBegin`, `ReplyBegin`, `PostEnd` | the two POST routes: the lookup before the await (of the body, and of a read of the document), the insert after it, which the foreign keys may refuse |
| `Resolve`, `Reopen` | the PATCH routes |
| `Delete` | DELETE, with the cascade of `parent_comment_id` (`Thread`) |
| `Store`, `CrashInStore` | a store and the orphan pass, all of it or up to a crash: each flag is a statement of its own |
| `Edit`, `Trash`, `Restore`, `Purge`, `CommentsCrash` | the rest |

Properties. `ThreadsHonest`: the note of a comment exists, and so does the parent
of a reply, on the same note and anchor, whatever was deleted while the reply was
under way. `OrphansFollow`: the flag of a comment a complete pass went over says
whether its anchor resolves in the stored document, for resolved comments too.

## 7 Sign-in

`AuthSessions.tla`. A signed token is its claims, so it survives a restart and is
checked without the server's memory; the denylist, device codes, refresh tokens
and the identities minted for a first sign-in are in memory and do not. Handlers
are cut at their awaits: two first sign-ins with one email both find no row, and
the unique index decides.

| Action | Code |
|---|---|
| `GoogleStart`, `GoogleCallback`, `DevCallback`, `InsertUser`, `SignSession` | OAuth and test-only sign-in: `upsertUserByEmail` before and after its await, then the signature and the cookie |
| `GateVerify`, `GateCheck`, `Serve`, `LogoutVerify`, `LogoutRevoke` | `requireSession`, and logout on either side of the verification |
| `TuiPrompt`, `Approve`, `TuiPoll`, `TuiIssue`, `TuiSave` | the device-code flow, from both ends |
| `RefreshRead`, `RefreshRevoke`, `RefreshIssue` | POST `/auth/token/refresh`, read, await, revoke, issue |
| `TuiReuse`, `TuiConnect`, `TuiLost`, `TuiQuit` | `ensure_access_token`, the first request with the token, failures |
| `Restart`, `Tick` | memory is lost with every request under way; time |

Properties. `OneIdentityPerEmail`: every token ever signed for an email names the
user the table has for it. `StoredTokenAdmitted`: a token the terminal would reuse
is one the server admits; the client dates it from the arrival of the answer,
later than the server did, and the skew of 30 s has to cover the HTTP timeout of
10 s. `OneSuccessorEach`: two holders of one refresh token that race both get a
successor, since the read precedes the revocation, but no holder gets two.

## 8 The terminal client

`TuiConnection.tla`: the document is the set of its operations, a state vector is
that set, an update a difference. `ConnectOk` opens the socket and starts the handshake,
`Receive` answers the server's SyncStep1 with what it lacks, `Edit` spawns a
send task (`SendUpdate`) or counts the edit as pending, `ReceiveEnds` notices the
end of the socket and spawns the reconnect task (`ConnectRefused`, `ConnectInvalid`,
`Retry`), `Leave` and `PollFails` end the connection. Hocuspocus, the network and
the other clients are external: frames stay in order, a drop (`Drop`) loses what
was sent and delivers a prefix of what was received, a crash (`ServerCrash`) takes
the document back to what was stored. `HandshakeCarriesAll`: after an answered
handshake nothing in the document is known to the client alone. `EditsReachServer`:
every edit reaches the server for good, unless the app is left, the token
expires or the loop ended, which an exception other than `OSError` makes it do.

`TuiEditor.tla`: the document is blocks of text runs with marks and inline atoms,
the caret a path and an offset. The primitives of `editing.py` are operators on
the runs (`InsertText`, `DeleteRange`, `ToggleMark`, `SplitAndInsert`,
`SetBlockType`, `Wrap`), each key of `editor.py` an action. An update of another client
comes between any two keys (`PeerWrites`); its listener paints in the same callback
(`app.py:1059`), which clamps the caret to the new text. `PrimitivesAtPlaces` compares the
primitives, on every reachable block and every range, with their definition on a plain
sequence of places. `TypingLands`: a letter lands at the caret and moves it on.

`TuiApp.tla`: what widgets post goes through one queue (`inbox`) to one task (`pump`)
that takes a message at a time through all awaits of its handler; the poll's timer
and the workers of dialogs run beside it. A handler is its sequence of awaits (`plan`),
a request is served in one step and applied in another (`ListBack`, `HitsBack`,
`PaneBack`, `StateBack`, `DeleteBack`, `RoomBack`, `UsersBack`, `PlainBack`), and
a refusal or a lost answer ends the application, as Textual ends it on an
exception (`Refused`, `Lost`). `ListSettles`: once everyone stops, the list is what
the server has under the tag filter, whatever order the poll, a worker, a search
and its end wrote it in.

## 9 The web client

`SearchOverlay.tla`: `Type` restarts the debounce, `RunSearch` aborts the request
before it, `HitsArrive` commits only if nothing was run since. `HitsMatchQuery`: once
typing has paused and the searches are settled, the hits are those of the text in
the box, also when the overlay was closed and opened on a debounce still running.

`NotesSidebar.tla`: the polled store (`Refresh` aborts the poll before it), the tag
filter, moving to the trash and importing. `ListNeverGoesBack`: the rows are never
replaced by older ones.

`CommentsPanel.tla`: the store that the pane and the editor share is a bag of rows.
A post, a reply, a resolution and a deletion change the server's rows (`ServeRequest`) and
then, each in its own way, the store (`PostAnswer`, `ResolveAnswer`,
`RemoveAnswer`), the pane and the editor come and go (`LeaveTab`, `EnterTab`,
`EditorAttach`, `Reopen`), and a store without consumers is evicted.
`LocalEditsAgree`: unless two requests overlapped, the page shows what a fresh
listing would. With an overlap it may not: a listing asked before a post and answered
after it takes the new row away again.

`HistoryPanel.tla`: nothing cancels or orders the requests of this pane.
`UndoOffered`: after a restore, whenever rows are shown, the snapshot of what it
replaced is one of them.

`EditorView.tla`: mounting (`Imported`, `Persisted`, `ProviderSynced`, `Built`,
`Destroyed`, in any legal order with the component's end), the two trigger plugins as
one with parameters, the popover, and the comment selection and composer, while this
user and others edit one textblock of characters and inline atoms.
`PickTakesTheQuery`: a pick replaces the trigger and its query and nothing else, as
long as no atom comes before the caret. `QuoteAnchored`: what a submit anchors is
the text the composer quotes, unless another user edited it meanwhile.

`NoteRoutes.tla`: the routes. The state is the server's rows (`state`, `title`,
`noteTags`; `named` and `read`, the mentions of this user), the page (`at`, `broken`,
`data`), the load that is about to replace it, and what the components keep: `hidden`,
`busy` and the dialog of the trash, the marks of the inbox, the title's input
(`field`). `handlers` are the async functions between two awaits. `again` and `stale` are
history: notes trashed while the trash is up, and a page read before others changed rows.

| Action | Code |
|---|---|
| `Navigate`, `ServeLoad`, `LoadArrives`, `LoadFails` | a link or `goto`, the route's load function, and its answer. The next load makes SvelteKit drop the one under way |
| `RestoreNote`, `AskDelete`, `ConfirmDelete`, `CancelDelete` | the trash page and `ConfirmDialog` |
| `AskDiscard`, `ConfirmDiscard` | the trash button of a note's page |
| `Serve`, `Answered`, `HandlerFails`, `HandlerEnds` | such a handler from the server's statement to its `finally`; the user may have left meanwhile (`listener`) |
| `Pick`, `ServeRead`, `ReadFails` | the inbox: a row is marked at once, its POST awaited by nobody, and the note opened |
| `TypeTitle`, `EscapeTitle`, `EnterTitle`, `BlurTitle`, `SubmitTags`, `NewNoteForm` | the three forms; `ServeForm`, `Redirected`, `FormArrives`, `FormFails` are their way to a new document |
| `OthersDo` | other sessions and the purge |

`PagesAgree`: a page that settled shows what the server has, though the user left and
came back, confirmed twice, or a load gave way to another; and the inbox marks nothing
as read but what is, or what a POST is about. `RenamesAsTyped`: leaving the title's
input saves only what was typed into the input of that note, although the page may go
from note to note, and load again, with the input up.

Five modules compose what is in sections 3 to 9 for TLC. `MCClients`, `MCScreens`,
`MCComments` (the mail pipeline, comments) and `MCEventually` (the mail pipeline, the
scheduler) are sums: the first state chooses a part, and only that one moves. The parts
neither read nor write each other's state (each component of a screen talks to the server
by itself; a comment and the mentions in it are rows of two tables), so a product would only
multiply the states. A sum checks each exactly as if it ran alone, and one run has one
question: do the clients' protocols, the clients' screens, or the server's rows hold up, and
does the server get done what it owes.

`MCScreens` extends the six components of the page (`SearchOverlay`,
`NotesSidebar`, `CommentsPanel`, `HistoryPanel`, `NoteRoutes`, `EditorView`), and `MCClients`
extends `AuthSessions`, `TuiConnection` and `TuiEditor`; their names are disjoint,
`Nothing.tla` holds the absent value they share, and the runs check the very
definitions the theorems are about. The rest are instances: `TuiApp` three times
(`list`, `panes`, `delete`) and `AuthSessions` three times more (`web`, `dev`,
`tui`), each with the users, keys and messages one part of the code
needs. `TypesOK` is the type invariant of every part of these two. `MCEditorView`, the
fifth, is the mention picker alone.

## 10 What each run checks and shows

| Run | Bounds | Result |
|---|---|---|
| `server_safety` | mail: 3 users, 1 note, 1 comment, 5 mentions, window of 2 ticks, 1 retry; threads: 1 note, 3 comments, 1 anchor, 2 requests, 3 bounded steps | the safety properties of both and the action property hold (about 603,000 states) |
| `server_eventually` | mail: the same with 3 mentions and a window of 1; scheduler: 2 notes, 3 snapshot ids, 1 tick, retention 1, 2 instants, 1 change; with fairness | refinement and liveness hold (about 192,000 states) |
| `mention_exit` | 3 mentions | `ExitDropsNothing` fails |
| `snapshots_safety` | 2 notes, 2 snapshot ids, 1 tick, 1 request, retention 1, 2 instants, 1 change | all hold (about 1.6 million states) |
| `snapshots_skip` | 1 note, 1 tick, 1 request, 3 instants, 2 changes | `SkipMeansCaptured` fails |
| `snapshots_undo` | the same | `RestoreUndoable` fails |
| `notes_safety` | 2 notes, 2 titles, 1 tag, 2 contents, 1 file, 2 requests, 4 bounded steps, crashes | all hold (about 854,000 states) |
| `notes_drift` | 1 note, 1 request, 1 bounded step, no crash | `SearchFollowsDocument` fails |
| `notes_purge` | the same | `PurgeTakesDocument` fails |
| `clients_safety` | 2 browsers, 2 emails; 1 terminal, 2 ticks, 1 restart; 2 refresh holders, 4 pairs; 2 edits of ours, 1 of a peer, 2 faults; 3 keys, 1 peer edit, 3 blocks | all hold (about 292,000 states) |
| `screens_safety` | 1 or 2 notes, 3 or 4 user actions; 1 thread with a reply, 2 requests; 4 snapshots, 2 previews; 2 queries, 3 searches; 2 polls, 2 changes; 1 note with 2 titles and 1 tag, 1 handler, 1 change of others; 3 items of text, 2 posts at once (`MaxPosts`) | all hold (about 472,000 states) |
| `editor_pick` | 3 items of text | `PickTakesOnlyTheQuery` fails |

Why these bounds are enough to be interesting. Two uuids for the same body
mention make a duplicate row possible; a mention of the note's creator and one of
the comment's author make self-mentions possible; a body mention and a comment
mention of the same person make a batch of two and an enqueue during a send; a
window of 2 separates a restarted timer from a fixed one; one retry
separates the last attempt from the others. Two notes make a tick go on to a
second one with a row captured at its start; two ids with a retention of 1 make
every second automatic snapshot prune the first; two instants separate "older"
from "same". Overlapping ticks, which need a larger instance, were explored with
one note, two ticks, one request and three ids (862,299 states, the same
properties); that three or more snapshots of one note and any number of ticks
change nothing is what the proofs are for. `MaxClock`, `MaxRev` and the number of
uuids only cut behaviours short.

In `NoteTables` two titles and two notes make a title ambiguous, a link point at
the other note, and a rename race another with either title; two requests make two
PATCHes, or a PATCH and an import, overlap; a page that links to a title and
carries a tag, and a blank one, make a store add and remove both. `MaxChanges`
bounds edits, PATCHes and crashes inside a callback together: four of them leave
room for two overlapping renames around an edit and a cut store. In `Comments`
three ids make a reply to a reply, whose root can be deleted while another reply is
under way; two anchors (906,000 states with two bounded steps) and two notes (1.48
million) were explored as well, with the same result.

In `MCClients` the allowlist leaves one of two emails out, and two browsers with the
same email race their first sign-in; a clock of 2 ticks with lifetimes of 2, a skew of 1
and a timeout of 1 reaches the last tick at which a stored token is reused;
two holders of refresh tokens and four pairs let one token be refreshed twice by
two. Two faults make a drop during the handshake of a reconnect, a crash after a
drop, or an expiry after either possible; two operations separate one that was sent from
one that was pending. Three keys and one update type, split a run by a mark and an atom,
and type again into a block that moved. In `MCScreens` the three parts of `TuiApp`
differ in the messages the user sets off (`Acts`): searches, filters and the poll with two notes of
which one matches and one is tagged; panes and dialogs; deletions, restorations and
reopenings. A thread and a reply with two requests make every pair of
operations overlap; four snapshots leave room for two saves or restores next to a
listing; three searches and two polls overlap and are answered in either order; three
items of text hold a trigger of two characters and a query, or an atom. In `NoteRoutes`
one note is in the trash, on its page and in the inbox by turns, one handler overlaps with
loads, forms and one change by others, and `UserActs` picks what the user does in a
behaviour: the trash, the trash button and the inbox; the title; or the tags and the
form for a new note. With two notes (3.4 million states) and with two handlers the
properties hold as well; that more of either changes nothing is what the proof is for.

What the six failing runs show:

* **Exit.** `flushAll` fires and awaits the batches still queued. A batch whose
  timer fired earlier sits inside `send`, perhaps in a 30 s retry sleep, and is
  not awaited; `process.exit` drops it. And the handler flushes before it stops the
  producers: a comment posted or a document stored afterwards opens a window that
  nobody flushes. `index.ts:196`, `batcher.ts:61` and `TASKS.md:212` say that
  neither is lost.
* **Skip.** A named snapshot is stamped after its read. A change stored between
  the two is not in its bytes, yet the stamp is newer than `updated_at`, and the
  scheduler skips the note until its next change. `PRD.md:174` says a changed
  document gets a snapshot.
* **Undo.** Restore reads, inserts the pre-restore row, then replaces, with
  awaits between. An edit in the gap is overwritten and is in no snapshot.
  `PRD.md:177` calls the restore atomic and undoable.
* **Drift.** The hook skips a trashed note, but whoever still has its document open
  can edit it, and Hocuspocus stores it. Restoring the note clears `trashed_at` and
  nothing else, so search, tags and backlinks show the older text until the next
  store. `docs/ARCHITECTURE.md:63` says they can never drift from the document.
* **Purge.** Deleting forever and the hourly purger delete rows of `notes`. The Yjs
  state is in `documents`, a table of Hocuspocus without a foreign key to `notes`, and no
  statement of the server deletes from it: a note that was edited, stored, trashed and
  purged leaves its document. `PRD.md:209` says that a purge includes the Yjs state.

* **Pick.** The trigger plugins look for the trigger in the block's text without its
  mentions and backlinks, and cut it at an offset that counts them. With one mention
  earlier in the line the start comes out one too small, and a pick also replaces
  what stands before the `@`: a blank, or the mention itself when a peer inserted it
  right there. `mention-trigger-plugin.ts:178` says it replaces the query.

## 11 Fairness

`MentionPipeline`'s `Fairness` is weak fairness of four things. `Tick`: time passes while a
timer is armed. `FireBatch(u)`: Node runs a due timer. `Sender`: some batch
under way makes its next step: `transport.send` answers or its connection
fails, and a sleep ends; each is promised by the runtime or by TCP, no particular
answer is. `ShutdownStep`: the handler, once started, runs on. Nothing is assumed
of users, signals, crashes, purges or reboots. The window has no maximum: someone
mentioned again and again would wait for ever. That does not happen in the
model because `Mentions` is finite; `EventuallySettled` says that the
emails go out once mentions pause, not that they go out during a storm.
`Sender` is one fairness condition for all batches, which is enough because
every batch takes a bounded number of steps and there are finitely many.

`Snapshots`' `TickFairness` is one weak fairness condition for the three steps of a tick:
the interval fires again and again (`setInterval`), a read of the document ends and so does
an insert. Nothing is assumed of requests, clients, stores or the clock. Crashes may come
at any time, but a server that dies in every tick captures nothing, so `ChangesCaptured`
has as its antecedent that they cease (`<>[][~ Crash]_vars`). `MCEventually` states both
fairness assumptions of the part that moves (`MailFairness`, `SchedulerFairness`).

`TuiConnection`'s `Fairness`: the tasks of the event loop run (connecting, the
wait of the reconnect loop, receiving, sending), the server reads what it was sent
and takes a valid token, and an outage ends (`Back`). Weak fairness of
`ConnectOk` is enough because faults are few; an outage that recurred for ever would
need more and would refute the property rightly. `TuiApp`'s `Fairness`: the pump takes the
next message, the timer goes on, and a request is answered, with rows or a refusal,
which is what `asyncio` and an HTTP timeout promise; `MCScreens` states the same of the
part that moves. Nothing is assumed of users, other clients, faults or lost answers.
`TypingLands` and `ListNeverGoesBack` are action properties and need none.

## 12 Proofs

The eight proof modules are checked from nothing with Z3, Zenon and LS4. They assume
only the named assumptions of the modules, which say that the constants are of the
right kind (mentions have a recipient, the window and the retention are positive);
sets of mentions, users and ids have any size, and so have a text and its trigger.
TLC evaluates the assumptions: as `ASSUME` where a module states one, and as
`Instances` of `MCClients` and `MCScreens` for the modules that are also used
through `INSTANCE`, whose theorems have the assumption as a hypothesis.

`MentionPipelineProofs` proves `TypeOK`, `OneHolder`, `SentIsTrue`,
`UnsentAccounted`, `CopiesBounded`, `OneBodyRow`, `WindowSlides`, `FinalIsFinal`
and the refinement `ImplementsDelivery`. None of these is inductive alone. That a
settled mention was really accepted needs to know, of every batch whose response
is on its way, that its items were counted (`BatchInv`); that no item is
delivered twice needs that queued items have no copies yet (`QueueInv`) and that
holders do not share items (`HoldersDisjoint`); and all need that rows in memory
have not been marked (`RowInv`). `IInv` is their conjunction: one lemma per
action shows that it is kept, and each property follows from it. `OneBodyRow`
has an induction of its own, `WindowSlides` and `FinalIsFinal` are action properties
under `IInv`. The refinement takes the steps one by one: producers are
`Submit`, `ProviderAccepts` is `AcceptEmail`, the two ends of a batch are
`Settle`, an exit or a crash is `Settle` with outcome "lost", and the rest stutter.

`SnapshotsProofs` proves `TypeOK`, `AutosBounded` and `ScheduledIsCurrent`, for any
number of notes, ticks, requests, ids and any retention. `AutosBounded` rests on cardinalities: an insert adds one row, the
prune leaves at most `Keep`, and a subset of a bounded set is bounded.
`ScheduledIsCurrent` needs what a tick holds between its read and its insert:
that the bytes it read are behind the export only if the note was stored after
the tick began (`TickInv`), that no stamp is in the future (`TimeInv`), and that
neither the document nor the table is ever behind the export, even across a
crash (`RevInv`).

`NoteTablesProofs` proves `TypeOK`, `HistoryAgrees`, `OldTitlesResolve`,
`DerivedUnlessSkipped` and `BacklinksHonest`, for any notes, titles, tags and requests.
Together they are inductive once it is known that a uuid not drawn yet has an empty export
and document (`FreshInv`), that a request is at a note that was inserted (`ReqInv`), and
that the tables that cascade from `notes` have no row of a note that is gone (`GoneInv`). `Appended` says what a title change does to
the history and `LinksResolve` what a store inserts; then each action either leaves the
titles, or what is derived, alone (`TitlesAlone`, `DerivedAlone`), or is one of
the few that do not.

`CommentsProofs` proves `CommentsTypeOK`, `ThreadsHonest` and `OrphansFollow`. A thread can
be cut only by a row that goes or one that comes. What goes is closed under
replies, in a delete by the definition of the cascade, in a purge because a reply is
on its parent's note. What comes was looked up earlier: `ReqInv` says that the note
and anchor a request remembers are still those of the parent *if* it exists, which
needs that ids are never drawn twice (`UsedInv`), and the foreign key says that it exists.

`PageProofs` is about six components of the browser's page, each with an invariant
of its own.

* `NotesSidebar`: `SidebarTypeOK` and `ListNeverGoesBack`. An answer is applied if
  its poll was not aborted; that there is at most one such poll (`PollInv`), and
  that what it was answered is no older than the rows (`AgeInv`), is the invariant.
* `SearchOverlay`: `SearchTypeOK` and `HitsMatchQuery`. `BoxInv` says where a text in
  the box can be: in the debounce, awaited under the name `lastQueryRun`, or
  answered. That the debounce still runs after `close()` is harmless because typing
  again, which is needed for a text to be in the box, resets it.
* `HistoryPanel`: `HistoryTypeOK` and `UndoOffered`. Nothing in the pane orders its
  requests, so the argument is about which can meet: a restore lists once it was
  answered and cannot start while a listing is under way (`TurnInv`), what it replaced
  stays on the server, whatever the retention does to other rows (`KeptInv`), hence
  a listing that was answered has every row to undo, and so has a list that is
  shown (`UndoInv`).
* `CommentsPanel`: `PanelTypeOK` and `LocalEditsAgree`. A request that overlapped no
  other is the only one under way, and it is about a comment that is there
  (`RequestInv`); a listing that overlapped none was answered with the rows the server
  has (`ListingInv`). Then the store agrees with the server until the request is served,
  and again as soon as its answer is applied to it (`SerialInv`, with `Applied` for what each
  kind of answer does). The bags make this a proof about functions: `RowsOf` is
  the listing of any table, and one lemma per operation says how it changes with one row.
* `NoteRoutes`: `RoutesTypeCorrect`, `SettledPagesAgree` and `TitlesAsTyped`. A page is
  wrong about a note only while something will still put it right: a handler whose
  statement was served and that has yet to load, or a change of others that set `stale`.
  `SyncInv` says so of the page, of the load that was answered and of a form's
  redirect, with the notes of such handlers set apart (`Pending`); a handler leaves that set
  with a new load, which makes the page at hand one that will go, or fails and sets `stale`. `HiddenInv` says that what
  the trash hides, or is about to, has left the trash or come back to it since, and needs
  `ListenInv`: a handler that can still write to the page's state was begun on that page.
  `MarksInv` and `FieldInv` do the same for the inbox and for the title's input.
* `EditorView`: `EditorTypeOK`, `QuoteAnchored` and `PickTakesTheQuery`. Until the
  composer opens, the selection of a comment is that of the text at hand (`FollowsInv`), because a transaction of this
  user's collapses the range, which drops it. Afterwards nothing of this user's
  can change the text, and a transaction of another either sets the history variable
  `composer.moved` or leaves every item of the range where the mapped ends say (`SplicedFacts`).
  A pick takes the query because the trigger at hand is the one the text before the
  caret has (`MirrorInv`), and what stands between it and the caret is what was
  typed (`DetectedIsTyped`). Which letters those are is a recursion over the text; facts about
  all of its places are shown by the least place where one would fail.

`AuthSessionsProofs` proves `TypeOK`, `OneIdentityPerEmail`, if the timeout is
within the skew `StoredTokenAdmitted`, and for finitely many holders `OneSuccessorEach`. The first needs what a sign-in carries across its
await: the identity minted for its email and no other's, or a row of the table (`MintedInv`,
`ReqInv`). The second needs that only browser sessions are ever revoked
(`SessionInv`) and how far the client's date may be ahead of the token's (`TuiInv`). The
last counts: the successors of a token and the holders that have read it are together
no more than there are holders (`CountInv`), because an issue turns one of the second
into one of the first, and a read needs a token without successors (`UnspentInv`),
which a number drawn only once keeps apart from every other (`DrawnInv`).

`TuiProofs` is about the connection and the editor of the terminal.

* `TuiConnection`: `ConnTypeOK` and `HandshakeCarriesAll`. What a socket has
  received the server must still hold (`OpenInv`, which a crash keeps because it closes
  the socket), and a connection that was closed and reconnects all the same
  sends nothing, so its answer alone must carry everything (`ClosedInv`).
* `TuiEditor`: `EditTypeOK`, `PrimitivesAtPlaces` and `TypingLands`, for any document a
  sequence of keys and edits of others can leave, any letters and any number of
  blocks. Each primitive is a recursion over the runs of a leaf. One lemma for each
  says what it does to the places: a cut takes a middle part out of a run
  (`CutRun`, `DeleteAtPlaces`), an atom goes in between two runs or splits one
  (`SplitAtPlace`), a mark cuts a run in three pieces, and joining neighbours with equal
  marks changes no place (`CoalesceKeepsPlaces`). Concatenation carries them from one run to all.
  `PrimitivesAtPlaces` then holds of any leaf, and needs of the states only that they are
  of their type. `TypingLands` needs more: that the caret of a document with a block stands on a
  leaf, which is the part `CaretOnLeaf` of the types, and that every key and every update of
  another client leaves it there.

The library's induction theorems take an operator, which the provers here cannot
instantiate. `NatInduct` and `SeqInduct` take a set instead, that of the numbers or
the sequences for which the fact holds, and rest on `WFMin` of `WellFoundedInduction`, which
needs no operator. That suffices for recursions given as functions and folds.

`TuiAppProofs` proves the types of `TuiApp`, for any notes and any kinds of message.
They are not inductive: a handler shows the pane its message names and
runs the plan its answer stands for, so `AppInv` adds what a message that waits is
about (a chord names a pane, a question a dialog, an answer one that runs
something). The variables fall into groups by who writes them (`Parts`), and each action has one
lemma. That the citations and bounds are of the right kind (`AppAssumption`) is a
hypothesis, which `MCScreens` evaluates for each of the three instances.

## 13 What is only model-checked, and what is not modelled

Only model-checked: the liveness properties `EventuallySettled`, `ShutdownEnds`,
`ChangesCaptured`, `EditsReachServer` and `ListSettles` (fairness and `ENABLED` are beyond the
prover); `TypesOK` of the two sums, whose parts are each proved on their own; and, by their
nature, the six failing properties.

What the properties except, so that nothing is read into them: `LocalEditsAgree` speaks of
requests that do not overlap, `QuoteAnchored` of text that no other user edited under the
open composer, `ListSettles` of an application that was not ended by an error, and the
run of `PagesAgree` and `RenamesAsTyped` has one note and one handler (their theorems have
any number). What the code does in the excepted cases is in the models, and is told below or
under `hazards` in `PROJECT.json`.

What the proofs found in the models: `CommentsPanel` and `EditorView` had `CASE`
expressions with guards that could hold together. TLC takes the first, the language
leaves the choice open, and no proof goes through; they are `IF` now, as in the code.

Left out on purpose:

* Rendering of emails, snippets, titles and previews, logging, and the format of
  Yjs updates. The sizes of batches and of Hocuspocus' debounce.
* A second signal while the shutdown handler runs (it would start the handler
  again), an `SQLITE_BUSY` from `markEmailSent`, deletion of users (the code has
  none), and a server without `PUBLIC_BASE_URL` (it has no pipeline).
* Ties in the same millisecond: `created_at` equal to `updated_at` counts as
  unchanged for the scheduler, so a store right after a read in the same
  millisecond waits for the next change. `ScheduledIsCurrent` and
  `SkipMeansCaptured` are stated with a strict `>` so as not to depend on it.
* The read-only routes, but for how their answers are used. A mention that arrives in an
  open inbox: `NoteRoutes` has the inbox, `MentionPipeline` the inserts.
* Which tags, titles and emails a text shows (the scanners of `derived/`), the
  text of comments and of quotes. The quote the server reads may be of a moment
  before or after an edit; nothing depends on which.
* The timestamps of `note_titles_history`: a row is open or closed. Two rows of the
  same note and title that are both closed are one element of the set.

* In the clients: cursors and presence of others (`awareness.py`, the status bar), and
  the wording and layout of every screen. The scheduling of `asyncio` inside one
  callback. A socket that dies between connecting and the handshake's sends, which
  ends the reconnect loop like `ConnectInvalid` does.
* Of `TuiEditor`: one heading level, one list kind and one mark stand for all, a list
  has one item, and an edit of another client touches a block at its ends.
* Of `NoteRoutes`: the order of two rows in a list, a second mention of the same user in a
  note, and what a document given up by the browser still sends (it counts as another session's).
* Of `NotesSidebar`: a note visited by its URL.
* Of `HistoryPanel`: retention, and a preview that arrives for another row than the
  selected one, which the code shows (`PreviewArrives`) and restores as selected.
* Of `CommentsPanel`: comments of other sessions, which the store does not follow.

Smaller divergences seen while reading, with no run. The trash page never clears
`hidden`, so a note that goes back to the trash while the page is up stays out of its
list; the comment at `trash/+page.svelte:26` takes it that the row is gone. When deleting for good
fails, the dialog stays up with its buttons disabled (`ConfirmDialog.svelte` never
resets `submitting`) until Escape. Moving a note to the trash takes the user to the
trash when the answer arrives, wherever they went meanwhile. Enter in a title nobody typed into posts
the title the page came up with, and so undoes a rename by others. The allowlist is asked when
someone signs in (`auth/routes.ts:187`) and by no later request, where
`docs/ARCHITECTURE.md:83` says it is enforced on every authenticated request and
WebSocket. The terminal stores a refresh token
and never uses it (`PRD.md:145`, `docs/ARCHITECTURE.md:81`): when its access token ends it asks for a new
device code. `R` clears the remembered deletion after its own await and forgets one made
meanwhile (`app.py:1015`). In a block that begins with a mention, a letter typed in
the terminal can land before it (`editing.py:475` and `editor.py:29` count atoms
differently). A web editor destroyed before its mount ends never destroys its
provider (`Editor.svelte:618`). And a rename makes the
scheduler take a snapshot of an unchanged document, since it moves `updated_at`
(`PRD.md:174` says only if the document changed); a note that
was never snapshotted gets one even when it is empty, where the comment at
`scheduler.ts:14` asks that it "has content"; and replies may be replied to
(`comments/routes.ts:203` accepts any parent), where `PRD.md:169` says threads are
one level deep.

Not modelled yet: awareness, the web client's link and code-language popovers, and its
backlinks panel. Not going to be modelled:
the markdown parser and serializer, the editor's schema and highlighting, the terminal's
renderer, email templates, migrations, configuration,
ProseMirror and Textual themselves, deploy scripts. They are text, one-off
or third-party code, and have no state a model checker would help with.

## 14 Running

```
tlc -workers 2 -config Server_safety.cfg MCComments.tla
tlc -workers 2 -config Eventually.cfg MCEventually.tla
tlc -workers 2 -config MentionPipeline_exit.cfg MCMentionPipeline.tla
tlc -workers 2 -config Snapshots_safety.cfg MCSnapshots.tla
tlc -workers 2 -config Snapshots_skip.cfg MCSnapshots.tla
tlc -workers 2 -config Snapshots_undo.cfg MCSnapshots.tla
tlc -workers 2 -config NoteTables_safety.cfg MCNoteTables.tla
tlc -workers 2 -config NoteTables_drift.cfg MCNoteTables.tla
tlc -workers 2 -config NoteTables_purge.cfg MCNoteTables.tla
tlc -workers 2 -config Clients_safety.cfg MCClients.tla
tlc -workers 2 -config Screens_safety.cfg MCScreens.tla
tlc -workers 2 -config EditorView_pick.cfg MCEditorView.tla
tlapm MentionPipelineProofs.tla
tlapm SnapshotsProofs.tla
tlapm NoteTablesProofs.tla
tlapm CommentsProofs.tla
tlapm AuthSessionsProofs.tla
tlapm PageProofs.tla
tlapm TuiProofs.tla
tlapm TuiAppProofs.tla
```

`PROJECT.json` lists every run with its module and configuration, the lines of
source each definition translates, and for each property a mutation of the model
(an operator marked "Faulty" beside the right one) that TLC finds to violate it.
