# Verification of wa-ultra-agent

This directory models the stateful core of the repository in TLA+: what happens to a
WhatsApp message from the moment the Go transport receives it until the owner, or the
agent, has seen it, what is derived from it in the archive, and what the agent then sends,
says, plays, searches or configures. TLC checks the models on small instances; TLAPS
proves the properties that matter most for every value of the constants.

    tlc -workers 2 -config MCHandoff.cfg MCHandoff      # one run
    tlapm TransportProofs.tla                           # one proof module

All paths below are relative to the repository root.

## 1. The system

Three processes and the WhatsApp servers:

    WhatsApp --whatsmeow--> transport (Go) --HTTP pull--> bridge (node) <--HTTP--> agent (eve)
                            session.go, outbox.go         transport.js, store.js   channels/console.ts
                            two SQLite files              one SQLite archive       in-memory sessions

| part | state it keeps | operations | hard behaviour |
|---|---|---|---|
| transport session (`session.go`, `api.go`, `main.go`) | the paired device, the socket, a QR stream, a reconnect goroutine | pair by QR or phone, connect, drop, logout, restart | the server closes the socket after pairing; a request that ends while the goroutine reconnects |
| dispatcher (`dispatch.go`) | counters, tally of unrecognised types; writes outbox and media pointers | live event, history sync, status snapshot | a bad record in the middle of a batch; two writes that may be cut in two; reads beside writes |
| outbox (`outbox.go`) | a bounded queue in SQLite, `dropped` | Append with eviction, Pending, Ack, Open with another capacity | the queue at its limit, while a batch is fetched and not yet acknowledged |
| drain (`transport.js`, `whatsapp.js`) | `running`, `lastDropped`; the archive | fetch, store, acknowledge, route; interval and manual | overlapping drains, lost answers, crashes between commit and ack |
| bridge self-chat console (`whatsapp.js`, `plugins.js`) | mode (idle, game, eve), forwarded queue, each with its file | route, push to the agent, long poll, restart | a push and a poll after the same item, failed saves, callers that hang up, its own words coming back |
| agent console channel (`console.ts`, `delivery-guard.ts`, `silent-turn.ts`) | session address, `lastPushed`, pending requests and replies, guard | POST /message, turn events, delivery, retry in a fresh session | awaits between reads and writes of module variables, at-least-once turns, overlapping turns |
| archive (`store.js`) | messages, facts, extractions, arcs, proposals, aliases | upsert, save passes, propose, retract, prune | foreign keys against a retention job, all-or-nothing passes |
| identity (`identity.go`, `chat-repair.js`, `chat-address.js`) | address to person, LID learned late; conversations filed under a display name | resolve; merge what is filed under a name into its address | rows re-keyed onto rows that are already there; rows of a provisional address, which nothing merges |
| sends (`send-policy.ts`, `tools/whatsapp_*.ts`, `recipients.js`, `transport.js`, `whatsapp.js`) | a parked call, two allowlists, a roster, what was filed, rows of the UI's queue | approve, resolve, permit, send, file, close | a roster that changes under a request, replies and filings that fail after the message has gone |
| self notes (`serial.js`, `self-note.js`) | a chain of promises | queue, send message by message, answer from the console | a connection that drops in the middle of a note; a note that fails before others |
| tic-tac-toe (`tictactoe.ts`, `whatsapp_tictactoe.ts`) | the chat as archived is the save file; a queue of calls; boards under way | read, decide, check, have a board sent and filed | the chat moves between reading and writing; a board is sent before it is filed and is not echoed; calls are cancelled |
| twin passes (`twin.ts`, `extraction.ts`, three tools) | what a call has read and been answered | read, think, check, save | messages arrive and are pruned, others save, while the model thinks |
| preferences (`ui-api.ts`, `ui-settings.ts`, `env-file.ts`) | `.env` and one temporary sibling | check a batch, replace the file | overlapping saves, rename or in place, a stop in between |
| archive search (`result-set.ts`, `context-budget.ts`, two tools) | open result sets, a ledger of readings | search, show a head, page from anywhere | eviction and expiry, messages arriving, other sessions, a caller that skips |
| voice notes (`speech.ts`) | one call | choose, cut, speak, retry, join | boundaries of the cuts |

What makes each part correct:

- *session*: a linked device receives, or somebody is told that it does not.
- *dispatcher*: nothing is silently absent; a failing record costs only itself.
- *outbox and drain*: no message is lost without being counted; none is routed twice; the loop never sticks.
- *self-chat console*: what the owner forwards reaches the agent, once; the console never talks to itself.
- *console channel*: every turn is answered, once, unless the bridge or a tool failed to deliver; a retry is not retried; a rotated session stays rotated.
- *archive*: everything derived cites something that exists, after any prune.
- *sends*: nothing is sent to anyone who is not both named and allowed; what is called sent has gone, and is on file if it is a text.
  Only texts and voice notes whose words commit the user, and generated pictures, ask for a yes first.
- *self notes*: a note arrives whole, and every note is answered.
- *tic-tac-toe*: the boards the archive is given are those of one game after another; the hard level never loses.
- *twin passes*: one bad citation does not cost the pass; a pass leaves the twin current.
- *preferences*: a save that meets no other lands whole, whatever earlier ones left behind.
- *archive search*: a caller that does not skip is told "all" when it has read all, and otherwise where to go on.
- *voice notes*: every word is spoken, once, in order.

`PROJECT.json` lists every component with its status and every hazard with its line.

## 2. Plan

| step | modules | runs | proofs |
|---|---|---|---|
| 1 | `Outbox`, `Handoff`, `HandoffContract` | `handoff`, `handoff_manual` | queue, drain and refinement |
| 2 | `ConsoleChannel` | `channel`, `channel_pairing` | types and all four properties |
| 3 | `SelfConsole` | `self_console`, `self_console_lost` | types and all four safety properties |
| 4 | `Dispatch`, `Pairing`, `Session` | `session` | accounting, pointers, snapshots |
| 5 | `Archive`, `Retention`, `ChatRepair`, `ArchiveSystem` | `archive`, `archive_prune` | the archive's invariant and all four properties |
| 6 | `Recipients`, `Sends`, `SelfNotes` | `agent` | both properties of `Sends`, notes arrive whole |
| 7 | `TicTacToe`, `GameRules`, `ChatGame`, `TwinPass`, `Settings`, `SearchPages`, `Voice` | `agent`, `agent_window`, `game` | every safety property of the seven |

All of it is built. What would come next: `resolveTarget` and uploads of the transport, `interactionMetrics`,
a restart of the agent inside `ConsoleChannel`, torn writes of the bridge's state files, and runs for
the disagreements that section 7 tells without one.

The abstract specification is `HandoffContract`, which `Handoff` is shown to implement; `GameRules`,
the game between the user and the engine, is what the boards filed by `ChatGame` come to.
Modules are parameterised by CONSTANTS with named assumptions, have one action per
operation and use no RECURSIVE operator, so that all of them can be proved about.

## 3. Modules

### Outbox, Handoff, HandoffContract

`Outbox` is `outbox.go`: `log` is everything ever appended (AUTOINCREMENT numbers index
it), `queue` the rows in the table, `evicted` and `dropped` what capacity cost, and
`capacity` the limit of the process now running. `OutboxAppend` inserts and evicts in one
step, as the transaction does; `OutboxReopen` is a restart under another capacity.

`Handoff` adds the bridge. A drain is a process with a program counter over the awaits of
`drainOnce`: *reading* (rows read, counters not yet), *fetched*, *stored* (committed), *acked*
(applied, answer on its way), *routing* (one entry per step, because `onMessage` is awaited).
`Ticks` are drains of the interval, guarded by `running`; `Manuals` are those of
`POST /transport/drain`, which neither look at `running` nor route. `Fail` is a throw at any
await, with or without effect on the other side; `BridgeCrash` and `TransportRestart` lose what
memory holds. Messages outside `Storable` are those `upsertTransportMessages` rejects.

`HandoffContract` says the same with no queue, request or failure in it: an entry is owed until
it is released, released only when the archive has dealt with it, or given up oldest first.
`Contract` in `Handoff` is the refinement mapping.

### ConsoleChannel

`console.ts` with its module variables as VARIABLES, one action per stretch between two awaits.
`stage` says where each call (a push or a retry) is suspended; `turns`, `begun`, `running` are the
eve runtime, external: it runs a turn for what was sent, may run it again, may overlap turns.
`EagerStart` says whether `turn.started` may precede the return of `send`: not in the runs, where eve starts
a turn once it has taken it; the proofs cover both. The guard is the bounded sequence `seen`. Whether the session
was idle for 45 minutes is a choice. A prompt is the text of its request: `composePrompt` takes a transcript and
makes no use of it. `outcome` is what the owner's phone has of a turn; that a delivering tool was *called* is all
`silenceAction` looks at, so one that failed is an outcome of its own.

### SelfConsole

`route` as a table of modes and words, `handleSelfMessage` around it, `pushToAgent` as four
outcomes (landed, refused, timed out, abandoned), `pendingForAgent` as a long poll that looks,
waits, and drains. `queue` and `queueFile` (and `session`, `sessionFile`) differ after a failed
save; `BridgeRestarts` reads the files. What the console says has a form (its answer, or a banner on a change of
session), each of which may come back as an outgoing message (`echoes`), which `isOwnReply` knows by its marker.
`replies` counts what was said and `owed` what the owner's messages called for. `voided`, `cut` and `spoiled` are history: what a
caller that went away took with it, what a restart cut off, and whether a save had failed
before a restart.

### Dispatch, Pairing, Session

`Dispatch` is the read loop: `work` holds the records of the event in hand, `step` where
`handleMessage` is with the first; counters, tally and media pointers are separate steps because a
status poll reads beside them and a process may stop between them. `given` and `owing` are
history. `Pairing` is the socket: `emitter` is the QR channel's goroutine, `request` the HTTP
handler, `reconnect` the goroutine of `reconnectAfterPairing`, `told` whether a failed connect
was logged or answered since the socket last came up. `Session` composes them: events
arrive only on a connected socket, PairSuccess goes to both, a restart starts both.

### Archive, Retention, ChatRepair, ArchiveSystem

`Archive` is `store.js` as one variable `db`, a record with a function per table from its UNIQUE
column to the rest of the row; every transaction of the code is one step that leaves another `db`.
A content key is the tuple of what the code hashes, so the chat *in* a key (a string) and the chat
*of* a row (a reference) are two things, which is where the archive was once corrupted.
`Resolved` is `requireChatKey`: an address that answers to a name beats a row filed under it.
`Retention` is `prune`, one operator per DELETE in the code's order; `PruneStages` is what each
leaves, and `Refused` says that a foreign key of `ForeignKeys` fails after one, which rolls all
back. `ChatRepair` merges phantoms table by table. `ArchiveInit` is a file of an earlier
build: conversations filed under names, holding messages or not.

Batches have one row, arc, goal and context at most. Statuses are collapsed to open and
closed; the status of an arc, `times_proposed`, confidence and wording are left out. A dry run
leaves what it found and is no step. `LocalCitations` in `PruneCommits` names what
`saveInteractionModel` does not check: that a pass cites messages of its own chat.

### Recipients, Sends

`Recipients` is the name lookup: aliases, the three tiers of `resolveRecipient`, and
`resolveAllowedRecipient` as `Recipient`. A name is the sequence of its folded words; prefix and
"holds every word" are what the tiers compare. `Sends` is a request with a program counter: *parked*
for approval, *tool*, *posted*, *resolved* (the roster read goes along in `read`), *accepted* by
WhatsApp, *ended*, with what its caller was told: "not sent" is what every tool makes of a refusal, and of a reply that
was lost or a row that was refused after the message had gone. Every tool that reaches other people is an action
with its own ways to give up. `ContactRenames` is the other side changing its push name, at any
moment; `AnswerIsLost` is every failure after the message has gone. Whether words commit the user is an input:
the patterns of `send-policy.ts` are text scanning. The Go guard is the constant `Permitted`.

### SelfNotes

`serial` is `chain`: its head runs, and leaves whether it succeeded or not. A note is
sent message by message, each a step; the connection may drop between two, which ends the note where it
is. The console answers beside the chain.

### TicTacToe, GameRules, ChatGame

`TicTacToe` is the board, the rules and the engine: `minimax` tabulates the scores of a search from a board
of `root` marks, by the number of squares left, which is why its depth need not be a parameter; `chooseMove` is
the set of squares a level may choose. `GameRules` plays it against every opponent. `ChatGame` is the tool: calls
are queued in the process, and each reads the chat, decides, checks with a second read that nothing has moved, and
asks the bridge to post a board. Posts are taken in order (`posts`), and each is sent and then filed: `phone` is the
game of the last board sent, `filed` of the last board the archive was given. A post may be refused, or sent and not
filed (`PostUnfiled`), which the tool cannot tell apart; a call may be `cancelled` with its post under way. `readGame`
never looks before the newest board, so `chat` keeps that board and what follows it; a board is ordered by when it
was sent, and `since` counts what came while it was being filed. Words addressed to the game (`ttt`) are commands
whatever is on the board, others only while a game is live.

### TwinPass

A pass reads a window, the twin's keys or the dismissed moves, is answered by the model (external: any
candidates, with invented keys among them), keeps what the code's checks keep, and saves; the store checks each key again
and refuses the whole pass for one. Messages are their places in sent order.

### Settings, SearchPages, Voice

`Settings` has the file, the sibling shared by all saves (its name is the process id), and per save the
file its open handle names, which follows a rename; `crossed` are the saves that met another one. `SearchPages` counts rows: a search asks for hits and coverage
together and is answered apart; `reader[s]` is what the session asked, found and has read. A session may resume
anywhere, as `whatsapp_search_page` lets it; `skipped` remembers that it passed over rows. `Voice` is
`speak` with a text as the sequence of its sentences, as `chunkText` makes them: words with one space
between any two (`IsSentence`), over any alphabet. The loops of `chunkText` are functions of the turn (`Turns`) and of the sentence
(`Taken`). `Says` does not compare letters but lays the requests end to end along the text, one space apart where the text has
one, so a lost, repeated or displaced character shows. Each request is tried up to three times.

`MCAgent` runs one of these machines per behaviour (the rules of the game, sends, notes, passes, preferences,
searches, voice notes), named by the variable `machine`: they share no state, so a product would only multiply
states. `MCGame` is `ChatGame` in two instances, one with calls that overlap and one with a game played to its end.

## 4. Runs

| run | instance | shows |
|---|---|---|
| `handoff` | 2 appends of a storable and an unstorable message, or 4 of storable ones, capacities and limits 1 and 2, two interval drains, one manual, 2 faults (111,000 states) | the queue is a suffix of the log and drops are counted; nothing is lost silently; routing is in order, once, after storing; an append ends within capacity; the whole implements `HandoffContract`; the queue drains, and every gap is reported, the one after a reported gap too |
| `channel` | 2 requests with their retries, 2 turns per session, a guard of 2, 1 redelivery (1.3 million states) | claims are spaced by the guard's capacity; a request is sent at most twice; a turn that ends in silence has a cause outside the channel; no rotation is undone |
| `self_console` | 3 messages, 2 open polls, 2 faults (375,000 states) | nothing forwarded is forgotten; no two polls get one message; a confirmed push is not queued again; no more is said than was called for, banners included; what is forwarded arrives |
| `session` | 3 records, histories of good and bad records, 1 failing write, 2 drops, logouts or restarts (1.4 million states) | everything is accounted for; pointers follow messages; snapshots never overstate; a linked device receives or somebody is told |
| `archive` | one address, one name that comes to resolve to it, a message that grows old and an undated one, three retention policies, one title, wording, draft and nickname (104,000 states) | citations resolve; rows stay under the keys their writers compute; a prune takes only what is owed, and is refused only by what its statements do not reach |
| `agent` | one machine of: all games at two levels; 1 request over 2 contacts, 3 names and a renaming; 2 notes of up to 2 messages; 2 passes over 2 messages and 2 spellings of a thread; 3 saves, 2 at a time, of 3 batches, one of them refused; 2 sessions over 1 open set and 3 rows; texts of up to 3 sentences (626,000 states) | the properties of the second half of the list in section 1, each about its machine |
| `game` | 2 calls at a time, 3 in all, over one square, 2 typed messages, with posts refused, lost and cancelled; and 4 calls one after another, over three squares at the hard level (2.6 million states) | the boards filed are of one game after another; no board on the phone or on file is lost at the hard level |
| `handoff_manual`, `channel_pairing`, `self_console_lost`, `archive_prune`, `agent_window` | as small as shows it | section 7 |

*Bounds.* `MaxAppends`, `MaxFaults`, `MaxRedeliveries`, `MaxRecords`, `MaxFailures`, `MaxOthers`
and `MaxDisruptions` bound counters that the code leaves unbounded. Capacity 1 with two appends
already evicts under a fetched batch; four appends let a second gap follow a reported one, and for them the run
leaves the unstorable message and the manual drain out (`LongLogIsPlain`); two drains of the interval are as many as `running` can let
overlap after a crash, and the manual one overlaps both. Two requests give four calls, the fewest
with which a retry overlaps another message; session length and guard capacity 2 make
rotation and forgetting happen within them. Two polls and three messages let a poll, a push and a
restart each hold a different item. Two disruptions are a logout and a restart of a
re-paired device. In the archive `MaxNow` = 1 lets a message cross a window of a day; `MaxId` = 2 lets
the same arc exist under a name and under its address, and ids be used again after a prune;
`MaxLoad` = 4 bounds the rows derived from messages, of which `NoteWeight` = 3 lets a fact,
transcript, extraction or alias be together with a pass only, since no operation relates those
tables to each other except through messages and chats, while a pass, an arc, its goal and its
move fit together. In `MCAgent` one request suffices because requests share nothing but the roster; two contacts and
the names `ana`, `ana paula` and `we` make a name unique, ambiguous, a prefix and an alias. Two notes are
the fewest that can interleave. A window of 3 lets a board scroll out of sight. Two messages let one be pruned
under a pass and one be new to it. One batch saves both settings, one is refused for one of its two, one saves a single setting: a stale sibling of the first under the text of the last would mix them. One open set makes every
second search evict; a head of one row out of three leaves two pages, and a place past the end to resume at. Two calls
of the game tool that overlap, a third over what they left, and two messages typed are the fewest with which one turn
overwrites another; at the hard level four calls are an opening and the three moves with which a user could win. Words of 1, 3 and 6 letters against a piece of 4 are shorter, as long as and longer
than a request. The proofs need none of the bounds to be small.

*Fairness.* The interval keeps firing and a suspended drain is resumed, because every request has
a timeout and every await settles. The agent's requests end, by `AbortSignal.timeout`, and
`agent/schedules/inbox-watch.md` polls every ten minutes. The dispatcher finishes the event in
hand; the server closes a paired connection, the reconnect goroutine ends by its own timeouts and
whatsmeow retries drops until it connects. The handler of a self note runs until it has answered
(`NoteFairness`: each send has the transport client's timeout). Nothing is assumed of arrivals, the operator or faults.

## 5. Proofs

- `TransportProofs`, the queue and its drain: `OutboxInv` says that the queue is an interval ending at the newest entry and
  nothing evicted is still in it. Neither *suffix* nor *drops are counted* is inductive without
  that: what an eviction removes must be known to be the oldest, and not to be counted twice. `AppendKeepsCapacity` follows
  from the size of an interval. `HandoffInv` adds, per drain, what its stage knows about its batch (`BatchInv`:
  an old end of what was queued when it was read, archived once it is stored, gone once it is
  acked), `RunningInv` (at most one interval drain is active, and `running` says so) and `RouteInv` (what was
  routed precedes what is still queued). Type correctness, no silent loss, routing once and in
  order, routing after storing, and the refinement of `HandoffContract` follow.
  The dispatcher: `DispatchInv` says by how much the counters may disagree in the middle
  of a record: one message not yet counted, one type not yet tallied, one pointer owed. The four
  safety properties of `Session` follow.
- `ConsoleChannelProofs`: three invariants. `LinearInv`: a request is in one place, not sent yet, awaiting its
  turn, bound to one turn, owed a retry by one call, or retried, so no overlap retries it twice. `GuardInv`: the
  guard's sequence is the end of the claims, which is what spacing needs. `SpokenInv`: a turn that began is still
  running, its delivery is under way, or something came of it: it was heard of, the bridge refused it, or a delivering
  tool of its own failed.
- `SelfConsoleProofs`: `PlaceInv` says that what is still queued was never polled and what a poll carries no other
  poll carries, and `FileInv` that the file agrees with the queue unless the last save failed. *Polled once* is not
  inductive without both: a restart reads the file. `QuietInv` says that nothing the console says goes out bare: each
  form of it carries the marker `isOwnReply` looks for, which is why what comes back is not answered.
- `ArchiveProofs`: `ArchiveInv` speaks of every table: every reference of every row resolves,
  and a row stands under the key its writer computes for it today. Each needs the other: a repair may fold one arc into
  another only because no two share a key, and a proposal may follow its arc only because the arc is of its chat.
  A repair merges the phantoms in some order: that it exists and leaves a sound archive is proved by induction on the set still to
  merge, one merge being a lemma over all tables at once (`MergeOneOK`). A prune is followed
  DELETE by DELETE: after each, what is left is part of what was and its references resolve (`PartOf`), and the messages may go
  because nothing left cites them (`CitesWhatStays`), under the exceptions `PruneCommits` names.
  That only what is owed goes is read off the same steps.
- `AgentProofs`: the passes, the game and the preferences of the agent. `TwinInv`: the twin cites archived messages only, and what a pass
  is about to save cites only what it was shown, which was archived then; so the store refuses a pass only for what a prune
  took meanwhile, with any number of passes under way. `ChatInv`: the archived chat
  shows one board at most, its first message, which is the game filed last. `CallInv`: every board a call holds, a post
  carries, the phone has or the archive was given is one the solved level does not lose (`SafeGames`), lost and cancelled
  posts or not. `AloneInv`: as long as no call is cancelled with its post under way, one call at a time is past the queue,
  and what it holds or has posted follows from the board filed last; hence the filed boards implement `GameRules`
  until such a cancellation. `SettingsInv`: a save that meets no other has the sibling to itself (`Own`), from its
  opening to its rename or its fallback; so what lands is what it read with its whole batch.
  `GameInv` is why the solved level never loses (`HardNeverLoses`, and `TheChatIsNeverLost` for the boards sent and filed): a game at that level is on a board that the best play does not lose (`Right`). The engine searches anew from
  each board with depth counted from there, so its scores differ from search to search; `SameSign` proves that their signs do
  not, by induction on the squares left, `BestKeep` that a greatest score is not negative when some score is not, and
  `OnlyTheMoverWins` that an answer completes no line of the other's.
- `SendsProofs`: `Sound` follows a request along its way, and ties what is told, filed and closed to what has gone. `NamedAt` speaks of the roster the request was resolved
  against, which no later step changes; that is why a renaming cannot redirect it. `NoteInv`: the chain holds the notes
  that are not over, each once, only its head is in flight, and what that one has sent ends what the notes wrote; so no note stands inside another.
- `ToolProofs`, the searches: ids are given once; a set and the session that opened it agree on the rows; the head
  is no further than the session has read; what a session that skipped nothing has read is a beginning of the rows
  (`Begun`), wherever it resumes. The last is what a page asked for again needs.
  The voice notes: for every text and limit, the requests of `chunkText` are the text (`TextSaid`). `Hand` says
  that the full requests lie along the text up to a place and the one in hand up to the next; each turn of the loop over a long sentence
  keeps it (`CutsKeepsHand`), and `TakesEnds` and `TakenEnds` lift it to a sentence and to the text. A turn moves on by
  a character at least, so as many turns as the sentence is long are enough. `VoiceInv` then carries the requests through retries.
- `Induction`: what the modules above induce with.

All assume only the named ASSUMEs of the modules (numbers are naturals, capacities positive, histories
sequences of records, names finitely many, the console is not itself a note, sentences as `chunkText` splits and trims them).
One of these is not about a constant: `DrawAssumption` says that from the empty board X keeps a draw, and O after any opening. It
is a closed formula, the same for every instance, and TLC evaluates it with the engine's own `minimax` before each run of
`MCAgent`; proving it would repeat that enumeration. What the theorem adds is that play never leaves what the
opening had, for every sequence of turns and games.

The library's induction theorems take an operator, which the provers cannot instantiate. `Induction` writes out what is needed from the
well-foundedness of < on the naturals: a nonempty set of naturals has a least element (`Least`), a *set* that holds 0 and is closed
under the next number holds all up to a bound (`Rises`), and a recursion whose step is given as a *function* has a
solution (`Iterates`). With the last, the recursive functions of the model (`Turns`, `Taken`, `UpTo`, `minimax`) are shown to be what their
definitions say, which a CHOOSE alone does not promise.

The attempt to prove also corrected the model: `chooseMove` and `chooseProvider` were CASE expressions with overlapping guards, where TLA+
leaves the choice of a branch open though TLC takes the first; they now test in the order of the code.

Only model-checked:

- every liveness property (`QueueDrains`, `GapReported`, `ForwardedArrives`, `PairedReceives`,
  `EveryNoteIsAnswered`): liveness under fairness is outside what the prover does;
- the findings.

## 6. What is abstracted

Message contents are model values; display names, prompts and wording are left
out (no prompt of this code carries a transcript, section 7). What words commit the user, and so what is asked for,
is the policy of `send-policy.ts`; `Sends` takes each answer as given. SQLite transactions are single steps; a file write lands whole or fails (a torn
`writeFileSync` is not modelled). Time appears as choice: a timeout may fire whenever its await is
open. A restart of the agent appears to the bridge (refused pushes, abandoned polls), to a search and to a
save, not inside `ConsoleChannel`. The model that answers a pass, a chosen square among equals and the words of a text
are inputs. whatsmeow and the eve runtime are external, modelled by what
the code and its comments rely on. Parts not modelled are listed in `PROJECT.json` with the reason.

## 7. Findings

Each has a run that TLC ends with a counterexample.

- `handoff_manual` — `POST /transport/drain` drains without `onMessage`, so self-chat messages
  in that batch are acknowledged and never answered (`whatsapp.js:119` against 354-355).
- `channel_pairing` — `lastPushed` is set after the awaited send: with two sends in flight a turn
  is bound to the other's request (`console.ts:299` against 296-298).
- `self_console_lost` — a long poll whose caller hung up takes the next message into a dead
  connection while the push is refused (`whatsapp.js:503` against 468-471).
- `archive_prune` — `prune` leaves an alias read out of an old message, a move on no arc under an
  emptied chat, and a pass, arc or context whose chat is not its message's. Each
  makes a DELETE fail and rolls back the prune, then and every later time
  (`store.js:2264`, 2270 against 2162-2164).
- `agent_window` — a modelling pass over a conversation longer than its limit reads the *oldest*
  messages, so the twin it saves is stale at once, however often it is repeated
  (`whatsapp_model_interaction.ts:103` against 86 and 97).

Also seen while modelling, without a run of their own:

- a queue reopened with a smaller capacity is over it until the next append (`outbox.go:126-127`
  says it never is); the append then trims and counts the whole backlog, which is proved;
- an entry evicted after it was fetched and stored is reported as never stored (`whatsapp.js:688`);
- no prompt carries a transcript: `composePrompt` (`console.ts:564-593`) never uses its `transcript`, though line 574 refers to
  "the transcript above" and a rotation is called safe because it "does not begin an amnesiac conversation" (`console.ts:90-92`);
- a turn in which a delivering tool was called is heard of, whatever the tool answered: `silenceAction` and its caller read
  names only (`silent-turn.ts:100`, `console.ts:449`), against "has already been heard from" (`silent-turn.ts:34-36`);
- a message chosen for one session and sent into its successor is not counted in `turns`
  (`console.ts:121`);
- a poll during a push, or a push accepted after its timeout, hands one message over twice
  (`server.js:657-659`, `whatsapp.js:568-570`);
- allowlist entries of the Go guard are canonicalised once, so a phone entry stops matching
  when its LID is learned; it refuses, the safe direction (`sendguard.go:105`);
- `sendViaTransport` answers `resolvedName: resolved.matchedName`, a field
  `resolveAllowedRecipient` does not return (`whatsapp.js:299`);
- a move's `basis` is JSON that no foreign key covers, so it keeps the keys of messages a prune
  deleted (`store.js:1939`);
- a dismissed move may come back open, against "It will not be suggested again" (`whatsapp_resolve_proposal.ts:53`): a prune
  takes every proposal of an arc it takes, whatever its status (`store.js:2234`); its key is made from the chat's name
  (`store.js:1950-1956`), so the address does not know what was dismissed under a name; and a repair that meets
  both keeps the survivor's status, open or not (`chat-repair.js:182-183`);
- no code merges the rows of a phone number once its LID is known, as `identity.go:79-81` says the archive should;
  `chat-repair.js` merges display names only;
- an arc that is continued keeps its first message even if the new pass cites an earlier one
  (`store.js:1760`);
- `messagesSince` counts in sent order, so an older message that arrives late never makes a twin stale
  (`twin.js:174-197`);
- a phone pairing rides on the connection of an open QR channel, which its codes' end disconnects (`session.go:359`);
- "still pending — call this tool again to play the next one" (`whatsapp_tictactoe.ts:298-299`, `tictactoe.ts:743-748`): the
  board just written comes after those moves, and `readGame` reads nothing before the newest board (`tictactoe.ts:781`);
  a move typed before a board but drained after it is ordered before it too;
- a board whose post is cancelled, or whose answer is lost, may be on the phone and not on file
  (`whatsapp.js:1235-1241`, and own sends do not come back, 1177-1181): the turn is called NOT played
  (`whatsapp_tictactoe.ts:271`) and the next call posts another board from the old one, on a phone that already shows one, against
  397. The text compared before a write, for moves only, is not atomic across processes;
- "everything the bridge sends to the self chat comes straight back" (`plugins.js:42-43`), but `whatsapp.js:1178-1187` found that it does not;
  if it did, the agent's own notes, which carry no marker, would be read as typed;
- the console answers outside `serial`, so its words may stand between a note's (`whatsapp.js:534-539`);
- media, renders and polls sent to others are not filed (`whatsapp.js:1181`); renders, edits and polls have no approval policy,
  and a voice note that commits to nothing goes unseen (`send-policy.ts:138`), against "no voice note goes
  out without the user having seen the words" (`whatsapp_send_voice.ts:25-26`);
- a send whose answer is lost, or whose filing fails after WhatsApp took it, raises the same `BridgeError` as a refused one
  (`bridge.ts:422`, 430) and is told as one: `sent: false` (`whatsapp_send_message.ts:86`), "Nothing was sent"
  (`whatsapp_deliver_render.ts:161`), "WhatsApp did not accept it" (`whatsapp_send_voice.ts:124`);
- two overlapping saves of preferences share one temporary file (`ui.ts:89`): the earlier's update may be lost, or the file may hold one
  setting of each, against "all or nothing" (`ui-settings.ts:399-402`); a reader may meet a truncated file (`env-file.ts:68`);
- a search's own `limit` cuts matches before the head is measured, so "N matches" may be fewer than there are; any `after` is taken
  (`result-set.ts:170`), so a caller may skip rows and be told "That is all of them", or "you have now read all" past the end
  (`whatsapp_search_page.ts:80`, 98), against "cannot silently skip" (`result-set.ts:151-152`); an earlier page asked for again is
  called a part after all was read; hits and coverage are read apart, so "the archive is empty" may be told beside hits;
- after a compaction the budget stays at the highest reading: `resetUsage` has no caller outside tests
  (`context-budget.ts:193-194`);
- the OpenAI path of `speech.ts` is not cut into pieces, although `MAX_SPEECH_CHARS` says anything longer is split.
