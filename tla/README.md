# AI Second Brain: specification and proofs

The repository is a personal knowledge base: a FastAPI backend (`backend/app`)
over PostgreSQL, a Qdrant vector store and a directory of originals, and a
Next.js front end (`frontend/src`). A user registers with a mailed code, uploads
documents into folders, waits until they are parsed and embedded, and asks
questions that are answered from the retrieved chunks with numbered citations.

This directory holds TLA+ modules translated from that code, the TLC
configurations that check them on small instances, and proofs, checked by TLAPS,
of the properties that hold for every value of the constants.

    tlc -workers 2 -config MCIngestion.cfg MCIngestion.tla
    tlapm IngestionProofs.tla

## 1. The system

| Component | State | Operations | Talks to |
|---|---|---|---|
| Upload, ingestion, deletion (`services/file_service.py`, `ingestion_service.py`, `folder_service.py`, `tasks/background.py`) | rows `files`, `tasks`, `file_chunks`; points in Qdrant; originals on disk | upload_direct, complete_multipart, ingest, delete_file, delete_folder | database, vector store, storage; workers run as `asyncio` tasks of the web process |
| Registration (`email_verification_service.py`, `auth_service.py`, `repositories/email_verification_codes.py`, `users.py`) | rows `email_verification_codes`, `users` | send_register_code, verify_register_code, register | database, SMTP |
| Folder tree (`folder_service.py`, `repositories/folders.py`, migration `alembic/versions/0001_init.py`) | rows `folders` with `path` and `parent_id`, `files.folder_id` | create_folder, delete_folder, upload into a folder, folder_tree | database; the file loop belongs to the first component |
| Question answering (`agent/*`, `services/citation_validator.py`, `rag/retriever.py`, `rag/reranker.py`) | the `AgentState` of one question | load_context, retrieve, generate, validate, emit | vector store, database, embedding, reranking and language model providers |
| Vector store (`rag/vector_store.py`) | a Qdrant collection; an in-memory fallback outside production | ensure_collection, upsert_chunks, search, delete_by_file | Qdrant |
| Multipart storage (`storage_service.py`) | a directory per upload with `meta.json`, numbered chunks, the original | init, save_chunk, complete, save_direct_upload, delete_file | disk, shared with ingestion |
| Chat turns (`chat_service.py`, `routers/v1/chat.py`, `repositories/messages.py`, `conversations.py`) | rows `conversations`, `messages` | run_sse, list, rename, delete | database, question answering |
| Chat page (`app/(shell)/chat/page.tsx`, `store/chat.ts`, `lib/api/client.ts`) | message list, current conversation, query cache, one stream | send, stop, switch, rename, delete | the chat endpoints |
| Files page (`app/(shell)/files/page.tsx`) | uploads, polled tasks, query cache | upload, poll, delete, change folders | the file endpoints |
| Markdown parsing and chunking (`deepdoc/parsers/markdown.py`, `ingestion_service.py`) | the local variables of two loops: index, heading stack, blocks; current path and blocks, chunks | _parse_blocks, _chunk_markdown_page | ingestion |
| Plain text windows (`ingestion_service.py`) | the local variables of two loops: page, text, start, windows | _clean_text, _chunk_text, the page loop of _iter_document_chunks | ingestion |

What is hard about it, and where each hazard bites, is the `hazards` list of
`PROJECT.json`. In short:

* Four stores are written one after the other. PostgreSQL has transactions and
  row locks; Qdrant, the disk and the event loop have none. A delete, an
  ingestion and a crash may meet between any two writes.
* Outside production, which is the default, a failed write to Qdrant is no error: points
  go to a dictionary of the process, a delete goes on.
* A request is one database transaction (`db/session.py`): it commits when the
  handler has returned and rolls back when it raised. Whatever the handler wrote
  before raising an `HTTPException` is undone with it; a response whose client has gone
  counts as returned, and what was flushed by then is committed.
* Limits (one code per minute, ten a day) are read first and written later, at
  READ COMMITTED, and a row's time is when its transaction began.
* A folder has a `path`, used to select, and a `parent_id`, used to cascade.
* The Markdown parser and its chunker are loops over an index with many branches,
  each of which must leave the index, the stack and the gathered blocks right for
  every other branch.
* Numbers in the prompt, in the answer and in the list of citations must agree,
  whatever the model writes and whatever of the retrieved chunks is still there.

What makes each component correct:

* *Files*: the row, the task, the chunks, the vectors and the original of a file
  tell the same story at every commit; a failed step leaves no half of a file; a
  delete leaves nothing; every upload ends `ready` or `failed` or is deleted.
* *Registration*: a code buys one account, one account per address; the number of
  codes stored, the attempts per code and the age of a code are limited.
* *Folders*: deleting one deletes its subtree and nothing else, files included.
* *Answers*: either the NOT_FOUND answer without citations, or every sentence cited,
  every number resolved, and no good answer thrown away.
* *Chunks*: every line of a text that is no title is in one chunk, a chunk lies
  in one section and carries its headings, and is too long only if it is one block of a kind that is
  never cut, or under headings that leave no room.
* *Retrieval*: what is cited was searched in the scope that was asked for, and the
  candidates are in the order that the searches gave them.
* *Vector store*: a call that returns has had its effect, whoever else calls at the time.
* *Multipart storage*: a listed file has an original of its own, of the announced size.
* *Chat*: an answer is kept with its question, a question without its answer only when its
  client has gone; what a client was told is kept, and shown in the conversation it belongs to.
* *Pages*: once nothing is under way, the page shows what the server has, as far as the page of
  a list that it asks for goes.

## 2. Modules

    FileLifecycle   <--implements--  Ingestion          <--EXTENDS--  IngestionProofs, MCIngestion
                                     EmailVerification  <--EXTENDS--  EmailVerificationProofs, MCTables
                                     FolderTree         <--EXTENDS--  FolderTreeProofs, MCTables
    AnswerFlow      <--implements--  Retrieval          <--EXTENDS--  RetrievalProofs, MCAnswer
    PointStore      <--implements--  VectorStore        <--EXTENDS--  RetrievalProofs, MCAnswer
    ChatHistory     <--implements--  ChatTurns          <--EXTENDS--  ChatTurnsProofs
    MarkdownBlocks  <--EXTENDS-----  MarkdownChunks
    MarkdownChunks, TextWindows  <--EXTENDS--  DocumentChunks  <--EXTENDS--  DocumentProofs, MCMarkdown
    FilesPage, MultipartUpload       <--EXTENDS--  FilesProofs, MCPages
    ChatPage                         <--EXTENDS--  ChatPageProofs, MCPages

`MC*` modules give the constants their small values; the `.cfg` of each run is
named in `PROJECT.json`, which also maps every definition to its source lines.

### Ingestion, FileLifecycle

`file`, `task` and `chunks` are the committed rows of a file; `points` and `stored`
are Qdrant and the disk, `memory` the dictionary of the process that takes points outside production
(`environment`, any of the two for good). `stage` is how far the coroutine that works on a file
has come (the upload request first, then `ingest`), `draft` the chunks that its
open transaction has flushed, `del` the state of each delete request with the row
locks it holds, `attempt` a history variable: which part of the file's life the
last delete met. One action per external effect: a statement that takes a row
lock and its commit are apart, a call to Qdrant may be applied and then reported
as failed, the process may stop at any time and loses every coroutine and
transaction.

Decisions worth knowing:

* A Qdrant request answered with an error has been applied by then or never will
  be. A request that is applied long after its timeout is not modelled.
* The vector store is one step per call, which may fail before or after its effect in Qdrant:
  `PointStore`, as `VectorStore` shows. In production the failure is raised. Outside, an upsert then writes to the
  dictionary and a delete has emptied it, and both return: the file becomes `ready`, the delete commits. A
  restart loses the dictionary (`memory` is then "lost").
* A worker that holds a FOR KEY SHARE lock on its parent row through its
  statement and its COMMIT is one step where nothing can come in between.
* `delete_folder` is a delete request over several files, in an order that the
  database chooses (its SELECT has no ORDER BY).

`FileLifecycle` is what a client is promised: a file appears `parsing`, becomes
`ready` or `failed` once, is deleted once, whole requests at a time. `Abstract` in
`Ingestion` maps to it.

### EmailVerification

For one address: its rows with their creation and expiry time, status and consumption, a clock, and
two kinds of requests, each with its own open transaction. Sending takes three instants: the transaction begins
with the first SELECT, and its `NOW()` becomes `created_at` (`begun`); Python's `now` comes later and is compared with
the last row and the count of the day (`checked`), and `expires_at` counts from it; the row is there at the
COMMIT, later still. So the row is older than the time it was checked at, and a serial second send may
pass within the interval. The two SELECTs after `now` are one step with it: rows are only added, so what appears in between
can only refuse the send. Registering
reads the newest row with the code, counts the attempt, then consumes the row and inserts the
account, and the uniqueness of the address decides at COMMIT. A refusal rolls
everything back, the attempt count included. Six digits that are drawn twice are
left out, as are addresses.

### FolderTree

Rows `folders` (path, parent) and the folder of each file. A create reads the parent's path
and inserts later; an upload checks the folder and inserts later; a delete reads folders by path
prefix, then their files, then deletes. The foreign keys are ON DELETE CASCADE between
folders and ON DELETE SET NULL from a file, as in `alembic/versions/0001_init.py`. The LIKE that selects by path takes
the path as a pattern; names with a character that means something there (`%`, `_`, a backslash) are left out.

### AnswerFlow

One question. A chunk has a content, an answer is a sequence of lines, a line a
sequence of sentences with the numbers each cites and whether the line ends in a
full stop: all that `citation_validator.py` looks at. Search hits, hydration,
selection, ranking by the provider (which may fail, omit or repeat), numbering,
generation, the repair, the extractive answer, and the final check are each an operator or
an action. `Search` is any sequence of distinct chunks. Neighbouring chunks
(`_attach_adjacent_context`) only lengthen a prompt and are left out.

### Retrieval

`Search` of `AnswerFlow` in detail: the files that a scope of the three types names (of a folder by
`path LIKE 'p%'`, in the constants `Within` and `Likewise`), one vector search per variant of the
question, one for the keywords, the reciprocal ranks of all lists added up per chunk, the cut to
`MaxFusion`, hydration. Which chunks a search finds, and in which order, is any choice: cosine and
BM25 scores decide it. The reciprocals are exact, as multiples of `1/Scale`.

### VectorStore, PointStore

A call of `upsert_chunks`, `search` or `delete_by_file` asks for the collection, creates it if that fails, then
sends its request. Each of these may fail, the last one with or without effect; outside production the
dictionary of the process then stands in, and it goes with a restart. The points of a file are one thing, vectors
and scores are left out. `PointStore` is what the callers rely on: see section 3 for how little that is
outside production.

### ChatTurns, ChatHistory

The chat endpoints over the rows of `conversations` and `messages`. A turn begins its transaction
when the user is looked up, inserts the question (a shared lock on the conversation, by its foreign key), updates the
conversation when the first query of the retrieval flushes it, asks the model with that lock
held, inserts the answer, commits, and then streams. A disconnect cancels it anywhere.
While the embedding, Qdrant, the reranker or the model is awaited, `StreamingResponse` swallows the cancellation and
`get_db_session` commits what was flushed, the question alone (`HangUp`); while the database is awaited the connection
breaks and all is rolled back (`Drop`); during the COMMIT both outcomes are possible. Renames and deletes are requests with
their own transaction. Who may post to a conversation, titles and texts are left out.

`ChatHistory` is the promise: whole turns, or the question of a client that went away, which stays alone for good;
told only when kept, lost only with their conversation.

### MarkdownBlocks, MarkdownChunks

What `ingest` does with a Markdown file. A text is a sequence of lines, a line the regular
expression of the parser it matches (`Kinds`): no branch asks for more. `MarkdownBlocks`
takes one turn of the loop of `_parse_blocks` per step. `Starts` is the order in which
its branches are tried, the inner loops are described by the line they end on, and `stack` is
the heading stack. `MarkdownChunks` then takes one turn of the loop of `_chunk_markdown_page`
per step: a title flushes and changes the path, a block is gathered, starts a new
chunk, stays whole or is split. `_best_markdown_split` is any cut in the second
half of the budget, which is where it looks for an end of line or sentence.

Lengths are numbers of lines that are not blank, titles included. A line of the model is never cut. The code
cuts inside one as well, at the end of the budget, when it finds no end of line or sentence in the second half
(`ingestion_service.py:169`): a long line then is several of the model's, which is how `NoTextLost` and
`OversizeIsOneBlock` are to be read. The separators between
parts and the trimming of a span within a line are left out, and so is what `_clean_markdown_text`
does to the inside of a line. Headings of level 4 to 6 behave as level 3. Fences, items
and titles stand at the start of their line (an indented one in the middle of a quote
goes on with the quote).

### TextWindows, DocumentChunks

What `ingest` does with the pages of any other document: `_clean_text` (at most one space, at most two
newlines in a row, no blanks at the ends), then windows that overlap, one turn of the loop per step.
A character is a space, a newline or one that shows. `DocumentChunks` is the branch between the two ways. A Markdown text
without blocks would go to the windows as well; there is none, since every line that shows is in a
block and a text that shows nothing does not pass the parser.

### MultipartUpload

The directory of an upload (`meta.json`, numbered parts, never cleaned up) and completions, as many as are asked for:
each assembles the parts into an original, then inserts its row, in a transaction that may fail; files and
folders are deleted. What happens on the disk between two awaits is one step, but for a crash, which leaves the
file that was being written short. A part may come again, late or shorter. A body is its size; names,
users and digests are left out.

### FilesPage, ChatPage

The handlers of the two pages, one action per call sent, answered or failed. Beneath them is the query
cache of TanStack Query, external, as far as the pages use it, one entry per folder or
conversation: an invalidation refetches an entry that is shown and has data, and
cancels the fetch under way; while the first fetch of an entry runs it waits for that one; of an entry that is
not shown it is only noted. A cancelled query function still runs to its end, and the one of the chat page calls
`setMessages` there. The list of a folder is its first page, newest first (`ListSize`, 100 in the code): `Files` are
numbers in the order of upload. The chat page includes the menu that deletes a conversation, and the address of the page, on which
that depends. The server is what `Ingestion` and `ChatTurns` say of it.

`lost` (in `ChatPage`: `wrong`) is a history variable, read by nothing: of which file (or conversation) the page has
been told the last it will be told, because a call failed, or because of one of the races listed at
`QuietPageIsTrue` and `QuietChatIsTrue`. It says what these do not claim, and the next fetch that arrives empties it again.

## 3. Runs

| Run | Question | Bounds |
|---|---|---|
| `ingestion` | Do the stores agree, and is it a FileLifecycle? | two files, two delete requests |
| `ingestion_live` | Does every upload and delete end? | the same, at most one upload under way |
| `residue` | "No searchable residue after a delete" (violated) | one file, one delete |
| `ready_local` | "A file without vectors is not ready" (violated) | one file, one delete |
| `tables` | One code, one account; what remains of the limits? Cascade and path agree; no file is cut loose by a delete alone | four codes, two sends and two registrations at a time, two codes a day of two ticks; three folders, one file, two deletes |
| `email_attempts` | "At most five attempts" (violated) | one code, limit 2 |
| `folder_twins` | "A delete takes the subtree" (violated) | two folders |
| `answer` | Cited, in scope, resolvable, in the order of the searches, not degraded without reason; is the search that of AnswerFlow, and the store a PointStore? | five chunks of four files, three candidates, two in the prompt, two hits per search; three calls of the store for one file |
| `chat` | No answer alone, no question alone but of a client that hung up, nothing told that is not kept, nobody waits for ever; is it a ChatHistory? | one conversation, two turns, a rename, two deletes |
| `markdown` | Is every line in one block, in one chunk, under its headings? Is every passage in one window? | chunks of 3 lines over `MCDocuments`; windows of 4 that overlap by 2 over `MCTexts` |
| `markdown_code` | "A code block is kept whole" (violated) | chunks of 3 lines |
| `pages` | Is a listed file whole; does a page at rest show what the server has? | uploads of one and two parts, two completions; two files of one folder, whose list holds one, and another page; a past conversation and a new one, pages of 3, two turns, or one turn and deletes of conversations |

Why these are enough. Two files and two requests are the smallest instance in
which two folder deletes lock rows in opposite orders, a folder delete succeeds on
one file and fails on another, and a delete meets another delete's leftovers;
a third file meets no action that relates three. Two senders are what it takes
to pass a check together; four rows and a limit of two in two ticks let the daily limit be exceeded by concurrency and
not exhausted, and three ticks let a send begin, check and commit at three instants. Three folders allow a chain (with a delete of its top against
one of its middle) and twins beside a child. Five chunks are one more than two
lists of two hits hold, and three candidates one less: hits are shared, cut, and missing. A
context of two leaves one candidate unnumbered; citations range over none, one, both and one beyond either end.
The folders are one with a subfolder, one whose path begins alike, and one that is gone; a file belongs to another user.
Three calls of the store are two that race for the collection and one that looks.
Conversations share nothing but their tables, and two turns with a rename and two deletes in one of them
take its row lock in every strength and order; the proofs cover any number. Of the pages, two turns overlap by
way of another conversation, a page of 3 is overflown by the second turn, the first of which may leave its question alone, two uploads meet in one loop,
and a folder left is a folder that another folder or page replaces. An upload of two parts has one short, missing or late;
two completions are what it takes to complete an upload twice.
A branch of the Markdown parser looks at its own line and the next, so texts of three lines
of every kind put each branch after and inside every other; longer texts of fewer
kinds (six lines of titles, text and blanks) fill, overflow and split chunks of three
lines under up to three headings, which is where a piece no longer fits either. The blocks and chunks of the
two Python functions, run on real text for each of these 18,418 documents, were the same as the model's.
Windows of four that overlap by two meet blanks at each of their edges, and a window may be all blank.

Three runs hold parts of the system that share no state (`scene` in `MCAnswer`, `MCPages` and `MCTables`): each behaviour is of one of
them, so that their state spaces add up and do not multiply.

Symmetry sets are used in runs without fairness; the refinements in `ingestion` and `answer` are
box formulas over mappings that are themselves symmetric. `MCTables` has a VIEW that
drops `tries`, which no action's guard and none of that run's properties reads, and numbers codes as they are inserted.
`MCIngestion` starts the liveness run from what finished ingestions leave, in production:
every interleaving of a worker with two deletes is still there, and outside production a failed call is one that returns.

Fairness (`Ingestion!Fairness`): weak fairness of each coroutine's steps, because the
event loop and the database run what is ready; strong fairness where a step
waits for a row lock, because PostgreSQL grants a lock to its waiters in turn
and breaks a deadlock by failing one of them. No fairness on crashes, failures or on a user's requests.
`EveryFileSettles` says what is then true: an upload whose worker is not lost to
a crash and whose last write is not refused by the database settles. A restart
does leave a file `parsing` for ever: nothing resumes it.

In `ChatTurns` the fairness is of the same kind: weak for what is not waiting, which includes the model's
answer (the call has a timeout), strong for the three steps that take a row lock, none for disconnects.
`EveryRequestEnds` would fail if the lock a turn holds and the lock it then wants excluded each other.

In `DocumentChunks` the loops run in one function: weak fairness of `DocNext` says that
nothing stops it.

The five violated runs are the findings in `PROJECT.json`: vectors that survive a delete, a file
that is `ready` without vectors outside production, attempts that are never counted, a delete that
takes the files of a folder of the same name, and a code fence that is taken for a title when its first line is `---`.

Other disagreements of the code with its documents were read, not run:

* A question and its answer are inserted in one transaction, `NOW()` gives them one `created_at`, and the list is
  ordered by nothing else (`messages.py:37`), while `docs/API.md:573-588` shows the question first.
* `docs/backend/docs-parse-and-chunk.md:223-224`, 280 and 327 ask that a table or a code block over the maximal size is
  split (by rows, with the header repeated; at functions, paragraphs or comments). `_split_markdown_block`
  returns both whole, whatever their size (`ingestion_service.py:225`). `OversizeIsOneBlock` says what the code does.
* `docs/backend/docs-parse-and-chunk.md:568` lets a document without a valid chunk fail. `ingest` asks only
  that the parser has found some text: a Markdown document of titles alone has no chunks and becomes `ready`.
* `docs/backend/docs-parse-and-chunk.md:466` asks that a delete takes the points of Qdrant with it. Outside production a delete
  during an outage leaves them, although a comment (`vector_store.py:152`) says that the cleanup of memory keeps both
  consistent.

What a passing property does not say:

* `ReadyKeepsItsPoints` speaks of files no delete has touched. A delete that fails
  after the vectors are gone leaves a ready file without vectors (a `hazards` entry). Outside production it only says that
  the points are in Qdrant, or were put into the dictionary, which a restart empties; no search looks into both.
* `LateDeleteIsClean` and `NoVectorResidue` are about Qdrant in production; outside, a delete during an outage leaves points.
* `CitationsResolve` excludes an answer over a document that the provider ranked twice:
  one object then carries two numbers and only the last resolves.
* `DegradedForAReason` counts the reasons the code has. An extractive quote that ends in
  a full stop or was cut, and a numbered list like `1. fact [1]`, are always degraded.
* A title is in no chunk as text, only in the paths of the chunks below it: a title with
  nothing under it is not searchable. `NoTextLost` speaks of all other lines.
* `repair_missing_citations` mends lines, not sentences, although its comment
  (`citation_validator.py:53`) speaks of both; `DegradedForAReason` states what it does.
* `StoredIsBounded` states the weaker limits that concurrency leaves: the configured number, per interval and per
  day, plus the requests in flight, of codes that were checked before the interval or day from another code's `created_at` was over. As
  `created_at` is the older instant, two sends one after the other may store codes within one interval, and that is not excluded. It is about
  stored codes. A mail whose COMMIT fails, or whose 502 rolls `mark_failed` back, leaves no row and counts nowhere.
* `UnansweredIsLeft` does not promise whole turns: a client that goes away while a provider is awaited leaves
  its question in the conversation, without an answer and for good.
* `ImplementsPointStore` promises little outside production. A delete during an outage of Qdrant returns while
  the points stay in Qdrant; points that an outage put into memory are
  overlooked once Qdrant is back. In production the first call of all may raise when another has just created the collection.
* `CitedIsInScope` is silent where the path of another folder begins like that of the one asked for: it has no slash at its
  end when it is compared, and the other's files are searched too.
* `OversizeIsOneBlock` lets tables, code, HTML and front matter be of any size, as the code does.
* `ListedIsWhole` says nothing of files that no row names: the parts of an upload and the original of a completion that failed
  stay on the disk.
* `PassagesSurvive` speaks of the cleaned text. Chunks carry offsets into that, not into the original page.
* `QuietPageIsTrue` speaks of the page of the newest files: in a folder of more than 100, an older file may be missing. A failed verdict ends the polling without a refetch, so the list goes on to say
  `parsing` (`docs/fronted/UI_REFERENCE_FOR_AI.md:205` asks for a red icon and a retry). One poll that fails, or a reload of the page, ends the
  polling of a task for good.
* `QuietChatIsTrue`: the list of messages belongs to no conversation. Switching to one whose cached data is
  fresh goes on showing the messages of the other until something is fetched; an answer that ends after a switch is appended to what is
  then shown; `onDone` runs twice, and shows the answer twice until the list is fetched again. After a delete the page is left only
  if the conversation is the one in the address: one created on the page, and not chosen since, stays on screen (`LeftNav.tsx:228`).

## 4. Proofs

Each `*Proofs` module has the type invariant or a named lemma first, then one
step per action. The constants are arbitrary; what is assumed of them is the
named ASSUME of the module that declares them.

* `IngestionProofs`. The four safety properties are not inductive. `IInv` adds
  `StageTellsRow` (where the coroutine is fixes what its rows can be), `LockExclusion`
  (two transactions do not hold one row), `RequestTellsRow` and `WorkerTellsStores`
  (what a request or a worker between two calls has already done). From it follow
  `TaskTellsFile`, `NoChunkWithoutFile`, `OriginalOnDisk`, `ReadyKeepsItsPoints`,
  `LateDeleteIsClean`, in both environments, and the refinement `Spec => Abstract!Spec`, step by step.
* `EmailVerificationProofs`. `OneCodeBuysOneAccount` with `TxTellsStage`, `OneInsert` and
  `AccountsAreFinal`: an open transaction that has inserted the account excludes every other.
  `LimitsInv` counts, for each span of time, its rows and the requests that were checked in it and have not inserted
  yet: a check that passes saw no row (or fewer than the limit), so the rest was in flight, and an insert moves one of the load to the
  other. A code is then placed by its check (`expires` less `Expire`), which is not earlier than its `created`. It gives `StoredIsBounded` for every limit, given finitely many senders (`SendersAssumption`).
* `FolderTreeProofs`. `PathExtendsParent` (a child's path is its parent's and one segment more),
  `ForeignKeys`, `SelectionIsComplete` (a delete that has read its folders has read every
  row that can cascade, but for those made since) give `CascadeStaysUnderPath` and `OnlyOverlappedFilesDetach`.
* `RetrievalProofs`, for every model, provider, search result, number of chunks and limit. `Numbered` and `Resolved` (the
  numbers of chunks, prompt and citations agree) and `Limited` carry `CitationsResolve`, `AnswerIsCited` and
  `DegradedForAReason` through the validator; a chunk that is ranked more than once has a last place, by well-foundedness.
  `StaysInScope` follows a chunk from the scope to its citation. Fusion and cut give distinct chunks, whence
  `RetrievalSpec => Spec`, and all that holds of `AnswerFlow` holds with this search.
  `BetterPlacedComesFirst` needs what the sum of 1/(60 + rank) does, and nothing of its value. `SumsExist` and `TotalIsASum`: the
  recursion that defines `Total` has a solution. `MoreInTotal`: a list of shares none of which is smaller, and one is larger, has the larger total
  (each by a least counterexample, as there is no induction here). `ShareFalls`: a later place
  has a smaller share, which holds in whole numbers because every 60 + rank divides `Scale` (`RanksAssumption`).
  `OrderInv` then has the order kept from the lists to the fused and cut candidates.
* `ChatTurnsProofs`. `IInv` ties the rows to the stages: `TransactionTellsStage`, `MessagesAreKept`,
  `KeptHasBoth`, `ToldIsEnded`; `ConversationIsHeld` and `DeleteIsAlone` say what the row locks are for,
  `LoadedIsOwn` that a delete takes no other conversation's messages. From it follow `UnansweredIsLeft`,
  `ToldIsKept`, `NothingOutlivesItsConversation` and the refinement `Spec => History!HistorySpec`.
* `DocumentProofs`, for every set of texts and every size. `ParserInv`: the blocks cover what lies before
  the index, in order, and a block that is no title has the path of the block before it
  (`AddBlockKeeps`, once for all branches). `ChunkInv`: `Good` says of chunks, gathered blocks and
  path that they hold all text before `Frontier`, in order and without a title. Each step of the
  chunker is a composition of three lemmas: `FlushGood`, `ExtendGood` (of a block or a piece of
  one) and `SkipGood` (of a title). From it follow `TypeOK`, `EveryLineInOneBlock`,
  `ChunksStayInSection` and `NoTextLost`. Of the windows, for every document, size and overlap:
  `PassagesSurvive`, from `EarlierPagesLaid`, `ThisPageLaid` (what is behind the start of the next
  window is in one), `WindowsInOrder` and `Behind`. `OverlapIsShorter` is why the loop advances.
  `ChainInv` says that the stack holds the titles still open over the last block, outermost first: `PathIsHeadingChain`.
  `SizesInv` says of each chunk, and of what is gathered, why it may be too long: `OversizeIsOneBlock`.
  `DocumentIsChunked` takes all seven over to `DocSpec`, the two specifications with the choice between them.
  `LoopsAdvance` is the variant behind `Finishes`: each step moves an index on that has a bound, and no outer index back.
* `RetrievalProofs` also has the vector store, for any files and calls: `CallsInv` (the dictionary is used outside production
  alone, and a call that was answered was applied) gives the refinement `VectorSpec => ImplementsPointStore`, action by action.
* `FilesProofs`. For any uploads, sizes and completions `OwnPath` (a path is its completion's alone) and `SavedIsWhole`
  (what is saved, not only what is listed, was found whole) give `ListedIsWhole`. For any files, folders and number of polls
  `PageInv` says of each file that the page can still learn about that the list is right (`Coming`: the one shown, the one on
  its way, or the one that a visit will fetch), or that something is under way that will have it fetched (`Expected`).
  `InvalidationBrings` and `InvalidationHarmless` say what one invalidation does to the fetches before it. A file with as many newer
  ones as the list holds stays one (`MayBeLeftOut`). It gives `QuietPageIsTrue`.
* `ChatPageProofs`, for any conversations, turns and size of a page, under `ChatAssumption`. `ChatInv` says the same of each conversation (`Foreseen`), and of the one list of messages that it is
  right, or that a fetch or an `onDone` is still to come (`OnScreen`). It gives `QuietChatIsTrue`.

Only model-checked: liveness under fairness (`EveryFileSettles`, `EveryDeleteReturns`, `EveryRequestEnds`, `Finishes`), as TLAPS
proves neither fairness nor ENABLED. What can be said of it without these is a theorem: `LoopsAdvance`. The five
violated properties are counterexamples of TLC, and nothing to prove. Every other property of a run is
stated by a theorem.

## 5. Plan

Done, in this order:

1. `Ingestion` with `FileLifecycle`: the four stores of a file.
2. `EmailVerification`: limits and one account, under concurrency and rollback.
3. `FolderTree`: path against parent_id.
4. `AnswerFlow`: citations end to end.
5. `ChatTurns` with `ChatHistory`: the one transaction of a turn, disconnects, deletes.
6. `MarkdownBlocks` and `MarkdownChunks`: from a text to its chunks.
7. `ChatPage` and `FilesPage`: what a page at rest shows.
8. `MultipartUpload`: parts, repeated and concurrent completes.
9. `Retrieval`: scope, searches, fusion, selection.
10. `VectorStore` with `PointStore`.
11. `TextWindows` and `DocumentChunks`.

12. Proofs of every invariant, action property and refinement that the runs check.

Left: variants of the three server-side loops that must end (ingestion, delete, turn), as `LoopsAdvance` has them for documents.

Not modelled, and why:

* The parsers of documents: third-party readers; ingestion models what comes out of them (chunks, none, an error).
* Login, tokens, settings, logging: no state, or configuration. The evaluation scripts: offline, over fixed data.
* In the browser: renaming a conversation, and the list of conversations as such; creating and deleting folders (a delete also
  selects the root); the files store's copy of the list, shown before the first data has arrived and never after; layout and forms.
* What embeddings, BM25 and the language model compute: any result is allowed.
