# TLA+ models of the sourcing agent

This directory specifies `ai_worker` in TLA+, its backend and the pages of its web
client that follow the backend's work, checks the specifications with TLC and
proves most of their invariants with TLAPS. All paths of the form `file.py:line`
are relative to `src/backend/app/` unless they begin with another directory; every
other path is relative to `src/`.

The program takes a query for a product, lets background tasks search for
products and their suppliers, writes to suppliers by e-mail or Telegram, reads
their replies from a Gmail mailbox, answers them, and drafts contracts. What makes
it hard is not the single step but that each step is a chain of small
transactions with calls to the outside between them, run by up to two processes
that share nothing but the database.

## 1. Inventory

### Processes

* **API process** (`main.py`, FastAPI). Endpoints run in a thread pool, so any
  number run at once. With `AUTO_PROCESS_*_TASKS=true`, as `.env.example` sets it,
  an endpoint that creates a task also handles it in a background job of this
  process. A background loop syncs Gmail (`workers.py:777`).
* **Worker process** (`worker.py`). A loop reads at most `max_tasks` queued tasks
  per tick and handles them one by one. `docker-compose.yml` starts both processes.
* **Database** (`postgres_repository.py`). Each repository call opens a session,
  reads or writes one row, commits and closes. `_upsert` overwrites the whole row
  from the caller's copy and compares it with nothing.
* **Outside**: model providers, search engines, a browser driven through MCP,
  Made-in-China, SMTP, IMAP, Telegram.

### Components

| Component | State it keeps | Operations | Hard behaviour | What makes it correct |
|---|---|---|---|---|
| Domain records (`domain.py`) | statuses of requests, tasks, attempts, messages, drafts; products, contacts | `create`, `transition_to`, `has_active` | the machines are tested on copies, not on rows | what a client sees of a row follows its machine |
| Task queue (`main.py`, `worker.py`, `workers.py`) | task and entity rows; the copies of each processor; the snapshot of a tick | endpoint adds task, then entity; tick, snapshot, load, claim, finish, fail | two writers of one row; crash between writes; an exception that ends the loop | rows agree; work begun once; nothing queued is forgotten |
| Supplier contact (`workers.py:469`, `main.py:283`) | attempts, conversation messages, what suppliers got | admit, compose, send, record | sending is outside every transaction; connectors that report a failure after delivery | one message per attempt; success has a message behind it |
| Product search (`workers.py:71`) | products of a request, supplier count | ask sources, validate, deduplicate, insert, demo product, count | reads a snapshot, inserts one by one | no second card of a supplier's site, within the limit, right count |
| Internet research (`connectors.py:1189`, `1262`, `1466`) | what was found, selected, visited | queries, search, select, visit, enrich | every call may raise; some answers raise outside the `try` meant for them | only what was found is visited; no failed page is lost; stops when it has enough |
| Search providers and router (`search_providers.py`) | none | ask providers in order, normalise, evaluate fit | a provider that raises; one that succeeds with filters only | the first products found are the user's; every requirement is accounted for |
| Gmail sync and automatic reply (`workers.py:646`–`890`) | mailbox window, external ids, lock, reply attempts | fetch, match, store, reply, close | loop against endpoint; restart; a mail that always raises | each mail stored and answered once, none lost while it is in the window |
| Manual inbound message (`main.py`) | conversation messages | insert, analyse | changes of copies that are not saved | message kept |
| Product assistant chat (`main.py:402`) | the chat list inside the product row | read, wait for the model, write the product | lost update of the whole row; a load of the page in between | an answered turn is lost only to a turn that read before it |
| Agent (`agent.py`) | none | prompts, fallbacks, policies | model output is arbitrary; fallbacks quote text nobody controls | what is written is permitted and in the language asked for |
| Sourcing context and scoring (`sourcing.py`, `main.py:541`–`1070`) | none | scores of suppliers, comparison of prices, fit, duplicate groups | missing, zero and foreign prices; rounding | comparisons agree with the prices; news costs points only by the judgement of a reply |
| Reliability helpers (`reliability.py`) | none | retry policy, timeout recovery | called by nothing | — |
| Made-in-China discovery (`connectors.py:553`–`990`) | none | fetch a result page, parse it, visit products, fill in | page parsers that count tags; a captcha; limits that are no numbers | discovery only fills in what is missing; fields keep their texts |
| Connectors for mail and Telegram (`connectors.py:1609`–`1790`) | none | send, fetch | error after acceptance | report of a send is what happened |
| Persistence (`postgres_repository.py`, `repositories.py`) | tables | upsert, list, unique keys | last write wins | rows are the records written |
| Model providers, configuration, observability, broker | none | calls, reads of the environment | — | — |
| Web client (`frontend/src`) | page state: product, chat, catalogue, spinner, error | loads, polls, user actions | answers out of order; two requests per load; a failed load | what is shown together belongs together; what is under way comes to show its end |

Interactions: endpoints and worker meet only in the tables `agent_tasks` and the
entities' tables; product search inserts the products that supplier contact and
Gmail sync later read; supplier contact and Gmail sync both open contact attempts
on a product and test, or do not test, `has_active`; the research pipeline, the
provider router and Made-in-China discovery are the sources of a product search;
the agent's texts pass through supplier contact and the mail sync; the web client
reads, in several requests, the rows that the worker writes in several transactions.

`PROJECT.json` lists the hazards of the code at their lines, with the property
that would catch each going wrong or the reason why none does yet.

## 2. Modules

```
Domain        status machines (sets of moves), shared by all
Lifecycle     abstract: rows that are created and follow a table of moves
AgentTasks    the queue: API, worker, background jobs, rows and copies
 |-- SupplierContact   the work of a contact task, and the two endpoints
 `-- ProductSearch     the work of a search task
GmailSync              the inbound sync and the automatic reply
InternetResearch       one call of the browser source of a product search
Algorithms             the pure parts, each called once
 |-- MadeInChinaPages  the two page parsers, on streams of tags
 |-- MadeInChina       discovery and enrichment over parsed pages
 |-- SearchProviders   providers, router, fit of a product
 |-- Scoring           contacts, suppliers' metrics, comparison of prices
 `-- AgentPolicies     what the agent makes of a model's answers
WebClient              the client: one of three pages is mounted
 |-- ProductPage       attempts and messages of a product, loads and polls
 |-- ProductChat       the operator's chat in the product's row
 `-- CatalogPage       the products of a request
Lists         a list's elements that pass a test, shared by all
AgentTasks_proofs, SupplierContact_proofs, ProductSearch_proofs,
GmailSync_proofs, InternetResearch_proofs, Algorithms_proofs,
WebClient_proofs       theorems, one module for each of the above
Lists_proofs  induction over the naturals and over lists, for the other proofs
MC*                    values of the constants for TLC
```

**Domain** holds each `transition_to` as a set of pairs. **Lifecycle** is the
abstract specification of a status column: a row is created `queued`, each commit
takes it along one move of its table, and a row whose work is refused goes from
`queued` to `failed` in one commit. `AgentTasks` implements it twice, once for
each of its two tables (`TaskRows == INSTANCE Lifecycle WITH ...`).

**AgentTasks**. `task[t]`, `entity[t]` are the status columns of a task's row and
of the row it is about, `"absent"` before the insert. `api[t]` is how far the
endpoint has come: the task is committed before the entity. A *processor* is a
worker or, with `AutoProcess`, the background job named by its task; both run
the same `process_*` function, so there is one protocol over `pc[p]`. `taskCopy[p]`
and `entityCopy[p]` are the objects in the processor's memory. One action is one
transaction: `LoadTask`, `LoadEntity`, then the pair of writes of a start
(`SaveTask`, `BeginWork`), of an end or of the exception handler (`SaveTask`,
`EndTask`), in the order of the code; the moves of the copies belong to the step
before the write. Between `BeginWork` and `WorkSucceeds` or `WorkFails` the function does its own work, which
is left open here and filled in by the modules that extend this one; that of a
contract draft (`process_contract_draft`) has nothing more that is durable.
`TryFault` is a write that raises inside the `try`; `Crash` is a kill, or a transaction that raises
outside it: the exception leaves the function and ends the worker loop
(`worker.py:66`). `Restart` is a new worker process.
`runs` and `faults` are history variables, `faults` also bounds failures.

**SupplierContact** extends it: `Admit` is the `has_active` test of the endpoints,
a step before the writes; `step[p]` is the place in the work. `sends[t]` counts
what reached the supplier, which no code can see: a connector may report a
failure after delivery, so `SendFails` has both outcomes. `sentRows` and
`failedRows` count conversation messages.

**ProductSearch** extends it: a product is its URL, its supplier, the platform it
was found on and whether it passes validation. `KeyOf` is `_supplier_dedupe_key`: a supplier
with a site is told by its domain, a company of Made-in-China by the URL of the product, so that
it may have several. The sources answer, the catalogue is read
(`Snapshot`), and each offer is skipped or inserted. The table's unique key on
request and URL is in `Inserts`; running into it is `AddClashes`.

**GmailSync**: `at[s]` is the place of a caller in
`sync_gmail_inbound_messages`, with the non-blocking lock, the window of the
newest `Limit` mails, the set of external ids read once per call, and the
automatic reply with its attempt. `epoch` counts process starts, because the
fallback id is a hash seeded per process. `InReach` says of a mail that fewer mails than the
window holds came after it and none of them is one on which the batch breaks off.

**InternetResearch** is sequential; its nondeterminism is the outside: engines,
the model that picks links, and pages. Places where an exception escapes the
`try` meant for it are kept as such: a malformed URL among an engine's results
(`SearchRaises`), a `null` instead of a list from the model (`QueriesRaise`,
`SelectRaises`), a product URL that cannot be parsed (`TestFails`,
`EnrichRaises`). `harvest[i]` is what the visit of `links[i]` left, so that
properties can speak of single visits; the code keeps the concatenation.

**Algorithms** is the frame of the pure parts: a behaviour picks one call and
takes its answer, and the properties compare answers with definitions that do not
follow the code. The parts themselves are operators without state.
`MadeInChinaPages` feeds the code's two `HTMLParser` subclasses the starts, texts and ends
of a page's tags one after the other (`Feed`): what they keep of the elements around them is
depths, which is where an element without an end (`br`, `img`) matters.
`MadeInChina` takes parsed pages and says which are visited, what is filled in and how
many products are returned. `SearchProviders` has the public and the
Made-in-China provider, the router's order, and `ProductFitEvaluator`.
`Scoring` has integers for prices; a rounded percentage is a member of
`Roundings`, a set of one or two values, so that no property depends on how
`Decimal` and binary fractions break ties. In `AgentPolicies` a text is the set
of marks that the code's word lists and patterns look for; the two attempts at a
model's answer, the fallbacks and the last checks are the code's.
The texts the code writes as `""` have names (`NoText`, `NoTerm`, `Blank`, `NoCurrency`).

**WebClient** mounts one page (`App.tsx:21`; every link is a new document).
`ProductPage` has the server's side as far as a client can tell: attempts and
messages in the order in which `SupplierContact` writes them with one processor.
A load is a small process of its own (`load[l].phase`): the handler reads the attempts,
then the messages, the page takes both, then asks for the contracts; any of it may fail.
`ProductChat` is `product_assistant_chat` against a second tab and against loads:
read the row, wait, write the row, keep the last turns. `CatalogPage` has two requests
per load, answered independently, and a search with as many processors as the deployment
has: each loads the request once, stores products, and writes the status from its own copy, so that
one may store products for a request that another has completed. What a load of the product's page brings of attempts and
of the chat are two independent projections of one answer, so the two modules are not multiplied
with each other.

## 3. Runs

| Run | Expect | Question |
|---|---|---|
| `contact_worker` | pass | One worker, two attempts, failures and crashes anywhere: lifecycles, agreement of rows, work and message once, the queue worked off, and the inductive invariant of the proofs |
| `contact_deployed` | pass | Worker and background job at one attempt: what holds when they overwrite each other: success is backed, no run sends twice, deliveries are recorded, work settles for good |
| `search` | pass | Worker and background job at one search, every mix of answers: what a single run promises (one product per supplier's site, the demo product alone, the right count) and what survives stale snapshots (something to show, the limit per run) |
| `gmail_sync` | pass | Loop and endpoint, failures, a restart: stored and answered once, no reply without a row, no mail in reach lost |
| `research` | pass | Engines, model and pages that fail, invent and repeat |
| `algorithms` | pass | Every pure part on every small input |
| `web_client` | pass | Loads, polls and actions out of order: what is shown together belongs together, and what is under way comes to show its end |
| `double_send` | violation | Two messages for one attempt, no failure needed |
| `stuck_running` | violation | A crash leaves a task running for ever |
| `two_active` | violation | Two active attempts on one product |
| `orphan_attempt` | violation | An attempt that stays queued, its task failed |
| `gmail_twice` | violation | A mail stored twice across a restart |

Every property of a passing run has a mutant in `PROJECT.json`: a definition of
the module replaced by an operator marked `Mutant:` just before it, changed
the way a bug in that code would change it. TLC finds the property violated
under each. `contact_worker` also answers for the bare queue: the invariants and
lifecycles it checks are those of `AgentTasks`.

### Bounds, and why they are enough

* `Tasks`: two where tasks can disturb each other (one batch, one product), one
  where only processors of the same task do. Rows of different tasks share no
  state beyond the batch, the admission test and the worker's loop.
* `Workers`: one, the deployment of `docker-compose.yml`; the second processor of
  the deployed runs is the background job. `TickLimit` 2 puts both tasks in one
  snapshot; either may also come in a tick of its own, when it is queued later.
* `MaxFaults`: 3 with one worker lets a failure hit the handler of a failure and
  the worker that was restarted; 2 in `contact_deployed` and `search`; the mail run has 1.
  The violations of concurrency need none and have 0.
* Offers: two products of one site, one found twice, one of another site, two of one
  Made-in-China company, one invalid, empty lists and raising sources; `MaxResults` 2, so the
  limit falls inside the lists.
* Mails: one that matches two contacts, one that matches one, one without text, one of a stranger,
  a window of 2: of three readable mails the oldest falls out of it, and a stranger's mail
  takes a place in it.
* Research: two queries to two engines; three URLs allowed, one not, one that
  cannot be parsed; the model repeats, invents, or fails; up to three results
  wanted with default limits of 2, so `max_results` is below and above them.
* Algorithms: up to three cards, with a plain or a titled link to their supplier, and four blocks of every kind in every order, so
  that an element without an end is followed by whole ones, and up to three blocks of one
  name, so that an image or an item comes again; up to three search
  results with and without details, with limits missing, 0, below and above what is there;
  all catalogues of three products over five prices and three currencies; every set of
  attempts' statuses, with and without a score that the last reply was given; every pair of model answers over the texts the policies tell apart; contract
  conversations of 0, 1, 8, 9 and 10 messages (8 are quoted); up to two providers.
* Web client: two loads under way together, which is enough for answers in the
  wrong order; two processors of one search that stores one product; one attempt, one message of the supplier, one failure; three turns for
  a row that keeps two.

### Fairness

Runs with a liveness property use the fair specification, the others `Spec`.
`Fairness` of `SupplierContact` and `TasksFairness`: an endpoint that wrote its task
goes on to the entity; a worker goes on (`worker.py:64`, a loop without a bound on its
ticks), and one that ended is started
again, as TC-E2E-038 and TC-E2E-039 of `test_protocol.md` do; work ends, since model,
mail and Telegram calls have timeouts. Crashes and failures are never fair. `GmailSync`: the loop
ticks for ever and whoever is inside goes on; the endpoint need not be called.
`InternetResearch`: calls return. This is not true of `McpStdioClient`
(`connectors.py:352`, a `readline` without timeout), so `Hang` exists for that client and
`ResearchEnds` is claimed for the HTTP client only. `WebClient`: the processors work (one of a
contact attempt, each of a search; none is killed: what a kill does to a row is `stuck_running`), requests
are answered or fail, and the timers of the pages fire while their condition holds; users need not act.

Deadlock checking is off in `research`, which ends; in `algorithms`, where a call
is made once; and in `web_client`, whose pages stop polling when all is settled.
In every other module a worker or a mail loop can always tick.

## 4. Findings

Each is a run TLC ends with a counterexample, quoted in `PROJECT.json`.

* `double_send`: with auto-processing and a worker, both load the queued task and
  both send (`workers.py:482`). `test_protocol.md:1881` forbids two e-mails for
  one attempt. The state machines do not help: they are tested on copies.
* `stuck_running`: nothing ever selects a running row (`postgres_repository.py:218`)
  and `recover_timed_out_work` is called by nothing; `test_protocol.md:1883`.
* `two_active`: `has_active` is tested before the write, without a lock
  (`main.py:292`); `Main.md:1964`.
* `orphan_attempt`: the task is visible before its attempt (`main.py:322`). The
  worker fails the task, the attempt stays queued and blocks the product.
* `gmail_twice`: `connectors.py:1936` uses `hash(raw)`; the spec of the sync
  promises that no message is stored twice.

### What else the models show

These have no run of their own. Some are disagreements with a specification; the properties are stated so that they say exactly
what is left, and the hazards name the lines.

* Research: one query whose engines give nothing, one of them raising, drops
  the results of all earlier queries (`SearchFails`, `connectors.py:1528`); the model may select
  a URL twice, which is then opened twice (`Selected`, `connectors.py:1572`).
* Catalogue page: the request and its products are read by two requests
  (`RequestCatalogPage.tsx:29`). The page can take `completed` over an older list, and then stops
  polling with cards missing, where
  `openspec/changes/improve-live-updates-gmail-and-supplier-messaging/specs/live-ui-refresh/spec.md:22`
  has it refresh and show them. A second processor that loaded the request before the
  first completed it stores more products for it (`workers.py:185`, `:202`), so that even a load sent after
  the completion can miss some. What holds is `CatalogueShortOnlyIfEarly`: a load sent when
  nobody can store any more brings all.
* Made-in-China: a company is told by the URL of the product (`workers.py:405`), so that it may have
  several cards, and a test keeps two (`tests/test_product_search_worker_contract.py:328`);
  `openspec/changes/fix-supplier-dedupe-and-contact-flow/specs/product-catalog/spec.md:5` forbids several cards of
  one supplier's site. `suppliersCount` counts such products, not companies. `OneProductPerSite` speaks of
  suppliers with sites of their own.
* Demo product: it is put in only where nothing was added (`workers.py:187`; lines 119, 162 and 226 of
  `tests/test_product_search_worker_contract.py` expect this), and `DemoStandsAlone` says so;
  `openspec/changes/add-demo-supplier-product-card/specs/demo-supplier-product-card/spec.md:5` demands it of every
  completed search, beside real products and at the limit too (lines 9 to 20). Code and specification disagree.
* Mail: a tick reads the newest mails of the whole mailbox, those it has handled and those
  of strangers included (`connectors.py:1678`); what falls out of this window before a tick is never
  read. A mail without text raises (`workers.py:710`), the older mails of the batch are dropped,
  and as it was not stored it does so in every tick. Both lose replies that
  `openspec/changes/add-gmail-inbound-sync/specs/gmail-inbound-sync/spec.md:5` has stored;
  `MailsInReachAreStored` says which mails are safe.
* Replies: price, terms and communication score are put on a copy of the product
  (`workers.py:736`) that neither the endpoint nor the sync saves, where
  `openspec/changes/improve-ai-supplier-contact-workflow/specs/supplier-contact-intelligence/spec.md:31` has
  them saved. The tests that say so (`tests/test_gmail_inbound_sync_contract.py:159`,
  `tests/test_api_contract.py:679`) use the in-memory repository, which hands out the object itself.
* Rating: the analysed communication score takes the place of the one counted from messages
  (`main.py:866`) and may be below it: an analysed reply can lower the rating, and the
  heuristic's 35 points (`agent.py:911`) are below the 40 of a supplier who never answered. As the
  analysis is not saved no such score reaches the row in a deployment with a database, which only
  counts messages; the model has both.
* What a failure loses and no property promises: a message sent and not recorded when the process
  dies in between (`workers.py:525`); the other contacts of a mail whose sync was cut
  (`workers.py:722`); an attempt of an automatic reply that a failure leaves active (`workers.py:846`).
* Product page: an older load that answers late can hide a new attempt, and the
  polling with it; any failed request of a load, the list of contracts included, hides the
  product; every load overwrites the shown chat, a question under way included.
* Contract drafts: the fallback quotes the last messages and is then validated
  like a model's text (`agent.py:1183`), so that a supplier's prohibited words fail the draft
  although `fix-message-language-contract-download-duplicates/specs/contracts/spec.md:14`
  promises a fallback. The exceptions in `AgentTextIsPermitted` are these.
* Supplier messages: a forbidden phrase in the product's title refuses every text, the
  fallback's too, as the title is part of it. "not available" and "out of stock" contain words
  that are read as available (`agent.py:889`). An infinite score of the model's analysis
  raises (`agent.py:940`). A model that raises at the assistant's second question costs the
  operator a 500 instead of the 502 of the first.
* Providers: a labelled link that cannot be parsed raises outside the `try` of the
  fetch and ends the router; a provider that is successful for its filters only does not end it, and
  its filters are lost.
* Made-in-China: the address in a query is parsed outside the `try`.
* Comparison: a price of 0 is shown with a difference of −100 %.

What the deployed runs show to survive is as informative: even with two
processors a success is backed by a recorded message, no single run sends twice, and without
failures every row settles for good, although it may go back to `running` on
the way; two searches at once never exceed the limit per run and never leave a
completed request empty. An attempt the product's page shows as sent has its message beside
it, but only because the handler reads the attempts first.

## 5. Proofs

TLAPS checks every obligation with its SMT, Zenon and PTL backends. The theorems
hold for any sets of tasks, workers, products, mails, turns and loads, for lists of any length
and any bound on failures; the assumptions used are the `ASSUME`s of the modules, which TLC
evaluates in the runs. Beside types of parameters they say:

* `SearchAssumption`: no source offers the demo product; its URL and key are made from the
  request's own id, which no source is given (`workers.py:403`, `:432`). `MaxResults` is 1 to
  50, as both endpoints demand.
* `DiscoveriesAssumption`: no attribute parsed from a card is called `priceSource`; the parser
  gives them names of its own (`connectors.py:918`). The limits are any integers: the
  environment is not validated.
* `ConversationsAssumption`: a new contact has no negative confidence, and the values of contacts
  are numbered in the order that sorts them; an analysed score is that of a reply.
* `WritingsAssumption`, `DraftsAssumption`: a product's id and URL are not themselves marks that
  the word lists look for; the title may carry any of them.
* `ResearchAssumption`: at most ten queries, because `_b2b_supplier_query_variants` always gives ten.
* `ChatAssumption`: the chat keeps at least one turn, and a question that was not sent is no turn.
* `SearchesAssumption`, `FitsAssumption`, `CataloguesAssumption`: what the code iterates over is
  a list, and a price is a number or missing.

Whatever a definition computes over a list is proved for lists of every length by induction, but the
library states induction for an operator, which these provers cannot be given. `Lists_proofs`
derives it for a *set* of naturals from the well-foundedness of inclusion on finite sets, derives from it
that recursion over the naturals has a function, and with both proves what the other modules
cite: what `Among`, `FlattenSeq` and `ToSet` give, and how often an element occurs in the
lists they make (`PlacesOf`). `Among` stands where a comprehension of the code has a test, because
`SelectSeq` is opaque to the provers.

`AgentTasks_proofs`:

* `TypeCorrect`: `TasksSpec => []TasksTypeOK`, in every deployment. Every run of an
  extending module checks it as part of its own type invariant.
* Under `SingleWorker` (no background jobs, at most one worker): `WorkerInvariant`,
  and from it `WorkBegunOnce` and `RowsAgree`.
* `TasksFollowLifecycle`, `EntitiesFollowLifecycle`: the two tables implement `Lifecycle`.

None of these invariants is inductive. That work begins once depends on the row
still being `queued` when it is loaded, on the rest of the tick's snapshot still
being queued, and on no row having been touched before its task is started. `WorkerInv` says this in
three named parts: `SnapshotsAreQueued`, `UnstartedAreUntouched`, and
`RowsFollowWorker`, which gives for each place of the worker the statuses of the
two rows and of the two copies. The `failTask` case is the interesting one: the
handler is entered from several places, two of them with copies that already say
success, and then it is a success that the handler saves. `contact_worker`
checks `WorkerInv` before the proof relies on it. The refinement to `Lifecycle` then shows that
each whole-row write is a move of the table or changes nothing, because the row
has not moved since it was read.

`SupplierContact_proofs`:

* `ImplementsTasks`: `Spec => TasksSpec`, every step of supplier contact is a
  step of the queue or a stutter; `AttemptsFollowLifecycle` carries the refinement over.
* `ContactTypeCorrect`, and from it `SuccessBacked`, in *every* deployment and
  for any number of failures. Its strengthening `BackedInv` says that any copy
  that says success, in any processor, already has its message, and that a processor about to
  record one has sent it. Copies are only taken to say anything at the places
  where they are those of the task at hand (`TaskCopyInUse`, `EntityCopyInUse`).
* `OneMessageOfEachRun` and `DeliveriesRecorded`, in every deployment. Both compare
  numbers of messages with numbers of runs, and two processors can be in the middle of their runs:
  `PerRunInv` adds to what was sent the number of runs that may still send, to the
  rows those that may still leave one, and to the recorded deliveries those about to be
  recorded. `Recount` says how these numbers change when one processor goes to another step.
* `SentAtMostOnce` under `SingleWorker`, from `WorkerInv` and `SendInv`: nothing was
  sent for a task whose work was not begun, nor for one whose work is at `compose`
  or `send`. `double_send` shows that the assumption cannot be dropped.

`ProductSearch_proofs`, in every deployment:

* `SearchImplementsTasks`: the queue again.
* `CompletedShowsProducts`. A row can be overwritten by a processor that knows
  nothing of the other's products, so `ShownInv` is about copies: whoever holds a
  copy that says `completed`, and whoever is about to count, does so when a product is
  there, and products are never taken away.
* `SiteAppearsOnce`. The test of an offer is against a snapshot. `OnceInv` says that
  two processors at work on one request would have begun two runs; so during the only
  run nobody else touches the products, and the keys seen are the keys in the table.
* `SearchTypeCorrect`, with that of the demo product nothing else has its URL or its key.
* `RunsAreBounded`: any number of runs may be adding at once, and each tests its own number only.
  `WithinInv` gives a run `MaxResults` slots when it begins, of which it loses one with each
  product; products and free slots together never exceed what the runs came with. `CountInv`:
  a count is of products that were there, and products stay.
* `DemoIsAlone`: the only run decides on the demo product when it has added nothing, and then
  nothing is in the table.
* `CountIsOfSuppliers`, of the keys of suppliers: until the only run has ended nothing says `completed`, neither the row nor a
  copy in use; whatever says it later carries the count with the status, a row that a handler
  writes back from its copy included (`CountedInv`).

`GmailSync_proofs`, for any mails, callers, failures and restarts:

* `GmailTypeCorrect`, by `Types` and `Exclusion`: who is inside is there alone.
* `IdentifiedOnce`: `Ids` says that what is stored has its id in the table, that
  whoever is at a mail knows *all* ids of the table although it read them once, and
  that no contact still to do has the mail. The second part is what the lock is for.
* `RepliesBacked`: until the reply is out, the row just stored is one that has no reply (`Replies`).
* `NoneLeftActive`: an attempt that is queued or running is that of the mail and contact
  somebody is answering (`Active`), and all ways out of the answer save it.

`InternetResearch_proofs`, for any results, selections, pages and failures. `StepIsKnown` sorts the
actions into those that select, those that visit and those that only move on; every proof goes by these.

* `ResearchTypeCorrect`: only what was found and allowed is selected, at most 50 links.
* `SelectionIsFullAlways`: what the model selects is filled up with what was found.
* `VisitsCount`: every visit of an internet research leaves something, the fallback if nothing else,
  and a recorded error has its fallback in either mode (`ReapedProperties`: the enrichment's loop over a page's products
  keeps one or the fallback takes their place).
* `NoVisitIsInVain`, `ShortResultsTriedAll`: nothing is opened once enough is reachable, and
  fewer than asked for only when every link was tried.

`Algorithms_proofs`, for every input that the assumptions allow:

* `FirstProductsTaken`: by induction over the providers, the router's products are those of the first
  provider that has any, and nothing if there is none.
* `RequirementsAccounted`: every requirement is shown once. `Times` counts it in the three lists
  of the answer, and the places of an element in a concatenation and in what passes a test are counted
  in `Lists_proofs`. More text scores no less, and a match is whole.
* `ComparisonAgreesWithPrices`: `Roundings` is told by two inequalities only, from which rounding
  is shown to keep an order, so cheaper has no worse share, whatever breaks the ties.
* `NewsCostsLittle`: each of the metrics rises with its inputs (statuses, contacts, messages,
  facts), the one for quality because the order that chooses the best contact is total, and the
  weighted total rises with the metrics. A reply that is analysed replaces the communication score
  by any from 0 to 100, which costs the total at most its weight of 15; a first reply judged by the
  heuristic costs 5 points of communication, of which the total loses no more than the response score brings.
* `AgentTextPermitted`: a text is the model's that passed the checks or the fallback; of the fallback only
  what it quotes can be bad. That the fallback names enough topics is counted (`OneMoreTopic`).
* `PagesKept`: pages of any number of cards and blocks. The proof executes each kind of card and of
  block once, for any state the parser may be in before it, and then goes from card to
  card by induction. `Feed` over parts of a page is `Feed` over one after the other (`FeedConcat`,
  `ListsFed`). Between two cards (`CardsRead`) nothing is read, or a price which a broken line has
  left open is; in the second case no card closes it and nothing is promised of later fields but the
  titles, which are taken from the link and do not go by depth (`CardIsOpen`). Between two blocks
  (`BlocksRead`) the number of elements believed open in a section is 0 until a section leaves its
  image open, and so far the images are those of the sections, each where it is first shown.
* `DiscoveryAddsOnly`: the number of products is within the limit, and filling in keeps what was
  there (`FilledKeeps`, and `EnrichKeeps` for all fields).

`WebClient_proofs`, for any number of overlapping loads:

* `SentShownWithMessage`: what was read of the attempts has its messages in the
  conversation from then on, since messages are never removed; the messages are read later.
* `CatalogueShortIsEarly`, for any number of processors: when none is at work on the request and its
  status lets none begin, no product is added any more, so a load sent then brings all of them.
  That this state is not left needs the processors' copies: one that has yet to save a status
  saves an end.
* `TurnsLostOnlyByOverlap`: `IsSound` says of a reading of the row, made when *n* turns had been
  saved, that its turns are among these, in their order and no closer together, and that a missing one
  was overwritten by a turn that read before it or has as many as are kept after it. The
  distance is what survives the cut to the last turns: a list with gaps is shorter
  than the turns it spans (`IsSpaced`). A reading stays sound while others save, and an answer makes a
  sound row of a sound reading.

What the attempts at proofs showed:

* `RequirementsAreAccounted` did not hold for requirements that are spelled like the labels the
  evaluator adds itself (`Added`); they are now an exception that the property names.
* `DiscoveryOnlyFills` said that fewer products than there are mean a limit that was given. The code
  also stops at 50, at 5 when the configured limit is no number, and at 1 when a limit is 0 or less;
  the run had too few of these limits to see it, and now has a configured limit of 0.
* `PagesKeepTheirFields` compared basic information as a list of pairs, where the code keeps a
  dictionary, and the images with all sections, where an image that is shown twice is taken once. Pages that
  name things twice were not tried; now they are. Arms of the parsers' `CASE`s
  overlapped, which leaves open which one is taken where the code goes from the first to the last; they
  are disjoint now.
* `ChatLostOnlyByOverlap` needs the distance between turns, or it is not inductive: a row
  of the last turns may have lost the right number of wrong ones.

Model-checked only: liveness (`ResearchEnds`, `PagesSettle`, and that work settles), which is outside
TLAPS's reach as `ENABLED` is; and the `expect: violation` runs, which show what does not hold.

## 6. Abstractions and what is not modelled

* Text: queries, messages, prompts and model output are outcomes or sets of
  marks; rankings by score are any order. That a word list finds a mark in a text is not modelled.
* `process_contract_draft`'s branch for a missing product is left out: no code
  deletes products. A supplier with an empty key is left out of `ProductSearch`.
* `RESPONDED` and the analysis of replies are put on copies that are never saved
  (`workers.py:726`); no row shows them, so they are not state.
* `InternetResearch` takes the enrichment of a page's products to have one
  outcome, and the order of JSON-RPC messages is left to the client.
* Pages are read as streams of tags, as `HTMLParser` gives them; attributes other than
  the classes and addresses that the parsers test, and the titles of links to suppliers, are left out.
* The web client's forms, filters and layout, and the list of requests, whose
  polling is that of the catalogue without its products.
* Retries of `reliability.py` are not modelled: nothing calls them.
* Generated and static parts (migrations, logging, configuration, deployment) are
  listed in `PROJECT.json` with the reason.

## 7. What is left

* *One product, two openers*: `SupplierContact` and `GmailSync` over one
  product, where the automatic reply opens an attempt without `has_active`
  (`workers.py:844`).
* Contacts written after the product's row (`postgres_repository.py:226`): a failure
  in between leaves a product nobody can be contacted at.
* The sessions of the MCP clients, message by message; the grouping of duplicates by
  title in the serialisers.
