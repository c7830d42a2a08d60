# Verification of tetanus

tetanus is an agent harness: it runs *turns* of a conversation with a model,
records everything that happens in an append-only journal, and serves sessions
to command lines, editors and web pages over one contract
(`src/docs/interface-contract.md`). This directory holds TLA+ models of the
parts of it where correctness depends on order, failure and concurrency: the
journals, the turn loop with its crash repair, its waits and its compaction,
the agent that runs turns, the store that opens and forks sessions, and the
services that keep state beside them.

Paths below are relative to `src/crates/`. PROJECT.json has the lines of the
source each definition models.

## The system

| Component | State | Operations | Hard behaviour | What makes it correct |
| --- | --- | --- | --- | --- |
| Session journal (`session/src/lib.rs`) | a file of lines, the in-memory mirror, the mutex | create/open, append, seed, replay, flush | a kill inside an append, power loss, a failing disk, concurrent appenders | an acknowledged event is on disk under its own `seq`; every journal the process leaves can be replayed |
| SQLite journal (`session/src/sqlite.rs`) | a table, a mirror per handle | the same seam | two handles on one session, a seed racing an append | the same promise |
| Projections and their cache (`session/src/projection*.rs`) | folded values, checkpoints | drive, save, restore | a checkpoint of a journal that lost lines, or of another build | a value equals the fold of the journal |
| Turn loop (`turn/src/engine.rs`) | turn counter, step, claimed input, the group of tool calls in flight | `run_turn`, steps, the bounded pool of tool calls, closers | tools that settle out of order, faults in the middle of a group, death between two appends | every turn and step is closed, and every ask of a turn that did not fail; every call is answered once, in the model's order |
| Crash repair (`turn/src/repair.rs`) | none: a function of the journal | closers for an interrupted turn | dying in the middle of the repair | a repaired journal is one a live turn could have written |
| Inbox (`turn/src/inbox.rs`) | two queues, folded from the journal | splice, prepend, replace, remove, clear, claim, replay | the queue of a fork, a claim whose step never starts | the queues in memory equal their fold |
| Approvals, questions (`turn/src/approval.rs`, `questions.rs`) | policy, ids | ask, decide, withdraw | an answer racing the interrupt; an answerer that panics | every ask is decided, once, and nothing is invented |
| Retries (`turn/src/llm/retry.rs`) | the count, folded from the journal | schedule, wait, start | the wait racing the interrupt; a restart | no more retries than the policy's |
| Compaction, pruning (`turn/src/compaction.rs`, `prune.rs`, `context.rs`, `log.rs`) | the journal | start, summary, replacement, end | failing or dying between its records | a request derives from whole rewrites and ends in what was asked |
| Workflow runs (`turn/src/workflow.rs`) | the journal | run, resume, drive, unfinished | dying between a step and its record; two workers on one run | what is told of a run is one run of its steps |
| Goal (`features/src/goal.rs`) | the journal | create, change, clear, the tools | a change against a goal that moved | a revision names one state |
| Agent (`engine/src/agent.rs`) with the interrupt (`turn/src/interrupt.rs`) | busy flag, interrupt flag and cause, pushed status | prompt, interrupt, drain | all of them concurrent, on atomics and small mutexes | one turn at a time; an interrupt stops the turn it was meant for |
| Session store (`engine/src/session.rs`) | the live map, the agents, one journal per session | create, open, fork, list | two opens at once, a fork of a running source, several processes, death inside a seed | one journal has one writer; a fork is a prefix |
| Subagent lineage (`subagent/src/children.rs`) | none: the headers of all sessions | the walk below a session | headers that form cycles, diamonds or self-links | every delegated session is found, once |
| Subscription hub (`engine/src/subscribe.rs`) and bus (`core/src/events.rs`) | subscriptions, gates, listeners | subscribe, push, unsubscribe | events appended during a replay | each event once, in order, none missing |
| Registry (`core/src/registry.rs`) | declared and started plugins | insert, order, start all, stop all | a graph with cycles and unknown names, a start that fails half way | what runs has what it depends on |
| Key-value storage (`core/src/storage/`) | documents in memory and on disk, their version | open, put, delete, publish | a step of a publish failing, the machine ending inside one, two builds | memory is what the file says; every record is dated |
| Jobs, schedules (`core/src/jobs.rs`, `schedule.rs`) | a journal of transitions each | queue, start, finish, repair; create, delete, poll | two finishers, restarts; a poll that answers for several schedules and fails half way | a job is handed out once; no occurrence is lost or given twice |
| Settings (`config/src/reload.rs`) | the settings in force, the last reading | poll, settle, re-read | an editor that writes while the document is read | what settled is what is loaded |
| MCP client and supervisor (`mcp/src/`) | connection, pending replies, tools, health, budget | connect, call, list, reconnect, shutdown | a late answer, a death, a reconnect racing a shutdown | a caller gets its own answer or is told; one server at a time |
| File tools (`fs/src/tools.rs`, `observation.rs`, `lib.rs`) | what each session saw of a file | read, stat, write, edit, delete | a file that others change between the look and the write | no torn file; only what was seen is overwritten |
| Persistent shell (`exec/src/session.rs`) | the shell, its transcript, one command at a time | run, the budget, the interrupt, close | a command that outlives its call, a transcript that overflows | a call returns its own output |
| One-shot commands (`exec/src/proc.rs`) | a process group, a bounded capture | run, the budget, terminate, sweep | children that trap, fork, escape or hold the pipe | a returned call leaves nobody on its pipe |
| Terminals (`exec/src/terminal.rs`) | a shell on a pty, the prompts it owes | send, settle, close | a prompt that arrives after its send gave up | a send reports its own command |
| ACP bridge and client (`acp/src/`) | prompt slot, cancellation mark, subscription | prompt, cancel, load | a cancellation at any moment of a turn; updates against answers | a prompt's caller hears the whole of its turn |
| Conversation screen (`cli/src/render/fire.rs`, `live.rs`, `chat.rs`) | what was said, its rows, the window, the search, the block | keys, settle, paint, resize, commands | rows kept by number while things arrive and everything is composed again | the reader keeps their place; a search shows what it found |
| Hooks, sandbox, code runtime, RPC codec, SDK, tools, providers, command line and other screens | operating-system objects, conversion, presentation | | | |

How they interact: a prompt arrives at the **agent**, which claims the session
and runs the **turn loop**; the loop claims waiting input from the **inbox**,
derives its request from the **history** (compacting it when it no longer
fits), waits for **retries**, **approvals** and **questions**, and appends every
step to the **journal**; each append is emitted on the session's **bus**, where
the **hub** forwards it to subscribers, the **ACP bridge** among them. The
**store** decides which handle of a journal all of them use; when it opens one
it runs **crash repair** first. Tools of a turn reach the **files**, **shells**,
**jobs**, **schedules** and **MCP servers** of the project, whose state outlives
the turn and, in part, the process.

## Modules

| Module | Models | Actions and code |
| --- | --- | --- |
| `SessionLog` | what any journal provider promises: a sequence that only grows, of which a crash may take back an unacknowledged suffix | `append` as record-then-acknowledge |
| `JsonlJournal` | the JSONL provider | `Begin` .. `Publish` are the stages of one `write`: lock and number, body, newline, fsync with the mirror, emit and return. `Fail` is a write or sync that returns an error part way (`FaultySpec`). `Kill` and `PowerLoss` end the process, the second with the unsynced lines. `Open` is `create`: cut the tail, replay, adopt |
| `SqliteJournal` | the SQLite provider | `log` in its stages, `write` with insert, push and return, `seed` with its look and its transaction, any number of handles |
| `Projections` | folds of a journal and their cache | register, drive, checkpoint, restore, the cache's load, save and forget, over a journal that grows, is killed, loses power and meets other builds |
| `TurnFlow` | the turn loop and crash repair over one journal | one action per durable step of `run_turn`; the pool of tool calls as a status per call (`Push`, `Dispatch`, `Ask`, `Decide`, `Settle`, `CommitResult`, `CommitContext`); `StartRefused`, `Fault`, `CallFails`, `Crash`; `Reopen` computes the closers and `Repair` writes them one at a time |
| `TurnWaits` | what a turn waits for | asks and questions put to a chain of answerers, policies, retries with the count folded from the journal, the interrupt, deaths |
| `History` | what a request is made of | pruning, `select_range`, the records of a compaction one by one with what fails between them, `derive_messages` with the standing context's place |
| `Inbox` | the two queues | `splice` with its coordinates normalised, each operation through it, the fold of the journal, the fork boundary |
| `Workflow` | workflow runs | `run`, `resume`, the drive from boundary to boundary, what is read back from the journal; with or without one worker per run (`Claims`) |
| `Goal` | the standing goal | the fold, each operation with its compare, the two tools |
| `Lineage` | the walk over session headers | the walk over any links, one visit a step, with its stack and what it found |
| `AgentRuntime` | concurrent `prompt`, `interrupt` and `drain` of one session | each atomic read or write is a step: `Claim` is the compare-exchange, `ClearStopped`/`ClearCause` the two writes of `Interrupt::clear`, `SetStopped`/`SetCause` the two of `stop_because`, `Release` the drop of the guard; the starts (`ClearCause`) and the closers (`TurnEnd`, `EndRefused`) may be refused by the journal |
| `SessionStore` | create/open, fork, prompt and subscribe through the store, in one or several processes | `FindLive`, `Miss`, `ReadStored`, `OpenLog`, `Repair`, `WriteHeader`, `Insert` are the stages of `create`, which holds the map's lock only for the first and the last; `ReadParent`, `CreateSeed`, `SeedLine`, `Seeded` those of `fork`; `Crash` |
| `PushHub` | subscriptions of one session that is appending | `Commit` and `Emit` are an append and the copy of the listeners its emit calls; `Register`, `ReadLog`, `Replay`, `OpenGate` the stages of `subscribe` |
| `Jobs` | background jobs over one file | mint, queue, start, finish with its check and its append apart, kill, the open that cuts and repairs, deaths |
| `Schedule` | schedules | create, delete, poll with held and due occurrences, grid arithmetic, restarts, refused writes and the lines they leave |
| `McpServer` | one MCP server | the link's driver with its pending replies, calls with budgets, handshake and listing, the supervisor's watch, budget, backoff and shutdown |
| `Files` | one file and what sessions saw of it | read, stat, write, edit, delete with their guards, publication step by step, other writers, deaths |
| `Shell` | a persistent shell | commands between markers, the bounded transcript, everything that ends the shell |
| `OneShot` | one command | the family it starts, capture and spill, budget, interrupt, signals and the sweep |
| `TerminalSession` | an interactive terminal | the first prompt, sends that settle on a prompt, silence, deadline, interrupt or exit, the debt they leave, the publisher of prompts, close |
| `AcpBridge` | one connection, one session | prompt slot, cancellation mark, subscription around a turn, later loads, the client's deadlines, the order frames take |
| `Storage` | one key-value store | open, change in memory, publish as create, write, sync, rename and the directory's sync, failures, ends of the process and the machine |
| `Registry` | plugins | insertion, the depth-first order, boot, roll-back, stop |
| `Reload` | the settings document | the watcher's rule, the re-read with its two readings, an editor |
| `Conversation` | the full-screen chat | `LineBeat`, `TurnBeat` and `TurnOver` are the loop's two halves: keys, settle, paint, and the turn's end; `Write` is the turn's own append between two beats; `Ask`, `Find`, `Fold`, `Tell`, `Leave` what a finished line does. The view is one record, and `say`, `fill`, `find`, `land`, `frame` are functions of it under the names they have in the code |
| `MCTurnFlow`, `MCTurnWaits`, `MCHistory`, `MCAgentRuntime` | instances | |
| `MCServices` | `Jobs`, `Schedule`, `McpServer`, `Files`, `Inbox`, `Shell` | one of them at work per behaviour |
| `MCRecords` | `PushHub`, `Projections`, `Goal`, `Lineage`, `Reload`, `SqliteJournal`, `Workflow` | the same |
| `MCHarness` | `SessionStore`, `JsonlJournal` with failures, `TerminalSession`, `AcpBridge`, `Storage`, `Registry`, `OneShot`, `Conversation` | the same |
| `Listing` | sets of numbers from the least on, and what a filter keeps of a sequence | |
| `TurnFlow_proofs`, `TurnWaits_proofs`, `AgentRuntime_proofs`, `History_proofs`, `Records_proofs`, `Harness_proofs`, `Services_proofs`, `Listing_proofs` | theorems, each about the modules it extends | |

The modules meet at the journal. `JsonlJournal` and `SqliteJournal` show that
the steps of an append behave as one append of `SessionLog`; that is why
`TurnFlow` writes an event in one step, and why `SessionStore` writes a line in
one step. `TurnFlow` shows what a turn writes; `AgentRuntime` and `SessionStore`
keep only its ends and its boundaries. `TurnWaits` and `History` look inside
two places `TurnFlow` passes in a step: a call's wait for its answer and the
making of a request.

The components that share no state are checked side by side in `MCServices`,
`MCRecords` and `MCHarness`: the initial state picks the one that is at work,
the others keep the state they start in. That is the disjoint union of their
state graphs, not their product; it says nothing about interaction between
them because there is none.

A definition `X_Suffix` is a variant of `X` with one mistake in it, of the
kind a change to the code could make. Nothing uses it: each is there to show
that a property fails when `X` is replaced by it (PROJECT.json, `mutants`).

### What an event is

Payloads are abstracted to what the properties tell apart. In `JsonlJournal`
a line is a record or `Garbled`, what two records spliced together parse as;
in `SqliteJournal` a row. In `TurnFlow` an event is its type, one number and
the position it cites; the queue's single journal record
`agent/inbox/spliced` appears under two types, `inbox/insert` and
`inbox/claim`, one for each use the loop makes of it; `Inbox` has the record
as it is. In `History` an event has a cost, and a summary is nothing but its
cost. In `TurnWaits` a question is a model value and an answer a set of them.
Streamed chunks, prompts and usage change no state a property reads. In
`SessionStore` a line also names the session it was first written in, which
the code cannot see and which the fork properties need. In `PushHub` an event
is its `seq`. In `Projections` the unit is the fold that forgets nothing, so a
value that agrees with it agrees with any unit.

## Runs

| Run | Question | Bounds |
| --- | --- | --- |
| `journal_sound` | Does a journal keep what it promised through every kill and power loss, and implement the seam? | 2 writers, 2 payloads, 3 lines, any number of crashes |
| `turn_crash` | Is every idle journal balanced, with a death between any two appends and a fault in any of the run's or the calls'? Does a turn end? | 2 turns of 2 steps, a gated and an exclusive call, a refused `turn/start`, a run and tool calls that fail or panic anywhere, unbounded deaths |
| `turn_faults` | Are results ordered when any append may fail? Does an exclusive call run alone? | 2 turns of 1 step, groups of 2 and 3 calls over a pool of 2, faults everywhere |
| `waits_sound` | Is every ask and question closed, with an answer somebody gave? Are retries counted across deaths? Does an interrupt cut every wait short? | 2 turns of 2 steps, a gated and an asking call, 1 retry, 2 waits, 1 policy switch |
| `history_sound` | Is the request of a rewritten history well formed, whatever failed or died in a rewrite, and is its size measured? | a window of 8, 2 turns of 2 steps, batches of 0 and 2 results, summaries of 1 and 4 |
| `runtime_sound` | Do prompts, interrupt and drain keep one turn at a time, and are they heard? Does a drain that says zero leave nothing behind that it could have closed? | 2 prompts, 1 interrupt, 1 drain, 2 turns of 2 steps, refused starts, snapshots and closers |
| `harness_sound` | Is a fork a prefix and every handle its file? Does a failing disk lose nothing silently? Does a send report its own command, a prompt its whole turn? Is the store what its file says? Do plugins have what they depend on? Does a command leave nobody on its pipe? Does a reader keep their place on the page, and does a search show what it found? | sessions: a fork of a working source, 5 records, 3 opens; disk: 2 writers, 2 payloads, 3 lines; terminal: 4 sends of a line; bridge: 3 frames, 2 updates, timeouts; storage: 4 writes, 2 versions, 2 losses of power; registry: 3 plugins with any dependencies, unknown ones too; command: 2 children, 2 pieces, 1 kept; screen: a new and a resumed conversation, 5 events, 1 note, 2 sizes, one key a beat |
| `services_sound` | Are jobs handed out once, occurrences neither lost nor repeated, callers answered by one server, files never torn or overwritten unseen, queues what their journal says, outputs their own? | jobs: 2 jobs, 2 deaths; schedules: 2, alike, 1 caller, a clock to 3, 1 restart, 1 refusal; server: 1 caller, 4 requests, 2 launches, 1 attempt; file: 2 sessions, 3 versions; inbox: 2 inputs, 3 splices; shell: 2 callers, a transcript of 3 |
| `records_sound` | Does every subscriber get every event once, in order? Is a restored value a fold, a revision one state, a walk complete, a settled document loaded, a workflow one run, a database a journal? | hub: 2 subscribers, 3 events; projections: 2 units, 2 versions, 3 lines, 3 builds; goal: 4 changes; lineage: 4 sessions with every set of links, the one asked about started by any or none; settings: 2 accepted documents, a rejected and a torn one, 5 edits; database: 2 handles, 2 seeds, 3 rows; workflow: 2 workers, 2 steps, 8 records |
| `turn_dangling`, `terminal_debt`, `jobs_sessions` | Disagreements, below | the smallest instance that shows each |

Why these bounds are enough to be worth running. Two writers give every pair
of stages of an append; a third line lets a splice happen behind a good line
and a power loss cut more than one. Two turns are needed for a number to be
reused and for the history of one to be sent by the next; three calls over a
pool of two for an exclusive call to have a sibling before and after it and for
the pool to fill. Two prompts and one interrupt give the interleaving of one
turn's end with the next one's start. Five records hold a header, an inherited
turn and a turn of the child's own. A window of 8 makes a compaction necessary
in the second turn and lets a summary either help or not. Three events let one
arrive before, during and after a replay. Four sessions are the smallest family
with a diamond below the root, and three plugins the smallest cycle that leaves
one out. Five events are a whole turn, or the start of a second one on a resumed
conversation, over a body of two or three rows, so that most of the page is out
of the window. A clock to 3 passes two grid points between polls. Of a server's four requests
a connection's handshake and listing are two, so no two tool calls are ever
outstanding in the run: what a caller hears among several is `EveryoneHears`,
which is proved for any number of them. Four sends let a
debt be made, carried over one send and paid by the next. The bounds are the
`Max*` constants; deaths, faults and interrupts are not bounded where no bound
is named.

Deadlock is checked in `journal_sound` and in the `turn_*` runs. The other
systems stop when their callers have made every call the bounds allow.

`services_sound` takes the names of the schedules as symmetric: they differ in
nothing, and its properties are invariants and one action property. No other run
uses symmetry.

### Fairness

`TurnFlow!FairSpec` assumes that the turn's own task keeps being scheduled and
that provider, tools and answerers settle; the code waits for each of them with
no timeout of its own, so without that a turn may indeed last for ever. It
assumes nothing of prompts, faults, deaths and interrupts. `TurnEnds` says that
a turn that started ends or its process does.

`TurnWaits!FairSpec` assumes less: only the turn's own task is fair, answerers
may be silent for ever, timers need not fire. `StopCutsWaits` says that an
interrupt ends every wait under that alone.

`AgentRuntime!FairSpec` assumes that every accepted call keeps being scheduled.
`Prompt(p)` takes one step at a time and `MaxSteps` bounds a turn, as
`TurnConfig::max_steps` does. `BusyEnds` says that every claim of the session
is given back.

## What is proved

TLAPS checks the theorems for every value of the constants. Each rests on an
inductive invariant, of which the checked property is a consequence; where a
theorem has a hypothesis, the hypothesis is the condition under which the
property holds at all, and the run that refutes the property without it is
under Disagreements. The named assumptions on constants are those the modules
declare, and TLC evaluates them in every run.

### The turn: `TurnFlow_proofs`

For any number of turns, steps, calls and contexts, any width of the pool, any
`Faults` and any interleaving with deaths, repairs and interrupts:

- `TypesHold`. The closers of a repair, the queue refolded from a journal and
  the answers pending in it are sequences in the order of the journal; that is
  `InOrderLists` of `Listing_proofs`, by an induction over the least number
  that fails.
- `CallsKeepOrder` (`CallsInOrder`). Two invariants: `TakenInOrder`, that
  calls are taken on in order, and an exclusive one when all before it are done
  and none after it is begun, and
  `ResultsInv`, about the journal *with the closers a repair has yet to write
  appended*: every message's results stand behind it, once each and in the order
  of its calls, and the pool's statuses say which of them are there. A repair
  that is cut short and begun anew is covered because the invariant is about the
  journal as it will be.
- `IdleIsBalanced` (`BalancedWhenIdle`), for
  `Faults \subseteq {"start", "run", "tools"}`: `turn/start` may be refused, and
  any append of the run or of a call may fail and any listener or tool panic; the
  snapshot before the run and the closers after it may not, and what happens when
  they do is under Disagreements. Every turn and step is closed then, and every
  ask decided - except of a turn whose own `turn/end` says it failed: a fault
  that drops the group of calls drops the asks waiting in it, and no closer is
  written for them (`AskedIsDecided`, below).
  `BalanceInv` says of every place of the loop how much of the journal is open -
  at most the last turn, of it at most the last step, and asks only of calls
  that wait, until a fault of the group leaves any of its asks (`AsksLeft`) - and
  of the closers that a step's end is last but one and closes just that step.
  `BalancedClosed` shows that appending them leaves nothing open.

### What a turn waits for: `TurnWaits_proofs`

For any calls, questions, answers, retries, steps, turns, interrupts and deaths:

- `RequestsAreCounted` (`RetriesCounted`). `Tally` ties the requests of a step
  to the records of that step at each place of the retry: announced and waiting
  is one more announced than started. It needs that no record is of a step still
  to come (`KeyedUpTo`), so that a step's count begins at none.
- `AsksAreAnswered` (`AsksAnswered`). Of the journal alone (`AsksInv`): ids are
  numbered per type and unique, what closes an ask stands behind it in its turn
  and is the only one, and an ask nothing closes is of the turn that goes on. Of
  the waiting calls (`Matched`): the open asks are theirs, one each, until the
  process dies, and then they are the asks of the closers that a repair has yet
  to write (`Repairs`). `SaidInv` says whose word each closing is; for a grant that takes
  `PutAllowed`, that a call is put to its answerers only if the policy asked
  when its ask was written or was switched since.

### The agent: `AgentRuntime_proofs`

`TypeCorrect`, `OneAtATime` (`OneTurnAtATime`), `ZeroClosed` (`ZeroMeansClosed`)
and `Heard` (`HeardOnceStarted`). `Claimed` ties the busy flag to the one prompt
between claim and release, and says of a turn that is open on the journal that
it is the one this prompt runs, or that the journal refused its snapshot or one
of its closers; so when nobody is inside, nothing runs and only such turns are
open. The guard is dropped whatever `run_turn` returned, and the drain reads the
flag alone: that zero means *every* turn closed itself is not so
(`ZeroClosesAll`, under Disagreements). `Asked`
says why an interrupt is heard: a turn found started is never a later one, its
flag is set before the caller is answered, and only the start of the next turn
clears it.

### What a request is made of: `History_proofs`

`NothingIsLost` (`SurfaceCovers`), for any window, costs, batches and turns.
`CoversOf` is what each place of a log stands for; that there is such a function,
only one, and that appending changes none of it is proved once (`StandsExists`,
`CoversIs`, `CoversGrow`). `Faithful` says of a log and a surface that the nodes
stand for everything said, once, in order, and that what is claimed is what the
last record shadows; writing keeps it if a replacement comes at once behind its
record and the record shadows a run of the nodes (`RunReplaced`, `PlaceRun`).
That is what `Phase` is for: at each place of a pruning or a compaction, what is
still to be replaced is on the surface, and something is claimed only between a
record and its replacement, or after a turn that stopped there. In the second
case no answer has come since the step began (`Fitted`), so the repair that
follows owes no result: its first event replaces nothing and the claim expires.

`RequestsAreSound` (`RequestSound`), for the same. `Paired` says of the nodes
that the places an answer asks for hold its results and that no result stands
elsewhere. It is not inductive alone: a request is sound only if no answer asks
for places past the end (`Whole`), and between steps or after a death that is so
only because of what `Stage` says of each place of the turn. While tools run
exactly one answer, the last, is owed anything, and its results so far fill the
places behind it (`Owing`); so a repair, which counts results in the log and not
on the surface, writes as many as there are places left. A pruned result takes
the place of the result (`OneReplaced`). A summary takes the place of a beginning
that splits no pair (`BeginningReplaced`): a cut where as many results as calls
stand before it is one, since no result stands before its call (`BalancedCut`).
The end of the request is what was asked because the range never reaches the
last node, which no snapshot follows (`Asked`).

### What the harness stands on: `Harness_proofs`

**The JSONL journal.** For a disk that reports no errors (`Spec`):
`TypeCorrect`, `Replayable` (`AlwaysReplays`), `ToldDurable`
(`ToldIsDurable`), and `ImplementsSeam`: the journal implements `SessionLog`.
For one that does (`FaultySpec`): `NeverJustGone` (`NeverSilentlyLost`). The
inductive invariant has to say what the mutex protects: the writer that holds
it, and the only one, has put exactly its own bytes after the lines the mirror
knows (`FileOf`), and when nobody holds it file and mirror are equal.
`AlwaysReplays` alone is not inductive, because a writer numbers its line from
the mirror. An event is durable from the moment it is committed, before it is
told; that is what carries `ToldIsDurable` through a power loss.

**The sessions.** `HistoriesAgree` (`JournalsAgree`), under `OpensApart`: no two
calls are opening one session, and none opens one that another process has live.
The code keeps nobody from it (see "Disagreements"), so it is a hypothesis about
the callers; `OneCallerOneHistory` replaces it by one about their calls
(`OneCaller`, which the calls of `harness_sound` satisfy). A handle is one
session's: who opens a session holds the only handle of it that is not live
(`OpenInv`), the one that becomes live is the only one until its process dies
(`LiveInv`), and turns are written through that one (`ServedInv`). Of a fork,
what is written and what is still to be written together are a prefix of the
source under another header (`ForkInv`); sources only grow, so it stays one.

**The registry.** `RegistryInvariant`, `MountedInOrder` (`DependenciesUp`),
`RefusalsAreJust`. The marks of the depth-first walk are the plugins on its path
and those it placed; each placed plugin has its dependencies before it; what is
mounted and has not failed to unmount is a beginning of the order, through the
boot, the roll-back and the stop. A plugin whose `stop` errs stays mounted
(`faults`), is reported, and the pass goes on to what it stands on: it is left
without its dependencies, which `DependenciesUp` says of no other, and the
registry is never booted over it (`BeginPass`). A refusal names an unknown dependency or a path that leads back to itself.

**One command.** `LeavesNobody` (`LeavesNoHolder`). A call returns from the end
of its pipe or from the sweep of its group, and either lasts: a process gets its
place in the group and its end of the pipe from a parent that has them
(`PipeOrGroup`).

**The storage.** `ServesWhatIsStored` (`StoredAndDated`), for `LoneWriter`: one
store of one build on the file. What is put back when a publish fails is what
the file says, a temporary file at each of its stages holds just what memory
has (`Serving`), only whole and dated contents are ever renamed into place or
left by a loss of power (`FilesWhole`), and a record is written only under the
stamp its build put there first (`Writing`).

**Terminals.** `ReportsItsCommand` (`ReportsOwnCommand`), for sends of one line
(`MaxBurst = 1`) to a shell that prints its first prompt before it falls silent
(`~QuietStart`); without either it is refuted (see "Disagreements"). The lines
whose prompt may still come, read, running or unread, are never more than what
was published and is owed when a send begins (`SendInv` with `InAll`): so a
prompt past that count can only be of the line the send typed, which is the
latest one (`Latest`). A debt that is too high delays a send and is harmless
here.

**The ACP connection.** `HearsItsTurn` (`PromptHeardOut`), for a session that is
not loaded again (`~Reloads`; with it `CancelHeard` is refuted). `SlotInv`: one prompt
at a time is between its claim and its release, so an update is pushed to one
subscription, that of its own turn; a mark set while a prompt holds the slot
stays until its release reads it. `HeardInv`: behind an answer on the wire there
is no update of the answered call, and what the waiting client has queued,
followed by what is on the wire, has every update of its call as appended, in
order (`Tells`). Reading a frame moves the border between the two and nothing
else (`ReadOne`).

**The screen.** `ReaderKeepsPlace` (`KeepsItsPlace`) and `SearchShows`
(`FindShows`). `ConversationInv`: the view has just the matches of its rows
(`Matched`) and no block without a turn (`Quiet`), and outside a turn nothing
waits to be settled. A view keeps its matches while rows are added because those
it has are the beginning of those it gets (`MatchingGrows`), and composing again
counts from nothing. What settles moves the reader back by as many rows as it
adds, so the row at the foot stays (`SaysKeeps`), unless an event made the
opening page go away and everything was composed again; the clamp of a frame
takes the reader no further than the first row allows, and leaves that row in
the window (`FrameKeeps`). `KeepsItsPlace` asks that there be a row at the foot
(`Foot(page) > 0`): between a fold that leaves fewer rows than the reader had
scrolled and the next frame there is none, and without it TLC refutes the
property with `MaxNotes = 2`.

### Records: `Records_proofs`

**Subscriptions.** `EveryEventArrives` (`EverythingArrives`). `HeardTo` is the seq up to which a
listener has heard: the last of the log, or the one before while the append in
progress has taken the listener and not yet called it. While the gate is shut,
what it holds is the run of seqs that ends there and begins no later than one
past what the replay was told to deliver; once it is open, the sink was handed
the run from where the subscription starts to the later of the two. `OnBus`:
the bus lists each listening subscription once, and an emit calls each of those
it took once, also one that has left since. What a filter keeps of a sequence
is `Picked` (`Listing`), so that what the gate releases is a run again by
`PickedOfRun`.

**The SQLite journal.** `SqliteInvariant` and `ImplementsSeam` (`SeamSpec`).
Each handle's mirror is a prefix of the table while its lock is free, a handle
that inserted has put its row at the end, and a refused insert changes nothing:
so a step of any handle is a step of the seam or none.

**Projections.** `ValueIsAFold` (`ValueIsFold`), for `OneDriver` per project: a
value and each of its checkpoints is the fold of a prefix of some journal this
one was, and a row longer than the journal is never used.

**Workflows.** `WorkflowInvariant` and `OneRunTold` (`TellsOneRun`), for
`Claims` (one worker per run). The steps recorded done are the first ones,
ending where the worker stands, and no completed end is on the journal while a
worker drives.

**The goal.** `RevisionsName` (`RevisionNamesOneState`). Of the goals anybody
was told in this life none has a later revision than the present one, and one
that has the same is the same.

**The walk of subagents.** `FindsAllDelegated` (`FindsDelegated`). What names a
visited session is visited or on the stack; whatever is visited or on the stack
is in every set that has the root and, with each session it has, what names that
one. When the stack is empty the visited ones are such a set themselves, so they
are the least. The root asked about may itself have been started by any session,
on a cycle of links, or be its own starter: it is left out because `visited`
begins with it.

**The settings.** `RestIsLoaded` (`SettledIsLoaded`), when no old document comes
back under its old stamp (`~PutsBack`). Stamps only grow, the watcher never
settles on one later than the document's, and one that is settled on is loaded
or was refused unless a re-read is under way.

### Services: `Services_proofs`

**Schedules.** `ScheduleInvariant`, `LeavesNothingDue` (`NothingLeftDue`),
`RecurrencesStayOnGrid` (`StaysOnGrid`). Every recurrence's next instant is its
first plus a multiple of its period; that `next_on_grid` keeps it there, and
after now, is arithmetic done once as a lemma. `OccurrencesOnlyAdvance`
(`OccurrencesAdvance`) needs a second invariant over the first: a schedule's
next instant, and the one it holds, are later than what the runner was given of
it and what the poll is about to give; of one schedule a poll answers at most
what was held and, later than that, what was due; and what is held outside a
release is waiting for a run that has not ended. A refused write may leave its
line in the file, which the process never folds and the next open does, so all
of this is of the schedules no restart has found otherwise than they were
(`stale`); what needs no such condition is said of them all: that the file's
records are sound, on the grid, and keep their rules. A caller judges a creation
by a clock it was given before and appends it later: one that lands in the
middle of a poll may be due at the poll's own instant, so `NothingLeftDue` is
about what the poll found when it looked.

**Files.** `FilesInvariant`, `WholeOrNothing` (`NeverTorn`), `OverwritesKnown`
(`OverwritesWhatItSaw`). The path only ever changes by the rename of a file that
was written whole, and between a guard and the rename the version that was
looked at is the one that is replaced.

**Jobs.** `NumbersNameOneJob` (`QueuedOnce`), for `OneStore`. A store that has
read the log knows every job queued in it, and a number that was minted is not
in the log until its job is; that a fold never forgets a queued job
(`ScanRemembers`) is an induction over the log's length.

**MCP.** `OneServerOnly` (`OneServer`) and `EveryoneHears` (`CallersHear`), from
one invariant, `McpInv`. `Wire`: of every connection, all there is under a
number - queued, asked of the server, on its way back - is of the one request
that has it and below the next number, and whoever waits without a reply is
covered by the queue, by the pending list of a driver that is alive, or by a
stop.
`OnlyWatched`: the only live connection is the watched one, and none is live
while the supervisor is about to launch. `Closes`: who stops a server is not
told before it has left.

**The inbox.** `InboxReplays` (`ReplayAgrees`). The invariant needs that the
journal has the whole seed and no more than that before the first own splice, so
that `own_suffix` of a record more is its suffix and that record; the fold of
it is then the queues so far with the record applied, and it is never refused
because `Checks` was asked of the same queues. A splice with negative or
overlong coordinates is journalled as what it was normalised to.

**The shell.** `GivesOwnOutput` (`OwnOutput`). What the transcript keeps and what
nobody has read yet are one `Stream`, which only grows at its end and is
forgotten from its beginning. `Follows`: behind the place where the latest call
began to wait there is noise and its own command, between its markers, and all
it printed that is not forgotten. A call may enter because a shell that was not
closed is `Quiet` between commands; once the end marker is there, whatever is
still unread is noise (`FollowsRead`), so what stands between the markers is
final (`ToldOwn`).

### Only model-checked

The liveness properties (`TurnEnds`, `StopCutsWaits`, `BusyEnds`): fairness and
ENABLED are beyond the prover. Every safety property that a passing run checks
has a theorem.

What a recursive function computes cannot be proved with the library's induction
theorems, whose predicate is an operator parameter. Where a proof needs an
induction over a length (`InOrderLists`, the fold of the job log) it takes the
least number for which the claim fails, as a set: `WellFoundedInduction` says
that there is one (`CarriedExists` of `Listing_proofs` is such a fold's
existence, stated once). `SelectSeq`, `FoldLeft` and the sorting operators are opaque
to the prover; the models that are proved about pick from a sequence by the set
of places (`Picked`) and fold with a recursive function (`Says`, `Composed`).

## Disagreements

Places where the code does something other than what it, its tests' prose or
the contract says. Each is a property TLC refutes. The first three are runs; the
others are stated in the modules under "does not keep" (or, where the name is a
property of a passing run, hold only under that run's constants), and the last
column says which configuration refutes them: the one named, with the
property in place of its own.

| Property | What happens | How to see it |
| --- | --- | --- |
| `NoDanglingCall` | A turn that fails in its tool group is closed without results; the next request carries a dangling call, and repair, which finds the turn closed, adds none. | `turn_dangling` |
| `InterruptedIsDead` | Each session's tools open the project's one job log, and an open settles the running jobs of the other sessions as interrupted. | `jobs_sessions` |
| `LeftRunning` | A send that settles on silence counts a prompt as owed when no command is running; later sends wait for a prompt that never comes. | `terminal_debt` |
| `DurableWhenReturned` | After a failed write the next append of the same handle joins the torn record, is synced, acknowledged, and reads back as nothing. The turn loop does append after a failed append, to close the turn. | `JsonlJournal_sound.cfg`, `SPECIFICATION FaultySpec` |
| `MirrorIsSynced` | A record the killed process wrote and did not sync is mirrored and shown after a reopen, and a power loss can take it back. | `JsonlJournal_sound.cfg` |
| `ClaimedIsRead` | Input claimed for a step that is rejected, fails or dies before its user message is in neither the queue nor the history. | `TurnFlow_crash.cfg`, `MaxTurns = 1`, `MaxContexts = 1` |
| `AskedIsDecided` | A tool or a listener that panics, or a refused append, while a sibling's ask waits: the turn is closed as failed and the ask never decided ("The audit pair is one to one", approval.rs:24). | `TurnFlow_crash.cfg` |
| `TurnsNumberedOnce` | A refused `turn/start` spends a number; after a restart turns are numbered by their count, and the next one repeats a number ("no two turns in one log ever share an id", engine.rs:259-260). | `TurnFlow_crash.cfg` |
| `BalancedWhenIdle` | A context snapshot that cannot be appended leaves `run_turn` before the closers: a live process with an open turn. | `TurnFlow_crash.cfg`, `Faults = {"context"}` |
| `ZeroClosesAll` | The same, or a closer the journal refuses: the guard is dropped all the same and a drain answers zero with the turn open ("zero means every turn closed itself", agent.rs:355-356). | `AgentRuntime_sound.cfg`, `SPECIFICATION Spec` |
| `NoDispatchAfterFault` | A call pushed to the pool and not yet polled starts while the pool drains after a sibling's fault. | `TurnFlow_faults.cfg` |
| `ContextAfterInherited` | A compaction inside the turn writes its summary after the turn's start, and the standing context is then placed before the summary of the turns it should follow. | `History_sound.cfg` |
| `AnsweredIsHeard` | An interrupt answered `ok: true` between the claim of the session and the start of the turn is cleared as a leftover. | `AgentRuntime_sound.cfg`, `SPECIFICATION Spec` |
| `NoStrayStop` | An interrupt that found the end of one turn stops the next. | the same |
| `ShutdownIsNamed` | A boundary between the two writes of `stop_because` reports `cancelled` for a turn only the drain stopped. | the same |
| `IdleMeansIdle` | The `idle` push of one prompt follows the `running` push of the next. | the same |
| `JournalsReplay` | Two opens of one session at a time each write a header with `seq` 0. | `Harness_sound.cfg`, `Jobs <- SameJobs`, `MaxRecords = 4`, `Crashes = FALSE` |
| `RunningTurnIsOpen` | An open that missed the live map repairs the journal of a turn that is running. | the same |
| `SubscribersHear` | Two opens of one cold session leave the agent on one handle and every later subscriber on the other. | the same with `Crashes = TRUE` |
| `OneWriter` | Two processes on one root both open a session for work; nothing locks the file. | the same as `JournalsReplay`, with `Processes = {c1, c2}`, `ProcessOf <- OwnProcess` |
| `ForkKeepsHistory` | A death inside a seed leaves a child that reopens with less history than its header's `fork_seq` says. | `Harness_sound.cfg` |
| `MemoryIsStored` | Two stores on one file part in memory; the second's publish takes the first's records away (json.rs:58 has the store the only writer). | `Harness_sound.cfg`, `Openers = {h1, h2}`, `Builds = {h1, h2}`, `StoreOf <- OwnStore` |
| `RecordsAreDated` | Two builds that open a domain before either has written both find no version; the record of one is under the stamp of the other. | `Harness_sound.cfg`, `Builds = {b1, b2}` |
| `ReportsOwnCommand` | A shell that reads before it prints its first prompt, or a send of several lines, makes a later send settle on an earlier command's prompt and status. | `Harness_sound.cfg`, `QuietStart = TRUE`, or `MaxBurst = 2` |
| `OnlyItsTurn` | A prompt sent while another's turn runs is refused, and its caller gathers that turn's updates (client.rs:377-378). | `Harness_sound.cfg` |
| `OnlyIfAsked` | The claim of a prompt wipes the mark of a cancellation handled just before it, whose interrupt then stops the turn: answered cancelled, and not by the mark. | `Harness_sound.cfg` |
| `OneSlot`, `CancelHeard` | A load while a prompt runs replaces the session's entry: two prompts hold its slot, and a cancellation marks the new one (bridge.rs:370-372). | `Harness_sound.cfg`, `Reloads = TRUE` |
| `NothingOutlivesAStop` | A child that ignores the polite signal and has left the pipe is alive after its command was stopped: the call waits for the leader and for the pipe, not for the group (proc.rs:530). | `Harness_sound.cfg` |
| `SignalsItsOwn` | The sweep signals a group that has no member any more, whose number may name another (proc.rs:444-447). | `Harness_sound.cfg`, as a `PROPERTY` |
| `SpilledIsWhole` | When the spill store refuses an open or a write, the next overflow opens a spill with what the buffer still has, and it is reported as the whole stream. | `Harness_sound.cfg`, `MaxPrinted = 3` |
| `SameAnswer` | A process that comes up does not answer what the one that died would have (schedule.rs:7-10): the line of an append whose sync failed was told as refused, and is folded by the open. | `Services_sound.cfg`, as a `PROPERTY` |
| `NeverOverlaps` | One poll releases the occurrence it held and also hands out the one that is due by then, of a schedule that may not overlap. | `Services_sound.cfg`, `Names = {a}`, `MaxTime = 5` |
| `DeletedIsQuiet` | A fire decided before a delete is handed out after it. | `Services_sound.cfg`, as a `PROPERTY` |
| `EndsOnce` | `finish` and `job_kill` both find a job live and both settle it; a start racing a kill revives it. | `Services_sound.cfg` |
| `StoppedStays` | A reconnect that was under way puts a stopped supervisor back. | `Services_sound.cfg`, as a `PROPERTY` |
| `KnowsItsTools` | A notice that the tools changed, sent between the first list and the watch for notices, is dropped; the tools stay the old ones. | `Services_sound.cfg` |
| `ReadFirst`, `EditNeedsRead` | A write, or a look at the attributes, counts as having read what is overwritten or edited. | `Services_sound.cfg` |
| `ReplaysWhenTorn` | After a fork that died in its seed the boundary of the header reaches into what the child wrote itself, which a replay of its queue then skips. | `Services_sound.cfg` |
| `NothingDropped` | Waiting input that a claim took is gone when its turn never starts. | `Services_sound.cfg` |
| `DiedSaysWhy` | The exit is published before the pipe is drained: what the command printed last before it ended the shell is not in the result. | `Services_sound.cfg` |
| `SpillIsWhole` | What overflows the transcript between the writing of a command and the installing of its artifact is in neither. | `Services_sound.cfg`, `MaxNoise = 2` |
| `NeverWrong` | A journal that lost lines and grew again is as long as a cached row of what it lost, and the row is restored onto it. | `Records_sound.cfg` |
| `ValueIsFold` | Two drivers of one value race through the lock `restore` releases. | `Records_sound.cfg`, `Drivers = {d1, d2}` |
| `LandsOnWhatWasRead` | A goal created after a clear counts from one again, so a change to the old goal's revision lands on the new. | `Records_sound.cfg` |
| `DirectChildIsOne` | A fork of a child is met below the child, and called deeper than one. | `Records_sound.cfg` |
| `OnlyAccepted` | The schema is checked on one reading of the document and another is loaded. | `Records_sound.cfg` |
| `SettledIsLoaded` | An editor that puts the old bytes back with the old time leaves a reading that is never made again. | `Records_sound.cfg`, `PutsBack = TRUE` |
| `PerformedOnce` | A step whose record was refused, or whose process died first, is performed again on resume ("A completed step is never run twice"). | `Records_sound.cfg` |
| `RestartFinds` | A run whose start record was refused, and that wrote its steps all the same, is not among the unfinished. | `Records_sound.cfg` |
| `TellsOneRun` | Two workers that resume one run interleave their steps. | `Records_sound.cfg`, `Claims = FALSE` |
| `TurnsAreKept` | A recomposition (resize, `/find`, Esc, `/more`, `/think`) clears the turns and never finds them again: the heading's count and Tab are gone for what was said before it (fire.rs:224 has a rewrap move them). | `Harness_sound.cfg` |
| `BlockWhileRunning` | A recomposition during a later turn replays an earlier turn's end into the new composer, and the block with the streaming answer is gone until the turn is over. | `Harness_sound.cfg` |
| `FindShowsRunning` | `land` and Tab reckon with the body, the window has what the block leaves of it: a match in the first rows stays above the window while a turn runs. | `Harness_sound.cfg`, as a `PROPERTY` |
| `OnAMatch` | A recomposition that finds fewer matches keeps the place among them: the footer says "2 of 1". | `Harness_sound.cfg` |
| `EnterIsWithheld` | A line is withheld while a turn runs when Enter finishes it; Ctrl-J hands it over, and the loop takes that for leaving, drops the turn and exits as interrupted. | `Harness_sound.cfg`, as a `PROPERTY` |

A few more were met by reading and have no model:

- `exec/src/terminals.rs:107` says two opens racing for one name cannot both
  win, but whether it is taken is looked up before the reserved names' lock is
  taken; `close_all` clears sessions opened between its two looks.
- `AcpClient::prompt` takes `&mut self`, so its own `cancel(&self)` cannot be
  called while a prompt is awaited. The end of input with a permission question
  pending leaves `prompt` and `shutdown` waiting for each other.
- `PendingDecisions::clear` (`hooks/src`) is documented as run at the end of a
  turn and has no caller; of two hooks at one point both judge the original
  call; a second drain of detached hooks returns while the first still waits.
- A plugin inserted later that closes a cycle makes `stop_all` refuse, so nothing
  is stopped; `registry.rs` says of cycles that they are rejected at insertion,
  where only names are.
- `core/src/scoped.rs:57-61` disposes of a scope when its first handle drops.
- An MCP peer that stops reading its input blocks the driver's write, and with it
  close, shutdown and, once 64 commands wait, the deadline of a call.
- `ui/src/edit.rs`: a cursor in a row that is not among those shown is drawn in
  the first of them. `cli/src/render/live.rs` keeps the chunks of a failed
  attempt in front of those of its retry until the message settles.

## Assumptions of the models

- One task appends to a session's journal at a time: the task that runs its
  turn. Every append in the tree is made by it, or before the session is live.
  `JsonlJournal` and `SqliteJournal` do not assume it; `PushHub` and `TurnFlow`
  do. With two appenders events could be pushed out of order, since the log's
  lock is released before its listeners are called.
- A line reaches the file in one piece up to a point: a kill leaves a prefix
  of the record, and the newline is the last byte. A file that is cut and
  synced stays cut. A rename is atomic, and is not durable before the
  directory is synced. A statement of SQLite is atomic and durable.
- `drain`, `Projections` with their cache, `Reload` and the storage's domains
  are modelled as the code has them; little or nothing in the tree calls them
  yet but their tests. The schedule's runner is external for the same reason.
- A turn inside `AgentRuntime`, `SessionStore` and `AcpBridge` ends for any
  reason `TurnFlow` gives it.
- Shells, commands, terminals, MCP servers and editors are external: they may
  do anything their comments in the code expect of them, at any time.

## Not modelled

Listener vetoes and streamed chunks of the turn loop; building an agent on
first use; listing, titles and presets; many paths, directories and links of
the file tools; table names, announcements and the SQLite backend of the
storage; the registry of terminals, screens and the pty; the handshake and the
permission questions of ACP; paging of MCP lists; the refusal of a workflow that
declares fewer steps than its journal has done (`NotTheSameWorkflow`: every
resume is with the workflow that started); effects, services and scopes
of the core. Whole components outside the list of modules are in PROJECT.json
with a reason: presentation, operating-system effects, network providers and
conversion code keep little state these properties are about, and together they
are most of the tree's lines.

## Plan

1. `Hooks`: the decision held for a call between its hook and its gate,
   concurrent calls, the drain of detached hooks.
2. `Terminals`: names reserved, opened and closed by several callers.
3. `Settlement`: a subagent's end against its parent's wait, with the depth
   budget.
4. `Effects`: undo stacks, services and scopes over the registry's boot.
5. The screens' picker and pager: windows, cursors and what lands while the
   reader is elsewhere.
