# Whiparc: a verification project

Whiparc is a visual infrastructure tool: users draw a canvas of cloud targets,
Terraform, Ansible and Kubernetes nodes; a Next.js front end (`src/apps/web`)
edits the canvas with other people in real time and compiles it into files; a Go
API (`src/apps/api`) stores it, runs the files and streams their output; a CLI
(`src/apps/cli`) pairs a local sandbox agent with a project. This directory holds
TLA+ models of its concurrent and stateful parts, the TLC runs that check them,
and theorems about them proved with TLAPS.

## 1. Inventory

| component | state | operations | hard behaviour | what makes it correct |
|---|---|---|---|---|
| Run streaming (`main.go`) | `pipeline_runs` row, `trackers`, `RunTracker`, `logChan` | deploy/plan/destroy, WebSocket watch, GET run, cleanup timer | five kinds of goroutine interleave; crash; failing UPDATE | a watcher hears every chunk and the outcome; what it is told is committed; the run ends |
| Runner (`runner/runner.go`) | the run directory, child processes, node statuses | `RunPipeline`, `spawnCommand` | pipes closed under readers; runs sharing a directory; phases failing midway | no line lost silently; verdict = exit; no node left running; own files only |
| Canvas (`projects.go`, `snapshots.go`) | `canvas_states`, `canvas_snapshots` | load, save, import, revert, snapshot | version checked and overwritten in two statements | no update lost unnoticed |
| Workspace tab (`workspace/page.tsx`) | nodes/edges, version, save status, timer | autosave, sync, reload | effect cleanup cancels timers; stale version | edits are saved or refused visibly; what is saved holds them |
| Sync room (`main.go`) | `rooms`, clients | join, relay, leave | answers to `request_sync` in any order, roles | peers show the same canvas; no echo |
| Canvas store and runs of the page (`useCanvasStore.ts`, `page.tsx`) | nodes, edges, selection, lock, statuses, socket | add, connect, delete, select, deploy, plan, destroy, leave | answers and socket messages after the page is left or another run started | the page is about one run; the canvas is locked while it runs |
| Canvas compiler (`bundleGenerator.ts`, `exportYaml.ts`) and catalog, Inspector (`page.tsx`) | none; the canvas | canvas to main.tf, hosts.ini, playbook, manifests | the Inspector's fields and the compiler's are two lists; cycles | every address is declared, every edit reaches a file, tasks follow the connections |
| Connection look (`BlueprintEdge.tsx`, `EdgeInspector.tsx`) | an edge's stored colours | edit, reset, draw | legacy colours that look like choices | what the user chose wins |
| Tour (`ProductTour.tsx`, `tourPlacement.ts`) | step, measured boxes | next, back, skip, resize | targets that come and go | the card is in the window |
| Pages and dialogs (`apps/web/app`) | per panel a list, flags, dialogs | load, add, change, remove | answers out of order, dialogs closed under a request | buttons come back; the list is the server's |
| Emailed links (verify, invite, change, newsletter pages) | status, session store | use the link once | effects that run again, a session that changes | success, once told, stays |
| Teams, invites (`teams.go`, `entitlements.go`) | memberships, invites | invite, accept, revoke, roles | check outside the transaction | roles only as granted; plan limits |
| Identities, reset (`identities.go`, `oauth.go`, `password_reset.go`) | password, identities, tokens | link, unlink, reset | counted in one statement, deleted in another | nobody is locked out; old links are void |
| Rate limiter (`rate_limiter.go`) | token buckets | `Allow`, janitor | boundaries of time windows | a bounded burst |
| Agent pairing, deploy gates (`pairing.go`, `main.go`) | `paired_agents`, `agent_pairing_tokens` | register, pair, revoke, callback, gate | late callbacks, two queries | a run reaches the target its user meant |
| Billing (`billing.go`) | `teams.plan`, webhook events | webhook | reordered, repeated and overlapping deliveries | a live subscription is not replaced |
| Projects, accounts, templates, vault, importer, hydrator, mail, CLI, installers | rows, files | one guarded statement or none | – | see section 6 |

How they interact: a tab compiles the canvas (Blueprint, PlaybookOrder) and POSTs
it to the deploy handler (Workbench), which passes the gates (Agents), inserts a
`pipeline_runs` row and starts the pipeline goroutine (RunStream); that calls
`RunPipeline` (Pipeline), which runs each command with `spawnCommand`
(SpawnCommand) and reports log lines through `logChan` and node statuses through a
callback. Tabs of one project talk to each other through the sync room and to the
row through GET and PUT (Canvas). Every other page loads its list, sends its
requests and handles the answers the way Pages says; the server's side of those
with a race in them is in Team, SignIn, Agents and Billing.

## 2. Modules

| module | models | run |
|---|---|---|
| `RunStream` | one run in `main.go`; implements `RunRecord`, what the row promises | `run_*` |
| `SpawnCommand` | `spawnCommand` | `spawn_*` |
| `Pipeline` | `RunPipeline`, all runs in one directory | `pipe_*` |
| `Canvas` | row, tabs and sync room of one project | `canvas_*` |
| `Team` | roster, invites and seats of one team, and the accounts invited | `server_run`, twice |
| `SignIn` | the ways to sign in to one account | `server_run` |
| `RateLimiter` | the token buckets and the janitor | `server_run` |
| `Agents` | the sandbox agents of one project and the deploy gate | `server_run`, `agents_revoked` |
| `Billing` | the payment provider's webhook | `server_run` |
| `Blueprint` | node catalog, Inspector, and the compiler of main.tf, hosts.ini and manifests | `web_run` |
| `PlaybookOrder` | `getSortedNodes`, the order of the playbook's tasks | `web_run` |
| `Workbench` | canvas store, lock, and the page's runs | `web_run` |
| `Connector` | colour and width of a connection | `web_run` |
| `Tour` | the guided tour and the place of its card | `web_run` |
| `PageTables`, `Pages` | 31 panels, and how React takes them through time | `web_run` |
| `Links` | the four pages of emailed links, with the session | `web_run` |

`MC*` modules are the instances TLC runs, `*_proofs` modules hold the theorems,
`*Constants` modules the parameters of a module with their assumptions. `MCServer`
and `MCWeb` extend all the components they run, so that a property has one name in
its run and in its theorem; this is why those components say `SignInNext`,
`OrderInit`, `designVars` where a module with a run of its own says `Next`, `Init`,
`vars`. `M_...` definitions are mutants: each is the bug a slip in the line it mutates
would make, and breaks the property it is there for.

### RunStream

The variables are the row, the tracker (and whether `trackers` still holds it),
the pipeline goroutine's program counter, `logChan`, the log goroutine, the
WebSocket watchers and the callers of GET. Each critical section is one action;
a watcher's `handleWebSocket` is `Dial`, `LookUpTracker`, `Attach` (register,
catch-up log, node replay, under one lock) or `ServeRow`. Chunks are numbers in
the order in which they were emitted. `Crash` drops everything but the row.
`RunRecord` is the specification a user of the row has in mind: PENDING, RUNNING,
then one outcome with a log that is a part of what was emitted and never changes;
`RowIsRecord` is `RunStream => RunRecord` under the mapping in `RunStream`.

### SpawnCommand

The command, its two pipes as counters, the scanners, the goroutine that waits
and closes, and the caller. `cmd.Wait()` closing the pipes is what makes the
model interesting: a scanner finds its pipe closed with lines in it. A send on
the closed `outputChan` is a panic nothing recovers, and ends the process.

### Pipeline

Per run: parameters, program counter, node statuses, relay channel; shared: the
run directory as the last writer of each file. `LeftBehind` is what earlier runs
may have left. `Place` gives an Ansible node its position in the playbook. The
command is three events: progress lines, exit well, exit badly.

### Canvas

A canvas is the set of the edits it holds. The row's requests are one action per
SQL statement (`CheckSave`, `CommitSave`; `ReadImport`, `CommitImport`,
`AnnounceImport`; `ReadRevert`, `CommitRevert`). The React effect of
`page.tsx:3420` has no action of its own: it runs within the event that changed
what it depends on, and the operators `Incoming`, `Answered` and `Edited` are the
three things it does. It runs there because `nodes`, `edges`, `version` and
`saveStatus` all come from the zustand store, whose changes React renders
synchronously, effects and their cleanup with them: no timer fires between such a
change and the cleanup. `tab.timer` is the closure the effect leaves behind, the
canvas and the version of the render that armed it, and `StartSave` sends that and
not what the tab shows by then. `Edited` is where an edit that turns the status into
"saving" clears its own timer, since the status is among the effect's
dependencies.

### Team

The variables are the tables (`email`, `verified`, `role`, `plan`, `invite`), the
clock as the set of invites that are `late`, one record per accept under way, and
three histories for the properties: the addresses an account has had, those whose
mail its user has read (an invite's link and a confirmation's are mailed to the
address), and the size of the team when it was downgraded. `handleAcceptInvite`
is one action per statement: `FindInvite`, `MatchAccount`, `LookUpMember`,
`ExpireInvite`, `ReadPlan`, `CountMembers`, `Join` (the transaction), and `Fail`
for each that answers with an error. Queries whose errors the code swallows
answer as they do then: a failed lookup finds no member, a failed plan is FREE, a
failed count is 0 (`Misread`).

### SignIn, RateLimiter, Agents, Billing

`SignIn` has one action per statement of unlinking (`AskPassword`, `CountWaysIn`,
`Unlink`), of sending a link (`TakeBack`, whose UPDATE may fail and is then only
logged, `InsertLink`) and of using one (`ReadLink`, `SetPassword`); linking is decided by the tables' constraints and is
one action. `RateLimiter`'s actions are the critical sections of `Allow` (first
request, allowed, refused) and the janitor's sweep; an observer that starts to
count at any moment stands for "within a window". In `Agents`, `Gate` and
`Resolve` are the two queries of a deploy, `Revoke`, `RevokeTokens` and
`Disconnect` the three steps of a revoke; the gateway (`Drop`, `Lose`) and the
order in which its callbacks arrive are external. `Billing` is one webhook
delivery, one action per statement, two at a time; `claim` is what the checkout
told the provider.

### Blueprint, PlaybookOrder

A node's id is its catalog entry and a number, for the digits of the clock the code
appends: the least number that no node has and no text still names. `Blueprint`
translates the catalog, what a click and a drop store, the fields of
the Inspector and the compiler. A file is a set of blocks: the address others name
a block by, the addresses it names, the fields it spells out; of a text only what
attaches a block to another matters. `PlaybookOrder` is the sort as it runs: one
action per turn of its three loops, over the connections as the list they are: an
imported, loaded or received canvas may hold one twice, and each copy is counted.

### Workbench, Connector, Tour

`Workbench` has one action per handler of the page and per event of its socket. A
click closes the socket of the run before (`Hang`), but its `onclose` stays attached
and writes its line when the close event comes (`closing`, `SocketClosed`): a line of
the console carries its run and whether it is such a closing line.
React shows a status first and locks the store in an effect of its own
(`StoreLock`). `Connector` is `updateEdgeData` with what `BlueprintEdge` draws.
`Tour` keeps what was measured last apart from where things are now; a target that
is shown shows at least partly in the window (`InView`), because `ProductTour` calls
`scrollIntoView` on it before it measures.

### Pages, Links

A panel's loads, handlers and controls are one record each in `PageTables`, taken
from that panel's component; `Pages` gives them their meaning once: effects that
run again, cancelled and uncancelled loads, flags that disable buttons, dialogs
that close under a request, timers. `Links` is written out, since its pages depend
on the session store, which sign-ins and late profile answers change under them.

## 3. Runs

| run | bounds | shows |
|---|---|---|
| `run_watch` | 2 watchers, 2 chunks, channel of 1 | StreamUnbroken, ToldOutcomeIsCommitted, StatusMovesForward; RunEnds, WatcherLearnsOutcome, LoggerDrains under fairness |
| `run_crash` | 1 watcher, 1 reader, 1 node status, 2 chunks, 1 crash, failing UPDATEs | OutcomeReadHasLog, NodeViewCurrent, RowIsRecord |
| `run_tail` | 1 watcher, 2 chunks | *violated*: the stored log misses the tail |
| `spawn_run` | 2 streams, 2 lines each, pipe of 1, long lines | VerdictIsExit, LossIsReported; CommandEnds for commands without long lines |
| `spawn_loss` | 2 streams, 2 lines each | *violated*: printed lines are not streamed |
| `pipe_run` | 1 run, 8 nodes of every tech, every bundle, every set of left files, 3 progress lines | SuccessIsComplete, NoNodeLeftRunning, OneTaskAtATime, PhasesInOrder, RunEnds |
| `pipe_dir` | 2 runs of 2 projects | *violated*: a destroy run works on another project's files |
| `canvas_run` | 2 tabs, one ready and one loading, every assignment of roles, 2 changes (edits, imports, reverts) | FollowersInSync, SavesWhatIsShown, QuietsDown |
| `canvas_autosave` | 2 tabs, 1 edit | *violated*: a lone edit is never saved |
| `server_run` | see below | VerifiedIsProven, MembersWereInvited, OverrunIsSmall (Team); AWayInRemains, LinksAreSuperseded (SignIn); BurstsAreBounded (RateLimiter); NoSilentFallThrough (Agents); NeverRebound (Billing) |
| `agents_revoked` | 2 agents, 1 deploy | *violated*: a deploy whose latest agent is revoked uses an older one |
| `web_run` | see below | BundleIsClosed, EditReachesFiles (Blueprint); TasksFollowEdges, EveryNodeOnce (PlaybookOrder); CanvasIsWhole, OneRunAtATime, LockHolds (Workbench); DrawnAsChosen (Connector); CardIsPlaced (Tour); ButtonsComeBack, ListsAgree (Pages); SuccessIsShown (Links) |

`server_run` and `web_run` check several components, one at a time: each initial
state names its component in `part`, and only that component moves; the variables of
the others rest in one of their initial states. `Seats`, a second instance of Team
with other constants, has variables of its own (`s1` to `s10`). Nothing of one
component is composed with another there: the components named touch different rows,
and the point of the runs is each one's own interleavings. Products of them would
multiply states and show nothing more.

Why the bounds are enough.

- *Runs.* Two watchers are one in the stream and one about to be; a channel of one
  place is full as soon as the log goroutine is a chunk behind; an at-rest log of
  one chunk is truncated by the second. Two lines and a pipe of one line give a
  scanner one line in hand and one in the pipe when the pipe is closed. Eight
  nodes are two where the order matters (Terraform, Ansible) and one of each other
  kind, so that every phase can be absent, alone or mixed.
- *Canvas.* One tab has loaded and joined before the first edit and the other's
  load and join interleave with everything; two edits are the least that arm the
  autosave timer, and one of a peer or an import is the least that must clear it.
  Both safety properties are proved for any number of tabs and edits.
- *Team.* One accept, and whatever the owner, the clock, the payment provider or
  the account can undo between its statements; three accounts, one with an address
  to move to, two invites. As `Seats`, two accepts race for the seats of a team of
  two that is full at two, with two more accounts, so that a team too large by one
  more seat would be seen; no invite lapses there, since a lapse only takes an
  accept away. Users start at one fixed assignment of addresses: the model treats
  all addresses alike.
- *SignIn, Agents, Billing.* Two callers and two providers (google and github are
  all there are), three links, so that two usable ones can be left by a third
  request, or by a second whose UPDATE failed; two agents with registration stamps that may tie, one deploy and one
  callback on its way; two teams, two subscriptions, two deliveries at a time.
- *RateLimiter.* Capacity 2, rate 2, window 3, janitor every 4, 12 ticks: four
  windows, which a sweep meets at every offset.
- *Blueprint.* Each of the catalog's entries alone, and canvases of up to three
  nodes with one connection: of an instance, a security group, a VPC and a subnet;
  of a database and a security group; or of the two targets and a bucket, so that
  there is a target alone, two of one cloud and two clouds, each with a Terraform
  node and without; one edit of any field, or of any that names or attaches on
  canvases of three nodes beside the targets.
- *PlaybookOrder.* Three nodes, every list of three connections, also to an id no
  node has: cycles of every length up to three, a cycle of two with a node before
  or after it, a connection repeated once or twice, before or after another into
  the same node.
- *Workbench.* Two nodes, two runs and two visits: a late answer, message or close
  event of the first run meets the second, on the same page or the next.
- *Connector, Tour.* Three widths, a legacy colour that is a swatch and one that
  is none; two windows and boxes that leave every side, one side or no side free.
- *Pages, Links.* Two items, two requests in flight, one change of what the list
  depends on; two requests and two loads of a link's page.

Symmetry is used for node ids and items (`Ids`), and for new accounts, invites and
callers, in the two runs without liveness properties. Every bound is a named
constant.

Fairness. Each goroutine, browser event and request that has something to do is
weakly fair: Go's scheduler, the event loop and HTTP calls that return justify
it. Commands end (`Exit`), since `CommandEnds` and `RunEnds` say nothing of one
that does not. No fairness is assumed of users (edits, runs started, watchers
leaving), crashes, failing UPDATEs or broken connections. `CHECK_DEADLOCK FALSE`
since each model describes one run, command, request or session, which stops.
`server_run` and `web_run` have safety properties only and need no fairness;
`ButtonsComeBack` is stated as "something in flight brings it back".

## 4. Proofs

| module | theorems | from |
|---|---|---|
| `RunStream_proofs` | `TypeCorrect`; `HeardUnbroken`: `[]StreamUnbroken`; `ToldCommitted`: `[]ToldOutcomeIsCommitted`; `NodesCurrent`: `[]NodeViewCurrent`; `OutcomeHasLog`: `[]OutcomeReadHasLog`; `StatusForward`: `StatusMovesForward`; `RowImplementsRecord`: `RowIsRecord` (the refinement) | `StreamAssumption` |
| `SpawnCommand_proofs` | `TypeCorrect`; `VerdictCorrect`: `[]VerdictIsExit`; `LossReported`: `[]LossIsReported` | `SpawnAssumption` |
| `Pipeline_proofs` | `Typing`; `SuccessCompletes`: `[]SuccessIsComplete`; `EndsAtRest`: `[]NoNodeLeftRunning`; `OnePhaseAfterTheOther`: `PhasesInOrder`; `OneAfterTheOther`: `[]OneTaskAtATime` | `PipelineAssumption` |
| `Canvas_proofs` | `Typing`; `ShownIsSaved`: `SavesWhatIsShown`; `FollowersCatchUp`: `[]FollowersInSync` | `CanvasAssumption` |
| `Team_proofs` | `TypeCorrect`; `SeatsBounded`: `[]OverrunIsBounded`; `VerifiedProven`: `[]VerifiedIsProven`; `InvitedOnly`: `MembersWereInvited` | `TeamAssumption` |
| `Server_proofs` | `SignInTyping`; `WaysInRemain`: `[]AWayInRemains`; `LinksSuperseded`: `[]LinksAreSuperseded` | `SignInAssumption` |
| | `LimiterTyping`; `BurstsBounded`: `[]BurstsAreBounded`; `NothingForgotten`: `NothingIsForgotten` | `LimiterAssumption` |
| | `AgentsTyped`; `AgentsAreHeeded`: `[]NoSilentFallThrough` | `AgentsAssumption` |
| | `BillingTyped`; `LiveIsKept`: `NeverRebound` | `BillingAssumption` |
| | `SeatsOverrunIsSmall`: `[]OverrunIsSmall`, of `MCServer` | `TeamAssumption`, `SeatsAssumption`, `SignInAssumption` |
| `Workspace_proofs` | `OrderTyping`; `OrderFollowsEdges`: `[]TasksFollowEdges`; `OrderIsComplete`: `[]EveryNodeOnce` | `OrderAssumption` |
| | `Typing`; `RunsAreOne`: `[]OneRunAtATime`; `StoreIsLocked`; `CanvasStaysWhole`: `[]CanvasIsWhole`; `LockKeepsCanvas`: `LockHolds` | `WorkbenchAssumption` |
| | `WireTyped`; `LookFollowsChoice`: `[]DrawnAsChosen` | none |
| | `TourTyped`; `CardKeepsItsPlace`: `[]CardIsPlaced` | `TourAssumption` |
| `Web_proofs` | `LinksTyped`; `SuccessStays`: `[]SuccessIsShown` | `LinksAssumption` |
| | `PagesTyped`; `ButtonsDoComeBack`: `[]ButtonsComeBack`; `ListsDoAgree`: `[]ListsAgree` | `PagesAssumption` |
| | `DesignTyped`; `BundleIsAlwaysClosed`: `[]BundleIsClosed`; `EditsAreRead`: `[]EditReachesFiles` | `DesignAssumption` |

With these, every invariant and every action property of a passing run is a theorem.
Each is stated of its module's specification (`Spec => ...`) and holds for every
value of the constants that satisfies the assumption: any number of watchers,
readers, chunks, lines, crashes, tabs, edits, accepts, agents, deliveries, requests,
nodes and connections, any capacity, any limit. The assumptions say that bounds and
measures are numbers, that what stands for nothing is not one of the things, and what
is finite. The theorems but the typing ones go by an inductive invariant: a property
is seldom inductive, and what has to be added is where the argument lies.

- **RunStream.** `IInv` is the conjunction of the row's parts (`RowInv`,
  `StatusInv`), of what was told and read (`ToldInv`, `ReadInv`, `CapturedInv`),
  of the log (`LogInv`) and of what was heard (`HeardInv`). Chunks are numbers, and
  `LogInv` says that the tracker's log, the chunk the log goroutine has in hand and
  `logChan`, in this order, are the chunks emitted. `HeardInv` says how far a watcher
  may be behind that log: a watcher is registered and catches up under one lock,
  but a chunk is appended and broadcast under two, so a watcher registered in
  between has heard one chunk that will come again, and none registered earlier
  misses it. The refinement is a step simulation: `InsertRun` is RunRecord's
  accept, `MarkRowRunning` its start or a stutter (a failed UPDATE), `EmitLog` its
  produce, `CommitRow` its finish or a stutter, everything else a stutter.
- **SpawnCommand.** That the caller saw the exit status depends on `outputChan` being
  closed only by the goroutine that waited: `OrderInv` ties caller, waiter and
  command together in that order. `BooksInv` is the bookkeeping of each stream:
  sent is at most read, read at most printed, and a scanner that is done without a
  complaint has sent everything.
- **Pipeline.** `PlaceInv` says where in the sequence of phases a run is,
  `RelayInv` what is under way between a command and its relay, `RunningInv` which
  node may be shown running there, `TaskInv` that announced tasks name nodes at
  their places, and `DoneInv` that each phase passed without an error has its nodes
  complete. `OneTaskAtATime` needs `Places`: no two nodes have one position.
- **Canvas.** `TimerInv`: while a tab's timer runs, what its closure holds is what the
  tab shows, canvas and version, and its user's own latest edit is there; that is
  enough for `SavesWhatIsShown`, since nothing but the timer starts a save.
  `TimerStays` is what the events keep: each that changes one of them takes the timer
  along or arms a new one. `SyncInv` is about a lone editor: its newest change is the last change in
  its outbox, or in the follower's inbox, or is shown, and nobody in its audience
  has a request under way whose answer could undo it. The model hands a message to
  all others in one step, as the room does under its lock.
- **Team.** `OverrunIsBounded` says nothing of those who have passed the count and
  are not members yet, so it does not survive their joining. `SeatsInv` counts them
  with the members. `VerifiedIsProven` and `MembersWereInvited` share `AccountInv`:
  once the addresses were compared, the caller has had the invite's address, and
  has it still or has been verified for the next.
- **Seats.** `OverrunIsSmall` is about `Seats`, the second Team of `MCServer`, whose
  steps rest on variables of their own. `Proved` in `Server_proofs` is `Team_proofs`
  with the same substitutions, so `SeatsInv` and its invariance are cited and only
  the assumptions, the first state and the steps of the other parts are left to show.
- **Account.** `WaysInv` says how many ways in are left while callers that have
  counted have yet to delete; `LinksInv` that usable links, but for those a failed
  UPDATE has spared, and requests that are about to insert one are together at most
  `senders`. For the limiter, `CountsInv`
  bounds what was allowed and what the bucket still holds, together, by the
  capacity as long as the bucket was last refilled before the observer began and
  by the capacity and one refill from then on: within less than a window there is
  no third case. `BucketsInv` (what `Allow` leaves is
  below the capacity) is why the janitor, which asks for a full bucket, never drops
  one.
- **Agents.** `GateIsTrue`: as long as no status changes between its two queries (`steady`),
  what a request has seen at the gate is the status an agent still has, or "none"; so
  one that is served by the host passed over no agent that was usable.
- **Billing.** `BoundIsFree`: a delivery that has its team found it without a live
  subscription or with its own, and, while no two deliveries overlapped
  (`overlapped`), no other subscription is on its way there.
- **PlaybookOrder.** The counts are those of the connections that still wait
  (`CountsWaiting`), a node that waits for none is in the queue or taken, and no other
  is (`FreeIsQueued`, `QueueIsFree`, `TakenIsFree`), so the predecessors of a taken
  node stand before it (`TakenInOrder`) and what is left is held back (`RestIsHeld`).
- **Workbench.** A call under way is the last run's (`CallIsPending`), a socket belongs to
  the last run and says RUNNING only as its first word (`StreamIsTheLast`). So the
  page becomes busy only by a click, which locks the store itself: the effect's lock
  is never late, only its lifting is (`LockReachesStore`). A socket that was closed
  can write nothing but its closing line, so every other line is the last run's.
- **Connector.** `ChoiceIsStored`: what the user chose last is stored as an override, or
  is what is drawn without one. A legacy colour is the case that could break it.
- **Tour.** `MeasuredInView`: what was measured had its box in the window it was measured
  in. Each side `placePopover` tries has room for the card then; the clamped corner
  is left for a box that leaves none.
- **Links.** `UsedOnce`: one request at most uses the link for as long as the page is
  there, none is out once the server's word has come, and from then on `status` is
  success.
- **Pages.** `TablesAreSound` goes through `PageTables` once and shows what every panel has
  in common: a handler lowers the flag it raises whatever the answer (`SoundHandler`),
  a failure starts nothing, what changes the list brings it up to date, and a dialog
  that takes a request with it takes its flags too. Everything after that is about any
  panel. `ButtonsInv`: each flag that is up has its request in flight. `ListsInv`, for
  `calm` users: in flight is one request, over a list that is up to date, or nothing
  but loads, and those that will be heard ask for what the list depends on now.
- **Blueprint.** `DesignInv`: no two nodes have one id, a connection has both its ends on
  the canvas, and what a field holds is among what the Inspector offers, a subnet's
  typed address that of a VPC. `DesignInv => BundleIsClosed` then goes along the files:
  whatever is looked up by an id is there (`SourceIsOnCanvas`), the first of a kind is
  one of that kind (`FirstOfKind`), what a node is attached to is a node
  (`AttachedToNodes`), and each node has its block whatever its kind
  (`NodeIsDeclared`). `DesignInv => EditReachesFiles` compares, entry by entry of the
  catalog, the fields of the Inspector with those the compiler spells out.

A new request of Links and Pages takes the least free number, and `First` of Blueprint the
least of a set of places. That there is one needs an induction, which is borrowed from
the library: the strict subsets of a finite set are well-founded (`LeastOf`).

Only model-checked is liveness: `RunEnds` (RunStream and Pipeline),
`WatcherLearnsOutcome`, `LoggerDrains`, `CommandEnds`, `QuietsDown`. TLAPS has no rule for
fairness. `NothingIsForgotten`, `StoreIsLocked` and the type invariants are theorems and
are in no cfg. `OverrunIsBounded` is checked in the form it has for `Seats`.

## 5. What the models show beyond the runs

Read off the models and the code they translate, and given no run: each is a
plain consequence of the lines, not a question of interleavings TLC has to
search for.

Server:

- `handleUpdateCanvasState` compares the version in one statement and overwrites
  it in another with no version in its WHERE clause: two saves with one version
  can both succeed, and a slow one puts the version back (`CheckSave`, `CommitSave`).
- A watcher that attaches between a chunk's append and its broadcast hears the
  chunk twice; `StreamUnbroken` says no chunk is missing.
- A run's row stays PENDING or RUNNING after a crash: nothing sweeps them.
- A scanner that meets a line longer than `bufio.MaxScanTokenSize` stops reading;
  a command that goes on printing then blocks on a full pipe and never exits, so
  `CommandEnds` is stated for commands without such lines.
- Two accepts may both count the last free seat: a free team then has more than
  the "at most 3 members" of `entitlements.go:19`, by fewer than the accepts at a
  time. A count that fails lets its accept through.
- An invite that is revoked after an accept has read it still lets the person in:
  `teams.go:439` calls the revoke "permanent, immediate". An accept that finds its
  invite expired overwrites an ACCEPTED another one wrote, and the other way round.
- Two unlinks at a time may leave no way to sign in, which `identities.go:127` means
  to rule out; two overlapping requests for a link leave two links unused; a link is
  read outside the transaction that uses it up. `AWayInRemains` and
  `LinksAreSuperseded` say exactly how far this goes.
- When the UPDATE that takes back the older links fails, the error is logged and the
  new link is inserted (`password_reset.go:43-45`): two usable links are left by
  requests one after the other, which the comment above it ("superseding a prior
  unused token avoids a stale earlier email link staying valid alongside a new one",
  `password_reset.go:41-42`) means to rule out. `spared` names those links.
- A status callback that comes after a revoke sets the agent ACTIVE again; an agent
  registered with a token after a revoke is usable; two agents registered in one
  second tie for "latest"; the gate and the resolving of the agent are two queries.
- Two overlapping deliveries for different subscriptions of a team may put one in
  place of a live other (`billing.go:296` says "never rebound"); states are
  written in the order of delivery; refused events are not recorded, so they are
  tried again.
- A bucket allows its capacity and one refill within a window, where comments speak
  of "5 signups per hour per IP"; the janitor ("Background cleanup of idle keys")
  never drops a bucket (`NothingForgotten`).
- What blocks the deletion of an account is checked before its transaction
  (`account_delete.go:67`); two runs that succeed together take one snapshot number
  (`snapshots.go:46`).

Workspace:

- After a 409 the tab keeps its version, and nothing but reloading the page gets
  another; an import broadcasts the merged canvas without its version, so the next
  save of every open tab conflicts (`EndSave`, `AnnounceImport`).
- An answer that arrives while the timer runs clears it: the tab says "Saved" with
  an edit that is not saved (`Answered`).
- With two editors an answer to `request_sync` sent before an edit arrives after it
  and takes it off the asking tab; a revert is not broadcast, so the tab that
  reverted and its peers differ until the next edit.
- The header counts CLEANUP as running, the page's lock does not (`page.tsx:3126`):
  the canvas can be edited while a run cleans up. A stream that breaks leaves the
  page RUNNING and the canvas locked. Leaving the page while the POST is under way
  opens a socket that nobody closes.
- The socket of the run before is closed by the next click, after the console is
  cleared, and its `onclose` is never detached (`page.tsx:3643`, `:3740`, `:3826`): its
  "[CLIENT] Log stream closed" appears among the new run's lines. `OneRunAtATime` lets
  an earlier run say that and nothing else.
- A viewer can delete nodes and connections on their own screen; a connection's
  label and colour stay editable while the canvas is locked; the history drawer
  reverts while a run is on.
- The store keeps its canvas when the page is left, until the next project's load
  replaces it; the pages that export or load late can put one project's canvas over
  another's.
- An answer to the validation of a custom node marks the code as it is then, not as
  it was sent, valid (`CustomNodeModal.tsx:131-169`); the server does not validate it
  again.

Compiler and Inspector:

- A subnet without a VPC names `data.aws_vpc.default`, which is never declared; a
  default subnet's `vpcId` text ignores a wire to a VPC of another name; a VM added
  with a click stores the literal `subnet-0123456789abcdef0`, which outweighs a
  wired subnet, a VM dropped does not.
- `hosts.ini` names `google_compute_instance.web_server`, the file declares
  `vm_instance`; key pairs and default names repeat with two VMs; `gcpNetwork` is
  never compiled; a cleared subnet name is `app_subnet` in one place and
  `app_subnet_1a` in another.
- A firewall with `sshEnabled` false still gets its rule for port 22; its port list is
  ignored once `httpPort` or `httpsPort` is stored, and ports that begin with 22
  suppress the SSH rule.
- `ansibleHost` and `ansibleUser` are read from the first task only; the service
  selector is always `app-deploy`; a cleared `data.port` falls back to the stored
  one; the Inspector shows t3.micro and 50 GB where the compiler's default is
  t3.medium; the JSON export is a fixed text; ids of nodes can repeat (four digits
  of the clock).

- A target's fields reach main.tf only if the canvas has a Terraform node
  (`bundleGenerator.ts:949`, `:958`), and only the first target of each cloud is read
  (`.find`, `:151`, `:211`, `:266`): an edit of a target alone with playbooks or
  manifests, or of a second one of its cloud, changes no file.

`BundleIsClosed` and `EditReachesFiles` except the blocks and fields concerned by
name (`SubnetsHaveVpc`, `HasGcp`, `Deaf`, and for the targets `IdleTarget` in it).

Pages:

- The tour measures again only when a box moves: after a resize that moves none the
  card keeps the old window's place (`follow`). The replay's 80 ms timer starts with
  what was current when it was set.
- Projects keeps one `busyProjectId`, and its handlers reload with the toggle they
  captured, so a late one overwrites the toggled list, which the comment of
  `useAbortableEffect` (issue #101) means to rule out. The dashboard's join timer
  closes a dialog reopened for another project; its submit has no flag; failed
  reviews are silent. TeamPage's refetches and Export's answer race likewise. A retry
  of an import from Terraform creates a second project.
- Session: a late `fetchMe` after a logout or another login, and a late profile or
  avatar answer, put the earlier user back; a 401 of an earlier token ends the new
  session; a late `fetchMe` takes back `dismissOnboarding` and `completeTour`.
  `verify-email-change` and the OAuth callback have no guard against an effect that
  runs twice.
- The command palette's ArrowDown on an empty list sets its index to -1. The page of
  one run does not cancel its load and does not reconnect.

## 6. Not modelled

Within the modelled components: sockets that accept nothing (a stalled client
blocks `WriteJSON` under the tracker's lock; how long is up to the operating
system), two read loops that write to one WebSocket, leaving the page with a save
pending, loads that fail, presence lists, cursors, edit locks, the rows of
snapshots with their numbers, file contents and their wording, and where
`PROJECT.json` says *partly*, what its note says.

Components without a module, and why:

- *Projects, members, join requests; accounts; templates*: one guarded statement or
  one transaction per operation, with no second actor a step waits for. What the
  pages do with the answers is in Pages and Links.
- *Email change, account deletion, link tickets*: a change of address is an action of
  Team; a deletion is one transaction after checks.
- *Importer, hydrator, vault, drivers and migrations, mail, avatars, releases,
  activity, node validation*: parsing, text, encryption and I/O without state whose
  order matters. Importer's result is one edit in Canvas.
- *CLI and installers*: they run on the user's machine; the API's side of the agent
  is in Agents.
- *Marketing, documentation and run pages, menus, themes*: text and style; the page
  of one run shows what RunStream promises a watcher.
- Components nothing renders: `RightPanel`, `Sidebar`, `ServerNode`,
  `NodeConfigPanel`, `NodeSettingsModal`, and `CredentialManagerModal`'s default
  export.

## 7. Reading order

`RunStream` with `RunRecord` is the heart of the system and the best place to
start; then `SpawnCommand` and `Pipeline` below it, `Workbench` and `Canvas` above
it, `Team` for the server's tables, `Blueprint` for what a canvas means. A change to
a modelled function changes its definition (`map` in `PROJECT.json` names the lines),
the runs that fire it and the proof steps named after it. What would repay further
work is a model of the CLI's reconnect loop together with `Agents`, and of the
OAuth callback together with `Links`.
