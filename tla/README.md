# cc-candybar in TLA+

cc-candybar draws the status bar of Claude Code. A short-lived client (a Node
or a native one) asks a long-lived daemon of the same user for a frame, over a
Unix socket; the daemon keeps what frames are drawn from (sources, caches,
session settings) and performs what clicks on the bar ask for. Almost nothing
in it is hard because of an algorithm. It is hard because of order: several
clients and daemons over a few shared files with no lock between them, and,
inside the daemon, one event loop whose timers, socket callbacks, child
processes and disk writes land in any order.

This directory models those parts, checks them on small instances with TLC and
proves the most important invariants for every instance with TLAPS.

- [Inventory](#inventory): the system's parts, their state, how they interact
- [Plan](#plan): what is modelled, in which order, and what is left
- [Modules](#modules): how each module's state and actions correspond to the code
- [Runs](#runs): what each run checks, its bounds, its fairness
- [Proofs](#proofs)
- [What the models showed of the code](#what-the-models-showed-of-the-code)
- [What is not modelled](#what-is-not-modelled)

`PROJECT.json` holds the same facts for a machine: the map from every
definition to the lines it translates, the runs, the mutants that show each
property can fail, the hazards and the theorems. Paths below are under the
repository.

    tlc -workers 2 -config Connection.cfg Connection     # one run
    tlapm ConnectionProofs.tla                           # one proof module

## Inventory

Modelled parts first. *Hard* names what a test hardly reaches; *correct* what
has to hold.

### One accepted connection
`src/daemon/connection-state.ts` (the state table), `connection.ts` (the socket).
**State:** the connection's state (awaiting a frame, dispatching, timed out,
streaming, held open, answered, closed, and what each carries), its backstop
timer, the answer being flushed, the exit a reply asks for; the daemon's
in-flight and timed-out counts. **Operations:** accept, a frame or garbage
read, the backstop firing, the handler replying, throwing, subscribing or
holding work, the held work settling, the flush's end, the peer leaving.
**Talks to:** the request handlers, the frame feed (a subscriber handed over),
the session recorder (held work), the process exit. **Hard:** a reply, the
backstop, a throw and a close race for one socket, and an exit rides on one of
the answers. **Correct:** one answer each, exact counts, no orphan timer or
subscriber, no exit lost or performed for a client told TIMEOUT.

### Keyed sources
`src/utils/keyed-source.ts`, `holds.ts`, `period.ts`.
**State:** one entry per key (an outcome or pending, its holders, the read
out, whether it changed meanwhile, outstanding supersedes, the period's
timer), in least-recently-touched order. **Operations:** declare and release a
hold, change, supersede and resume, a period's tick, a read landing, close.
**Talks to:** every source of a frame (git, files, commands), file watches,
runs. **Hard:** a read that was begun before a change lands after it; holders
return while a read is out; eviction. **Correct:** a value shown never goes
back in time, never predates a supersede, and is at last the newest.

### Socket ownership
`src/daemon/server.ts` (bind, arbitrate, publish), `socket-lease.ts`,
`process-fingerprint.ts`, `socket-ownership.ts`.
**State:** the socket path's inode, the lease file, each daemon's listener and
the inode it took for its own; the kernel's process table. **Operations:**
bind, read a lease, probe and signal its owner, unlink, bind again, publish
the lease, check ownership every few seconds, close. **Talks to:** other
daemons, only through those two files and `ps`. **Hard:** every step is a
system call of its own, pids are reused, a daemon may be killed anywhere.
**Correct:** a live owner is not reclaimed from, at most one daemon believes
it owns the socket, the others drain, and a lone daemon ends up serving.

### Spawn gate
`src/daemon/acquire.ts`, mirrored by `rust-client/src/launch.rs`.
**State:** `spawn.lock`, `spawn.cooldown` (their mtimes), `spawn.backoff`.
**Operations:** every client that misses the daemon kicks: take the lock,
judge and reclaim a stale one, judge the cooldown, record, spawn, release; a
daemon that binds resets the backoff. **Hard:** the same three files from any
number of processes that may die or whose clock may be set back, and writes and unlinks
that fail and are swallowed. **Correct:** attempts stay a cooldown apart whatever
let a kick past the lock, a missing daemon is spawned in the end.

### Session state and its file
`src/daemon/session-state.ts`, `session-state-file.ts`.
**State:** the session's picks in memory; pending state, debounce, the write
under way, its staged file, the generation, the file. **Operations:** save,
the debounced write's steps on the thread pool, the synchronous flush at
close, retry, restart. **Hard:** the flush lands beside a write that is under
way; the disk refuses any step; a crash anywhere. **Correct:** nothing saved
is forgotten while the daemon lives, and the disk never goes back.

### Settings history
`src/daemon/settings-history.ts` over the picks and config files.
**State:** per session a stack of steps, a redo stack and, while edit mode is
open, a savepoint with its net change and the steps undone below it; three
bounds. **Operations:** a click's commit, undo, redo, cancel, eviction,
hydration. **Talks to:** the session store, the config file store (a turn reads the
files, then writes them, with no compare in between), hand edits it never sees.
**Hard:** long sequences of undo and clicks around a savepoint, other writers of
the same files, between a turn's read and its write too, a save refused half way.
**Correct:** the net change is the difference, cancel restores, an undo is refused
only for what something else changed.

### Effects and lane setups
`src/daemon/apply.ts`, `journal-turns.ts`, `src/utils/keyed-serial-queue.ts`,
`lane-setup.ts`.
**State:** the places taken in each order (a session's launches, a pane's
typing, a lane's setups, the gathers); what each session is owed; its latest
request. **Operations:** a click's or a request's turn describes effects,
which take their places in that call; each runs once its place and its event's
earlier effects let it; a setup takes its pane's place late, from inside its
lane's. **Hard:** places waiting on places, sessions that move while they
wait. **Correct:** no circle of waits, one hand at a time, a lane ends where
its switch is, no Claude Code is restarted for nothing.

### Git cache
`src/daemon/cache/git.ts`, `src/utils/trailing-edge.ts`, `limiter.ts`.
**State:** per repository a value per option set with whether it is missed, who
holds what, the pass under way and whether another follows, the remote, the PR's
reading, its key (a branch and a remote), the lookup shared, those out, the
answers kept, two timers. **Operations:** hold, release, a read's answer, a
pass's landing, a watch's report, two periods' ticks, a lookup's answer, drop,
close. **Talks to:** every frame's git segments, the repository's watch, `git`
and the forge's command. **Hard:** a branch switched while a pass, a lookup and a
hold are all under way. **Correct:** what is reported is read, no branch's value
stands beside another's PR, nobody waits for a PR nothing will answer.

### Update act
`src/daemon/update-act.ts`, `update-notice.ts`, `src/proc/launch.ts` (the gated
job). **State:** numbered directories shared by every daemon, each with a record,
a verdict and an end; the jobs' process groups; what a daemon's reader knows of
the newest act. **Operations:** launch a gated job, stake the next number by
rename, list again, open the gate or withdraw, prune the older, read and judge,
end an act past its budget. **Talks to:** other daemons, through those
directories, `ps` and `kill(-pid, 0)`. **Hard:** a daemon stalled between any two
calls, pids given again, a reboot. **Correct:** one program at a time writes the
bundle, and the facts a reader keeps of the newest act are true.

### Link ids
`src/daemon/link-id-allocator.ts`, `src/tmux-status/link-ids.ts`,
`src/daemon/lane-frames.ts`. **State:** a count on disk, the block reserved, the
next id or a fault and its retry; a table per line of which link has which id.
**Operations:** reserve, retry, close; a frame begun, each of its links drawn,
the frame ended, a line left. **Hard:** a restart or an eviction between an id's
drawing and its click; a count lowered by hand; the last block. **Correct:** a row
still on a screen opens what it shows, and a fault clears by itself.

### Frame feeds
`src/daemon/frame-feed.ts`, `lane-handoff.ts`, `pane-visibility.ts`.
**State:** per session the followers by lane, one timer, the frame rendering or
going out, when the last was drawn, what each lane was sent. **Operations:**
subscribe, leave, wake, fire, render, push to each follower. **Talks to:**
connections (their subscribers), tmux's panes, every source's changes. **Hard:**
wakes, leaves and toggles from inside a frame's own render and push.
**Correct:** a timer only while followed, frames apart, every follower sees the
last frame, every change is drawn.

### File watching
`src/daemon/cache/watchers.ts`, `file-events.ts`, `src/utils/watch-target.ts`,
`src/var-system/source-runs.ts`. **State:** one watch per directory with who
listens, a debounce window per slot, the probe under way and what the probes say,
what each path read last and the fault it shows. **Operations:** acquire, follow,
release, hear, error, open again, judge each period; probe. **Talks to:** the OS's
watches; the sources whose files they are. **Hard:** folders removed, made and
replaced under a watch; an OS that refuses, ends or stops delivering. **Correct:**
a change not read is owed a read, a fault shown is one the watch has, and each
change is read at last.

### The other parts

| Part | State and operations | Hard, and correct when |
| --- | --- | --- |
| Menu idle clock (`menu-idle.ts`) | a close timer per session, derived from three facts; settle, close | nothing races it (see [What is not modelled](#what-is-not-modelled)) |
| Fork-bomb breaker (`fork-bomb-breaker.ts`) | a registry directory; join, sweep, count | no lock: the ceiling is soft by design |
| Runs (`runs.ts`) | what each run superseded | resumed once, however the run ends |
| Process launcher (`src/proc`) | children, their groups, timeouts, stream bounds | timeout, exit and stream end in any order |
| tmux status lines (`tmux-status.ts`) | the options laid out per tmux server | read-then-set against the user's own |
| Managed storage, usage scans, render cache | bounded memories over files and computeds | evictions; derived values |
| Verb table (`verbs/`) | every click's handler, a synchronous turn | see settings history and effects |
| Config editing (`json5-edit.ts`, `layout-ops.ts`), config loading | none: text in, text out | pure functions |
| Rendering, templates, themes, segments, the band | none that survives a frame | widths and colours |
| Backstops, watchdogs, recorder, daemon wiring, clients, doctor, install, demo, command line | one timer, one connection or one command each | comparisons and I/O |

Together: a **client** that misses the daemon **kicks** (spawn gate); a spawned
**daemon** arbitrates the **socket**; every **connection** runs one request or
subscription; a request or click takes one synchronous **turn** that writes the
**session store** and the **settings history** and describes **effects**; a
subscription follows its session's **feed**, whose frames read **keyed sources**
and the **git cache**, which the **file watches**, periods and runs keep current;
the links of a frame's rows are **link ids**; and an **update act** replaces the
bundle all of it runs from.

## Plan

The order is that of what would hurt most if it were wrong.

1. **Connection**: every request passes it. Proved: every safety invariant.
2. **KeyedSource**: every value a frame shows passes it. Proved: supersedes hide,
   the last change lands, nothing goes back.
3. **SocketOwnership**: the only arbiter between daemons. Proved: types, no
   reclaim from the living, one owner, only races take the path.
4. **SpawnKick**: the only arbiter between clients. Proved: types, attempts stay
   spaced.
5. **StateFile** implementing the abstract **SnapshotStore**. Proved: the
   invariants and the refinement.
6. **SettingsHistory**: the longest protocol sequences in the code. Proved: the net
   change tells the difference, a cancel gives the values back.
7. **Effects**: the daemon's one web of waits. Proved: no circle, lanes follow
   their switches, no needless setup.
8. **UpdateAct**: the one place two daemons may spoil a shared file. Proved: one
   writer, final facts.
9. **FrameFeed**: the code that is called from inside itself. Proved: timers,
   wakes, agreement, spacing.
10. **LinkIds**: what a click on an old row opens. Proved: one link per id, a
   frame keeps its links.
11. **FileWatch**: what keeps every source current. Proved: the unread is owed,
   faults are told.
12. **GitCache**: the most callers, timers and processes over one state. Proved:
   what is reported is read, no PR is waited for in vain, no value beside another
   branch's PR.

Left, in the order in which it would add most: a second repository in GitCache,
for the eviction under load; sinks that throw in FrameFeed; SettingsHistory's
`StepsGoOn`, once its stacks are sequences the prover can reason about.

Composition. SpawnKick's daemon (boots, binds, ends) is the abstraction of one
SocketOwnership daemon, and the place it starts a daemon is SocketOwnership's
`Start`. StateFile INSTANCEs SnapshotStore with its own memory and disk for the
store's. SettingsHistory's picks persist the
way StateFile proves they do: at a restart a pick is as it is or as an older
state had it (`TakeUp`). KeyedSource's `Supersede` and `Resume` are what an
effect of kind "run" does at its turn and at its end, and its `Heard` is what
FileWatch's paths tell. FrameFeed's followers are Connection's subscribers. The modules stay apart
because those links are narrow: one value handed over, nothing read back.

Abstract specifications. SnapshotStore is what the store is promised of its
file. For the keyed source, the socket and the history the promise is a property
of the detailed state itself (a version that never goes back, one owner, the
value edit mode found), so a separate abstract machine would restate it.

## Modules

A definition translates code; the auxiliary variables named here only observe,
and no guard reads them. Constants that bound a run (`Max…`) are in the guards
and are marked `bound` where they are declared.

**Connection** (`connection-state.ts`, `connection.ts`). `Cell` is the state
table, split as the code splits it into `ReadCell`, `DeadlineCell`, `ReplyCell`,
`CloseCell`; `Step` adds the effects every move implies (clearing the backstop,
leaving the in-flight count), and `Perform` does them, as the socket's `perform`
does. One action per callback: `Accept`, `ReadFrame`, `ReadGarbage`, `Backstop`,
`HandlerReplies`, `HandlerThrows`, `HandlerSubscribes`, `HandlerHolds`,
`HeldSettles`, `Flush`, `PeerLeaves`; and `FeedDrops`, what the feed's push
does to the stream of a lane switched off. A subscribe is taken, refused (its lane
is off: the refusal ends the socket, nothing is subscribed, and the connection
is `streaming` all the same) or throws; `refused` is who was told SWITCHED_OFF,
and which lanes are on is FrameFeed's. Two events raised in one callback (a frame
and its handler's synchronous throw) are `Then`. A frame's bytes and the write
buffer's newest-wins rule are abstracted: an answer is out, then flushed or
failed. `wish` observes what became of the exit a reply carried.

**KeyedSource** (`keyed-source.ts`, `holds.ts`, `period.ts`). One action per
turn of the loop: `Declare`, `ReleaseHold`, `Supersede`, `Resume`, `Heard` (a
watch reports), `Tick`, `Land`, `Close`; `WorldMoves` is outside. A value is the
version of the world it was read from. `Refresh`, `Store`, `Hold`, `LetGo`,
`Superseded` and `Victims` are the ledger's methods of those names; `Commit` is
the bookkeeping every one of them ends in, eviction included. `due` observes the
version the triggers so far call for.

**SocketOwnership** (`server.ts`, `socket-lease.ts`, `process-fingerprint.ts`,
`socket-ownership.ts`). A daemon is a record with a phase; each phase ends in one
system call others can see: `Bind`, `ReadLease`, `Probe` (`ps`), `Signal`
(kill 0), `Unlink`, `Listening` (the stat of its own socket), `WriteLease`,
`Check`, `ReadOwnLease`, `RemoveLease`. `Crash` is a kill at any point; a pid is
anyone's once its process ends; `StrangerStarts` and `StrangerEnds` are other
programs. An inode number is reused once nothing holds it.

**SpawnKick** (`acquire.ts`). `Kick`, `Open` (O_EXCL), `IsLockStale`,
`UnlinkStale`, `Contended`, `ReadStreak`, `Decide`, `Record`, `Advance`,
`Spawn`, `Release`: one file operation each. A file is its age; `Tick` ages all,
`SetBack` makes every recorded time a future one. `Allows` and `Window` are
`cooldownDecision` and `effectiveCooldownMs`. With `DiskFails` any create, write or
unlink may fail: a lock that cannot be created or reclaimed is gone past without
it (`acquire.ts:285-290`, `:615-625`), and one that its holder cannot unlink stays,
since `releaseSpawnLock` swallows the failure (`:647-649`). A stat or a read fails
only for want of the file. `quiet` observes how long ago each client was granted
an attempt, if that is on record. Two modelling choices: a streak
written back over a concurrent reset costs only a longer window, and is kept;
`obtainDaemon`, which nothing under the repository's `src/` calls, is left out.

**StateFile** and **SnapshotStore** (`session-state-file.ts`,
`session-state.ts`). The write under way is the phase of its next step: `Stage`
and `Rename` run on the thread pool, the rest on the loop. `Flush` is the close's
synchronous write, which stages under the same name and raises the generation;
the disk may refuse it before the staged file went or after. `Crash` and
`Restart` keep the disk only. `refused` observes a refusal since the last save.

**SettingsHistory** (`settings-history.ts`). A step is the function from what a
click changed to the values before and after. `AfterAppend`, `AfterUndo`,
`AfterRedo`, `PastAt`, `WithNet`, `SavepointAfter`, `WithToggle` are the code's
functions of those names. A verb is two actions: `Reads`, which takes what the files
hold (`seen`), and `Click`, `Undo`, `Redo` or `Rewind` (cancel), which checks and
computes by what was read, writes without comparing again, and ends the turn; the
save that may be refused is included, and what it leaves half done (`Fails`).
`HandEdit` and `TakeUp` are what happens around them, inside a turn too. `opened` observes the values and the stack where edit mode
opened, `touched` what something else changed. The byte bound may also cut the
newest steps of a redo stack (`settings-history.ts:478-486`); what it cut counts
as touched, since the code then cannot give it back and says so.

**Effects** (`apply.ts`, `journal-turns.ts`, `keyed-serial-queue.ts`,
`lane-setup.ts`). A turn is synchronous, so it is one action, `Request` or
`Click`: it takes the places of all it describes (`InOrder` is `performInOrder`, by position:
`Before` says what comes before each, setups last, and `InTurn` its place).
`places` is the set of places not let go yet: a key's first one is its queue's
running task (`First`), and `after` is the event's effect before it. `Doctor`
takes its gather's place, `TakePane` a setup's pane's, both from inside
(`TakeInside`). `Debts`, `Settled`, `Remember` are `LaneSetups.clicked`,
`settled` and the bound on what is owed. `TakePane` and the `Step` that finds the
pane free are two actions even where the code runs them in one call: the model
allows what the code does and a little more. The lanes are those with a toggle of
their own; the tmux status line's switch also follows the pane. A lane that
another session's save, or a hand edit, moves is set up by nobody (the code says
so), and such moves are left out: one between two of a session's own clicks,
made while the session holds no request, can leave its lane and switch apart.
`brought` observes where the last setup left a lane, `dropped` the debts that
went over the bound.

**GitCache** (`cache/git.ts`, `trailing-edge.ts`). One repository's state, `repo`.
`Ask` and `LetGo` are `hold` and its release, with `valueOf` and `queue`; `Look`
is one read of a pass, and takes the branch HEAD is on when git looks; `PassLands`
is the pass's last answer with all it stores, and the next pass where one is owed.
`Run` and `Share` are the trailing edge's two entries: a run wants a pass begun
from now, a share takes the one that is out. `Lookup`, `Landed`, `Moved` and
`Latest` are `readPr` and `movePr`. A reading is a branch and whether the
repository is unchanged since it was read; a remote is one the forge answers for,
or none (unread, failed or absent remotes look nothing up and are answered by the
end of the turn). Timers are off while a read of their source is out. The wait for
a lookup's slot and for the forge is one arbitrary delay. `lost` observes a report
that came during a pass nobody held any more, `split` a pass whose reads fell on
two branches.

**UpdateAct** (`update-act.ts`, `update-notice.ts`, `launch.ts`). A daemon's act
queue runs one turn at a time; `turn` says where it is, and each place ends in one
call on the directory or the process table. A claim is `Launch` (a job at its
gate), `Stake` (the rename), `Relist`, then `Release`, `ListOlder`, `Prune`, or
`Unstake`; a reader is `List`, `ReadRecord`, `Ps`, `AskAlive`, `ReadVerdict`,
`Exists`; `Look` spends the budget and ends the group. `Stop` is a daemon that
ends anywhere. A pid's holder is a job, a stranger or nobody. `Untold` is the
launches, by their order, whose start the claim's `ps` does not tell
(`update-act.ts:42-43`, `:381`); it is any set. `ToldApart` is where that stops
mattering: no two jobs of one pid were both launched so. The samples of what is
newer and the notice's words are left out.

**LinkIds** (`link-id-allocator.ts`, `link-ids.ts`, `lane-frames.ts`). `Reserves`,
`Faults`, `Retry` and `Close` are the allocator, its file a count or junk;
`StartFrame`, `RangeOf` (`Reuse` or `Mint`) and `EndFrame` are a line's table, one
link at a time, since a daemon may end between two. `shown` observes every id that
was drawn for a link and may still be on a screen; an edit that lowers the file
forgets what the code's own remedy says it forgets (`Forgotten`).

**FrameFeed** (`frame-feed.ts`). A feed is a record; a closed feed keeps its place
in `feeds`, so that a step of its own still running is seen to touch it.
`Fire`, `Rendered`, `Encode`, `Send` and `Pushed` are the frame's step, in the
order of the code's calls; every call another part makes from inside a render or a
push (`Wake`, `Subscribe`, `Unsubscribe`, `Toggle`) may come between them. `Arm`,
`Hasten` and `Woken` are the timer. Times are what is left (`due`) and what has
passed (`since`), up to `Still`, the longest the code looks at. Sinks that throw,
the counters and the summary are left out.

**FileWatch** (`watchers.ts`, `file-events.ts`, `watch-target.ts`,
`source-runs.ts`). The files of one folder, the folder above it and the probe's
folder, so three directories: `Opened`, `Tell`, `Fire`, `Folded`, `Judged`,
`Swept`, `Followed` are the registry's functions over the record `Registry`.
`PathHears` is a path's window going off with all its source does. `Period` is one
tick of `file-events.ts`: every directory judged, and one probe begun unless one is under way;
`Lands`, `ProbeHears`, `Written`, `WriteFails` are that probe. A watch hears the
folder it was opened on, as inotify's do. Finding the nearest folder, naming it and
opening the watch are separate calls (`source-runs.ts:314-319`,
`watchers.ts:129-154`, `:543-563`): a turn that began before the last change on the
disk found the folder that was there then (`found`), and may have named it before
or after (`Derivations`), while its watch opens on what is there now. `Flow`, `Refuse`, `RemoveProbeFolder`,
`Error` and `Replace` are the OS. `lost` observes whether an outage took a path's
events, whether it was too short for the probes to see, and whether a folder was
made inside the turn that went to wait for it (`Overtaken`). Names KeyedSource has
too are others here (`WatchSpec`, `slots` for what the holders hold, `Delivered`,
`Forgoing` for a release), so that SourceProofs can extend both.

## Runs

Every run explores its whole state space. `PROJECT.json` gives, for each
property, a change to one definition (a dropped guard, an early release, a
forgotten reset) under which TLC finds it violated.

| Run | Module and bounds | Shows |
| --- | --- | --- |
| `connection` | Connection, 2 connections | one answer, exact counts, no orphan subscriber and no stream unfed and untold, every exit accounted for, held work has a client; a waiting client's wait ends |
| `keyed` | MCKeyedSource, 2 keys (one periodic), 2 homes, 1 unheld entry kept, 1 world change, 1 supersede, 2 reads out | a supersede hides, the last change lands, no value goes back; a held key catches up |
| `git` | MCGitCache, 2 branches, 2 option sets, 1 home showing the PR beside one of them, 2 commits or switches, 1 failure, 1 answer kept, 1 lookup out per key | what is reported is read, nobody waits in vain for a PR, no value beside another branch's PR |
| `acts` | MCUpdateAct, 2 daemons, 2 pids, 2 acts, 3 jobs, 1 stranger or reboot, `ps` tells only the third launch's start | while the records can be told apart: one writer, final facts are true |
| `links` | LinkIds, 2 lines, 2 links, tables of 1, blocks of 2, ids up to 5, 1 edit of the file | one link per id, a frame keeps its ids; a fault clears |
| `frames` | MCFrameFeed, 2 followers on lanes of their own, 2 feeds, 1 change, 1 fault, periods 1 and 2 | timers are followed, followers agree, frames are spaced; changes are sent |
| `files` | FileWatch, 2 files, 2 edits, 2 faults, 3 of both, a folder changed inside a turn, a stall after 2 probes | an unread change is owed a read, faults told are the watches'; each change is read at last |
| `socket` | SocketOwnership, 2 daemons, 3 pids, 2 inodes, `ps` may not answer, leases may fail to be written | no reclaim from the living; daemons converge, a displaced one drains, a lone one serves |
| `kick` | SpawnKick, 2 clients, one death or one clock set back, writes and unlinks may fail | attempts stay a cooldown apart; no daemon is kept from being spawned |
| `state_file` | StateFile, 4 saves, 2 flushes, the disk may refuse | the file implements the store; a state lands |
| `history` | MCSettingsHistory, 2 sessions (one with edit mode), 1 pick, 1 shared file, 3 values, stacks of 2 steps, 1 session kept, 3 changes kept, 1 upset, inside a turn too | the net change is the difference, steps go on from the present, cancel restores |
| `effects` | MCEffects, 2 sessions, 2 panes, 1 lane, 2 clicks, 2 moves, 1 session owed to | no circle of waits, lanes follow switches, no needless setup; all effects end |

Why these bounds. *Connection*: connections share only the counts and the exit,
so two show every interference, and the table is finite. *KeyedSource*: entries
share the order and the eviction bound (two keys and one kept entry evict); two
reads are one under way beside one a supersede or a change abandoned. *GitCache*:
two commits switch a branch away and back, with two lookups, a pass and a hold in
any order; the second option set is what a hold brings to a pass that is out
without it. One answer kept evicts at the second key. The branches are alike, so
the run uses their symmetry; it checks safety only. *UpdateAct*: a third job is
the one launched beside two acts, one of them stalled; two pids for three jobs
give one again. *LinkIds*: a table of one evicts at each second link, and two
blocks of two leave an id over that no block fits. *FrameFeed*: a second feed of
the session is one opened while the first one's step still runs. *FileWatch*:
three edits and faults together are an outage, a change in it and its end, or a
folder removed, made and refused; two paths share a watch. *SocketOwnership*: a race is between a
daemon and one that displaces it; three pids let one be reused by a stranger while
both live. *SpawnKick*: thresholds matter by their order, so the least numbers in
that order are used, below and above each of them. *StateFile*: a flush over a
flush over a write under way, and a save after each. *SettingsHistory*: every
bound is small enough to bite within a few clicks (a stack of two steps, three
changes, one session). *Effects*: a click may describe nothing, a run, or a doctor
step before a typed line, which with the lane's setup gives places in every order
at once; two clicks put one behind the other, and two moves take a session to the
other's pane, out of tmux or out of the daemon, and back. Where a theorem stands
beside a run, it covers every bound.

Deadlock is not checked (`CHECK_DEADLOCK FALSE`) where the system may stop: every
client has gone, every daemon has ended, a bound is spent.

Fairness, and what in the code grants it. *Connection*: a timer that is due fires
(weak, on `Backstop`); handlers, held work, peers and flushes are promised
nothing, so `WaitingEnds` is the backstop's alone to keep. *KeyedSource*: every
read is bounded by its launch's timeout, a watch reports what it saw, a timer
fires. *LinkIds*: a frame begun is drawn (a synchronous call), the retry's timer
fires, and a disk tried again and again takes the block once (strong: an
assumption about the machine). *FrameFeed*: time passes, a timer that is due
fires, and the step goes on. *FileWatch*: the period runs, a probe's write ends
(one weak fairness, since a period waits for the probe before it), and what the OS
delivered is heard; nothing makes the OS deliver or stop.
*SocketOwnership*: a live process runs, its check timer fires, `ps` has a budget
(weak, per daemon); nothing makes a client spawn or a stranger end. *SpawnKick*: a
kick is synchronous and time passes; while no daemon answers every render kicks
again; a spawn tried again and again works once (strong, on `Spawn`: an assumption
about the machine, without which nothing can be promised). *StateFile*: the
debounce fires and the thread pool ends what it was given. *Effects*: the loop runs
what is ready, and every performer bounds what it performs by a timeout. *GitCache*
(a watch need never report, a forge never answer), *UpdateAct* and
*SettingsHistory* state no liveness.

## Proofs

Each proof module extends its component's (StartupProofs, SourceProofs,
SettingsProofs and CacheProofs two components' each) and
proves for every value of the constants, from the component's one ASSUME and
nothing else (SpawnKick has a second, a fact of arithmetic: doubling never makes a
positive number smaller).

**ConnectionProofs.** `IInv = CoreInv /\ CallbackInv`. The table is summarised
once: `StepFacts` says that any step from any state `Respects` it (the backstop is
armed after a step exactly if it was and the step does not clear it, the in-flight
and timed-out states change only with the effect that counts them, an answer is
written only on the way out of the unanswered states). With that, each callback
preserves the counts and the timers by one lemma (`PerformKeepsCore`), and
`CountMoves` says how a count of connections follows one connection's move.
`CallbackInv` carries the types of what the callbacks alone touch. Theorems:
`TypeCorrect`, `AnsweredOnce`, `CountsAndTimers`, `TimeoutStands`.

Its second part takes that invariant further, to what a connection's parts say of
each other: where a connection is, given its frame, the work held for it and
whether its peer has left (its place), leaves only a few states, and from each of
them the table is read cell by cell (`Moves`) for where a step leads and what it
asks for. A step has one verdict on the exit it carries (`OneVerdict`). `FeedInv`
adds what the feed keeps: a stream is in it unless it was refused, and one refused
streams, unanswered, until it closes, which no event of the table but
`subscribed` and `close` disturbs (`TableKeeps`). Theorems:
`NoSubscriberIsOrphaned`, `ExitsAreAccounted`, `HeldWorkIsHeldFor`.

**SourceProofs**, first part. About KeyedSource, `IInv` is the types and `KeyInv` of every key: a read that is
not aborted is the entry's own, and began no earlier than the value shown
(`Reading`); an entry under a supersede is not settled and has no read of its own
(`Hidden`); one with no read under way shows what its triggers called for, and one
with a read will, or is marked changed (`Answers`). `TurnGoesOn` says what a turn
that touches some keys and commits leaves of each, eviction included; every action
is an instance of it, and it also gives that a kept entry's version does not go
back. Theorems: `SupersedeHidesAlways`, `LastChangeLandsAlways`, `NothingGoesBack`.

Second part. About FileWatch, `WatchInv = Fit(Registry) /\ WatchesTyped /\ Measured
/\ Caught of each path`. `UnreadIsOwed` is not inductive: a path reads nothing while
its folder is gone, and what it is owed when the folder is made again depends on
the watch above it. `Caught` says of every path that is behind, by its file or by
its folder (`Behind`), that it waits on its own watch (`Awaits`), unless an outage
took the word, and then a span is open. A watch that listens bound a folder that
was there and numbered before the one made next, so one that stayed on a folder
that went is amiss (`Watching`); the event that its own folder went is still on its
way only while that is so. The registry is a value, and one lemma per function of
it says what it leaves fit (`FireFits`, `JudgedFits`, `SweptFits`, `FollowedFits`,
`ForgoingFits`) and what of each path it does not move (`Keeps`); a turn of the
daemon then either keeps a path or has it follow its folder and be read
(`TurnHolds`). A turn overtaken by a folder made since it looked is the one way a
path that was read is left behind what it watches: then word of that folder is on
its way, or the path is marked (`Glimpsed`, `Overtaken`); and whatever a turn found,
a watch above is on the folder above (`Placed`). The probes end no span but by catching every path up
(`ProbesGoOn`). Theorems: `WatchesHold`, `UnreadIsOwedAlways`, `FaultIsToldAlways`.

**StartupProofs**, first part. About SocketOwnership, `IInv = TypeOK /\ Numbered /\ Signed /\ Remembered /\
Asking /\ Dated /\ ReclaimsOnlyTheDead`. A pid names one live process
(`Numbered`); the lease, and the copy a reclaimer read, is by a daemon that lives
under that pid or is dead (`Signed`, `Remembered`). `ReclaimsOnlyTheDead` is not
inductive without them: a reclaimer's probe answers for a pid, and only these tie
the pid to the writer. Theorems: `SocketTypes`, `NeverReclaimsFromTheLiving`,
`OneOwnerAtMost`, `OnlyRacesTakeThePath`.

Second part. About SpawnKick, whose `Kick…` names keep it apart here, `KickInv =
KickTypeOK /\ OnRecord`. The lock is no part of it: what spaces attempts is the
record, and an attempt that was recorded stays on record, since every later write
is a newer one and time ages both alike (`OnRecord`). A kick is granted an attempt
only past the window, and no window is narrower than the cooldown. Theorems:
`KickTypes`, `AttemptsStaySpaced`.

**SettingsProofs**, first part. About StateFile, `IInv = TypeOK /\ Ordered /\ Unsuperseded /\ Staged /\
Retried /\ NothingForgotten /\ WaitsOnlyIfRefused`. What makes it inductive is the
generation: a write of the current one holds a state the file has not passed,
and what is staged when its rename reads it is its own. Theorems: `FileTypes`,
`NothingIsForgotten`, `OnlyRefusalsWait`, and `FileImplementsStore`: every step of
`StateFile` is one of `SnapshotStore` or leaves memory and disk alone.

Second part. About SettingsHistory, `HistoryInv` says of each session with an open
edit mode `SessionTold`: off the targets something else touched, the net change
`Tells` the values where it opened from the values now, and every value where it
opened is known. A step that leads from what is there to what is there later joins
such a net change (`NetJoins`), whichever way it was made; a history put keeps a
savepoint's net change or loses the savepoint, its own or another session's
(`PutTrims`); a refused step forgets of both sides the same targets
(`SparedTells`); and what nobody records is touched for everyone
(`UnrecordedHolds`). What a turn read still stands off what was touched since
(`SeenStands`), so what it writes is what it would have written at once
(`ReadsHold` begins it). Theorems: `NetTellsAlways`, `CancelGivesBack`.

**UpdateActProofs.** `IInv` is the types, `JobsOK` (a job that is not over leads
the group of its id; an act's job was launched for it), `NewestWrites`, and for
each daemon `Knows` and `Place`: what it has read so far still stands, or a newer
act does. Numbers only go up, and whatever act is removed a newer one is there
(`Onward`), so what a daemon saw is never undone, only passed. A job that writes,
or whose gate is about to open, is the newest act's (`NewestWrites`), and there is
one newest act. An act's end, once on the disk, stands there or is passed
by a newer act's number, a timeout another daemon gave it included (`EndStands`,
`EndsOnward`). All of it holds while the records can be told apart, whatever
`Untold` is: jobs are only added, and keep their pid and whether their start was
told (`JobsAreKept`), so what can be told apart later could be all along
(`ApartBefore`), and no step needs more than the present. Theorems: `ActsAreAlone`,
`FactsAreFinal`.

**CacheProofs**, first part. About LinkIds, `IInv = TypeOK /\ CarriedIsReserved /\ LeftIsFree /\ NextIsFree
/\ OneEach`. What a table carries was reserved by this process; what is left of
the block, and any block the file can give next, is on no screen. For the frames,
`FInv` says that the links of the frame being drawn are the tail of its line's
table, in the order drawn, however links are reused or minted; the eviction at its
end keeps at least that tail. Theorems: `IdsNameOneLink`, `FramesAreKept`.

Second part. About GitCache, whose `Cache…` names keep it apart here, `CacheInv`
says of a repository not closed that it is `Steady` (typed, what is held is known,
the PR's timer and lookup agree with who shows it) and `Timely`. `HeardIsRead`
speaks of a repository at rest, `Heeded` and `Fetched` of one under way: a value
the repository has left is still to be reported, missed, or in what the pass out,
or the next one, rereads, and so is what that pass has read already. `PrAwaited`
does the same for a PR not keyed. `PassFit` is what a pass knows of the PR it began
beside, without which a PR first shown during the pass would be keyed by none.
`OneBranch` says a keyed PR is the branch's of every value not missed; the values a
pass went by without are missed, so a hold that returns to one finds the PR owed
(`AskLeaves`). Each function of the source has one lemma of what it leaves
(`LookupFits`, `AnswerFits`, `MovedFits`, `BeginFits`, `RunFits`, `HeldFits`,
`StoredFits`), and a turn is a composition of them. Theorems: `HeardIsReadAlways`,
`PrIsOnItsWayAlways`, `PrBesideAlways`.

**FrameFeedProofs.** `IInv = TypeOK /\ FeedsOK /\ StepOK /\ Agreed`. One lemma per
operator says what it leaves of a feed: `Sound` (its timer keeps the spacing, its
followers' lanes show its last frame, a frame that renders has read what woke it)
and `Prompt` (a wake not answered has a timer, as soon as the spacing allows).
`Agreed` says a follower was sent the last frame or is still to be. Theorems:
`TimersAreFollowed`, `WakesAreSoon`, `FollowersSeeOneFrame`, `FramesKeepApart`.

**EffectsProofs.** `IInv = TypeOK /\ Orderly(places)`: each number is taken once, a
place names only places taken before it, and each kind takes places in its own
orders only. Then no set of places waits on itself, by rank: the first gather in it
waits for none of it, else the first place that is no setup's, else the first
setup. `LaneInv` adds where each lane is heading (`LanesHead`): to what its last
setup brings it, or to where the last to end left it; and that is where its switch
stood before the first move that is owed, or, with none owed, where its switch is.
Neither lane property is inductive without it: they speak of lanes at rest, it of
lanes under way. A turn `Settles` or `Owes`, and both keep it because what is
settled `Tells` of each lane the same place as what was owed. That a finite set of
numbers has a least and a greatest is proved from the library's well-founded
minimum. Theorems: `EffectTypes`, `NothingWaitsInACircle`,
`LanesFollowTheirSwitches`, `NoSetupIsNeedless`.

Proved for every value of the constants and not among the runs' properties:
`WakeIsSoon` (FrameFeed), `OneOwner` and `OnlyARaceTakesThePath` (SocketOwnership),
`NothingForgotten` and `WaitsOnlyIfRefused` (StateFile), `TimeoutIsFinal`
(Connection), `CancelGivesBack` (the values' part of SettingsHistory's
`CancelRestores`), and the type invariants of those modules, of SpawnKick and of Effects.

Only model-checked: every liveness property (`WaitingEnds`, `HeldCatchesUp`,
`FaultClears`, `ChangesAreSent`, `ReadAtLast`, `DaemonsConverge`,
`DisplacedDrains`, `AloneServes`, `NeverWedged`, `Lands`, `EffectsLand`), which
are out of the prover's reach; and
SettingsHistory's `StepsGoOn` and the stack's part of `CancelRestores`,
which speak of what `SelectSeq` leaves of a sequence, an induction over it.

## What the models showed of the code

Each of these is a behaviour of the model, read back in the code. The properties
above are stated so that they hold beside it.

- **A change can be missed by a returning hold** (`keyed-source.ts:400`). The last
  hold is released while the entry's first read is out; a change reported then is
  ignored, and the hold that returns before the read lands asks for nothing, since
  the entry has not answered yet. The read looked before the change, and the held
  entry stays stale until the next one, where `keyed-source.ts:181` says it is read
  when a hold returns. A key with a period catches up (`HeldCatchesUp`).
- **The git cache has the same hole** (`cache/git.ts:548-551`, `:762-765`). A change
  reported during a pass nobody holds any more marks the values missed, and the
  pass, as it lands, clears the marks, where `:186` says the next read reads at
  once. The repository's period reads it again (`repo.lost` marks the case).
- **A PR can be kept for another branch** (`src/segments/git.ts:1459`). `gh pr view`
  and `glab mr view` name no branch: a lookup queued for one branch, run after HEAD
  moved, stores the other branch's PR under the first one's key, and it is recalled
  when that branch is checked out again (against `cache/git.ts:88-90`, `:119-125`).
  The model takes an answer for its key's. A branch left and returned to with its
  first lookup still out starts a second (`:866-905`), and the older answer may
  settle after the newer.
- **A pass may fall on two branches**: its reads are separate processes, and a hold
  on a missed value may come during a pass that does not read it. Until the next
  pass a branch's value stands beside another's PR (`cache/git.ts:728-732`);
  `PrBesideItsBranch` holds but for those two cases (`repo.split`, and the hold's
  own value missed).
- **A displaced daemon can stay** (`server.ts:371`). A daemon whose socket is
  replaced between its bind and its `listening` callback stats the replacement and
  takes its inode for its own. If the other daemon ends before its own lease stands,
  both conditions of the self-check hold for good in a daemon no client reaches, and
  later boots yield to it; `socket-ownership.ts:36` says any orphan drains.
  `DisplacedDrains` holds for daemons whose stat was of their own socket.
- **A fresh spawn lock can be unlinked** (`acquire.ts:636`). A lock released between
  a contender's failed create and its stat reads as stale, and the contender unlinks
  whatever lock another client has created since; `acquire.ts:567` says staleness is
  time-based. The cost is a second spawn, which the socket arbitrates.
- **Cancel can undo a hand edit** (`settings-history.ts:316`, `:524-537`). A file
  edited in edit mode, then by hand, then in edit mode again is put back to what it
  held at the start. `docs/interaction-authoring.md:98` says a file edited since by
  anything else is kept.
- **A save between a step's read and its write is overwritten**
  (`settings-history.ts:366`; `config-file-store.ts:143-153`,
  `atomic-write.ts:18-40`). The targets are compared as the turn reads them; then the
  new text is staged, synced and renamed with no compare, so what another process
  saved meanwhile is lost without a word. `StepsGoOn` and its neighbours count such
  a target as touched by something else.
- **A lock can outlive its kick with nobody dead** (`acquire.ts:647-649`): a failed
  unlink is swallowed, and kicks are refused or passed by the lock until it is old
  enough. `NeverWedged` and `AttemptsAreSpaced` hold beside it.
- **Two acts can write one bundle if `ps` fails twice** (`update-act.ts:259-260`,
  `:279`). Two jobs of one pid, both launched with no start told, are the same to a
  reader, which keeps the older one's verdict that the group is not ours, and a
  third act starts beside the second. One such launch, or any number of other pids,
  is not enough: `OneWriter` and `FinalIsFinal` hold until there are two
  (`ToldApart`).
- **A folder made as its watch is opened is not heard of** (`watchers.ts:129-154`,
  `:543-563`; `source-runs.ts:314-319`). Made after the nearest folder was found and
  before the watch above opens, it sends that watch nothing; if the path is read in
  the same turn it shows what it read, and goes on watching the folder above, until
  the folder above changes again or delivery moves (`lost = "short"` marks it).
- **A folder that goes with an ancestor tells no one** (Linux, `watchers.ts:502-509`):
  renamed away above the watch, it ends no inotify watch, and the period keeps a
  handle whose path is gone. The next folder at that path is taken up (`GoneUntold`).
- **An outage shorter than the stall loses its events for good**
  (`file-events.ts:116`): the probes answer again before it is called a stall, and
  nothing catches up (`lost = "short"`).
- **A sink that throws** inside a push skips the followers after it, and an identical
  next frame is not sent again (`frame-feed.ts:813-840`); sinks do not throw in the
  model.

Smaller observations the models keep as the code has them: `removeLeaseIfOwned`
reads, then removes, and may remove a lease another daemon wrote in between (that
daemon then drains); an entry of a keyed source superseded while it is over the
bound is kept past its resume, until the next one that makes room; a lane setup's
debt dropped over the bound of sessions owed is only logged.

## What is not modelled

Frames themselves (layout, templates, themes, widths), config loading and
editing (pure functions over text), and the wire forms are data: no order of
events changes them, and the repository's tests enumerate them. They are most of
the repository's lines, so the map covers a small share of them.

The **menu idle clock** derives one timer per session from three facts after each
of their changes. The comment at its close speaks of waiting for a turn, but a
journal turn is synchronous (`apply.ts:361-366`): `closeIdleMenus` takes its turn
inside the timer's own call, and no click, eviction or frame comes in between. A
model would restate `settle`. The **fork-bomb breaker** serves test and development
daemons, and the one property it could be held to, its ceiling, is soft by design:
two daemons that count at once both join. The **single flight** hands one promise to
whoever asks while it is out; its users are the usage scans, which depend on no
other order. The **process launcher** and the **tmux status lines** rest on what
signals, process groups, streams and tmux do, which a model would have to assume.
One-shot commands (doctor, install, demo, the clients' command lines) run once and
report.

Within modelled parts: throwing sinks (FrameFeed), more than one repository and the
belief of which repository a directory is in (GitCache), link chains and trees of
watches, a second folder change inside one turn, and any inside a period's own turn
between its judging and its finding (FileWatch), a stat or a read that fails though
the file is there (SpawnKick), the samples of what is newer (UpdateAct), `obtainDaemon`, which
nothing under the repository's `src/` calls (SpawnKick).
