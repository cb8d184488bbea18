# Yawn Bot: models, checks and proofs

Yawn Bot (`src/src/plugins/yawn_core`) is a QQ chat bot on NoneBot2 and OneBot v11: one
process, one asyncio event loop, an SQLite database behind an ORM, a FastAPI admin panel in
the same process. Its concurrency is that of coroutines: between two awaits a handler runs
alone, at every await anything else may run. The models take such a stretch as one step.

Paths below are relative to `src/src/plugins/yawn_core` unless they begin with `src/`.

## 1. Inventory

| Component | State it keeps | Operations | What is hard |
|---|---|---|---|
| Fanqie download jobs (`yawn_fanqie/state.py`) | rows of jobs and chapters, files, bounded `_queue`, `_queued_ids`, one worker task | submit, cancel, retry, send, delete, restore, expiry, worker | every command races the worker; the queue overflows; the process stops anywhere; the chat connection goes |
| Game registry (`game_registry.py`, `command_access.py`) | lease per group and per user | reserve and release a game or a seat, host query | the only thing the two games share |
| Game rooms (`yawn_werewolf/`, `yawn_rpg/`: `state.py`, room commands, `run_game`) | `_games`, `_user_index`, `Game` objects, an engine task each | open, join, leave, kick, stop, engine start and end | `stop_game` runs in the background, cancels a task at any await, several at once |
| Werewolf play (`yawn_werewolf/engine.py`, `ai_player.py`, `roles.py`) | phase, players, the deaths to settle, bounded action queue with per-player counts | nights, settlement of deaths, campaign, speeches, votes, duels, detonations | a player cuts any window short; deaths cause deaths; five ways a day ends |
| Tabletop play (`yawn_rpg/engine.py`, `ai_kp.py`) | scene, characters, action queue with reply futures | scenes, checks, rests, combat | as above, with language-model calls |
| Reminders (`reminder.py`) | rows, APScheduler jobs | create, edit, enable, disable, delete, fire, restore | row and job change in two steps, each with an undo; an edit while the old run is sending |
| Private chat (`chat_state.py`, `ai_chat.py`, `private_chat_bridge.py`) | per-user mode, queue, worker, turn lock | enter, exit, enqueue, burst merge, reset, idle exit | exit, reset and idle timeout against an arriving message; a worker that outlives its state |
| Agent schedules (`yawn_agent/schedule_*.py`, `webui/schedules.py`) | a row per task: status, next time, lease, counts | create, claim, plan, run, record, force, pause, resume, cancel, edit, delete | stop between claim, run and record; a forced run and commands during a run |
| Agent tasks (`yawn_agent/private_*.py`, `agent_bridge.py`) | durable tasks, leases, offers | claim, run, retry, hand over | restart between claim and delivery |
| Agent dialogue (`yawn_agent/`, the rest) | memory, media, prompts, personas | turns, tools, delivery | results of language models |
| Check-in, affinity, permissions, friends | rows | single-session handlers | little |
| Web accounts, devices (`webui_accounts.py`, `webui_devices.py`) | one JSON file under a lock | codes, passwords, sessions | little: no await under the lock |
| Admin API (`webui/`), front end (`src/webui`), sandbox runner (`src/sandbox`), deployment, tools | sessions, workspaces | HTTP | outside the bot's own control state |

How they interact: chat commands and admin routes call the same functions of `state.py`; the
Fanqie commands share the database and the queue with the worker task; both games share the
registry, and nothing else; `stop_game` reaches an engine only through `game.worker`.

What makes the core right:

* jobs: the queue and its id set agree; no job is forgotten; only the job in hand is
  "running"; what was downloaded is kept; a book has no holes; every job is settled in the
  end; a failed notification changes no row;
* rooms: lease, game table, index and members agree; a user has one seat; an engine at work
  keeps its room, a stopped room is freed; the host is a member and the registry knows him;
  nobody is left muted;
* werewolf: a death is settled once and completely before the game goes on (shot, badge), on
  every path; the game ends when a side has won and not later; one sheriff is elected; every
  day ends;
* schedules: a lease is given up by whoever took it; an active task has a time to come; a run
  answers a time that came, once; limits hold; an ended task stays ended;
* reminders: what is switched on is in the scheduler, and nothing else; a date is sent once,
  and its reminder ends;
* chat: one worker serves the mode, what waits is served, a message is lost only with the mode,
  a reset runs alone, the mode ends only when the user or his own worker ends it.

`PROJECT.json` lists the hazards line by line, with the property that covers each one.

## 2. Modules

| Module | Models | Reads |
|---|---|---|
| `JobLifecycle` | abstract specification: what a download job promises its user | |
| `FanqieJobs` | jobs, queue, worker, commands, files, restart | `JobLifecycle` as a refinement |
| `MCFanqieJobs` | budgets of the TLC instances | `FanqieJobs` |
| `FanqieJobsProofs` | strengthenings and theorems | `FanqieJobs`, TLAPS |
| `FanqiePromiseProofs` | the promises: no job forgotten, no holes, the refinement | `FanqieJobsProofs` |
| `GameRegistry` | leases and the functions on them | |
| `GameRooms` | rooms of both kinds over the registry | `GameRegistry` |
| `MCGameRooms` | users of the TLC instances | `GameRooms` |
| `GameRoomsProofs` | inductive invariant and theorems | `GameRooms`, TLAPS |
| `WerewolfPlay` | a game of werewolf from the deal to its end | |
| `MCWerewolfPlay`, `WerewolfPlayProofs` | boards and house rules; inductive invariants and theorems | `WerewolfPlay` |
| `AgentSchedules` | one scheduled task, the tick, forced runs, its owner's commands, stops | |
| `MCAgentSchedules`, `AgentSchedulesProofs` | budget; inductive invariant and theorems | `AgentSchedules` |
| `ReminderJobs` | one reminder: its row, its scheduler job, its run, the commands, restarts | |
| `MCReminderJobs`, `ReminderJobsProofs` | budget; inductive invariant and theorems | `ReminderJobs` |
| `ChatMode` | one user's chat mode: states, workers, turn lock, handlers | |
| `MCChatMode`, `ChatModeProofs` | budget; inductive invariant and theorems | `ChatMode` |
| `ChatTurnsProofs` | where messages are; one turn each | `ChatModeProofs` |

### FanqieJobs

Rows are functions of the job id (`status`, `cancel`, `owner`, `group`, `output`, `sendst`,
`chapter`); `files` is the data directory, `<<j, p>>` a chapter's file and `<<j, 0>>` the
book; `queue` and `queuedIds` are `_queue` and `_queued_ids`. `wpc` is the place in
`_worker_loop`, `_run_job`, `_assemble_and_deliver` and `_fill_waiting_queue` where the worker
task stands, `wjob`, `wlen`, `wpos`, `wfill` are its locals. `cpc` is the same for a command
handler between its awaits, `cseen` the row as it read it. `perm` is the feature switch, `bot` whether `get_bot()`
succeeds. `gapped` is a history variable: the jobs whose book was merged with a placeholder
for a chapter that is neither completed nor unavailable.

* One session block is one step. The first block of `_run_job` is two (`WStart`, `WBegin`),
  because it awaits reads between its check of the row and its commit.
* So are the blocks of the commands: `cancel_job` reads (`Cancel`) and commits what it decided on
  the row it read (`CancelLands`); `retry_job` reads the row, then the chapters, and commits
  (`Retry`, `RetryReads`, `RetryLands`); `deliver_job` reads, awaits the permission, and uploads or
  commits that the book has expired (`Deliver`, `DeliverChecks`, `DeliverExpires`). The ORM writes
  only the columns a command has changed (`Written`), so a flag that was already set when it was
  read is not set again.
* `fetch_chapter` has its four outcomes by choice: content, unavailable, unavailable through
  the mirror's outage (what `retry_job` treats apart), any other error.
* A row that is deleted under the worker makes `WBegin`'s UPDATE raise; elsewhere the code
  tests for `None`. Row ids are SQLite's: the largest in use plus one, so the id of a deleted
  last row returns.
* `WDbError` is any exception of a session block: inside `_run_job` it reaches the handler,
  inside the handler it ends the task, inside the fill it is logged.
* `Expire` removes any set of files, whatever their age.
* `Restart` is a stop or a crash at any point with the restore that follows: the memory is
  gone, running rows are queued again, the fill runs.
* Left out: the book metadata row (never deleted), a job with no chapters (refused at
  submission), the list and detail queries, the file-size arithmetic (a merge may fail).

`JobLifecycle` says what all this amounts to: a job is only finished by the work done on it,
one job runs at a time, a settled job moves only when retried (or, completed, when its book
has expired), a cancellation is not forgotten, a stop puts the job in hand back. A cancellation and
the worker's commit of "running" may cross, in both directions: a job that was just cancelled shows
as running once more, or a running one as cancelled; the wish stays in either case, and ends the job
unless its work was past asking. The mapping is `st <- status`, `wish <- {j : cancel[j]}`.

### GameRegistry and GameRooms

`groups` and `users` are the registry's dictionaries; `games` and `index` are `_games` and
`_user_index` of each kind; `kind`, `place`, `host`, `phase`, `members`, `kicked` the fields of
each `Game` object; `worker`, `engine`, `cancelled` the engine task; `asked` and `stopping` the
`stop_game` coroutines spawned and waiting; `muted` the group's members muted by a game.

* Both games are instances of one set of actions: `create_game`, `join_signup`,
  `leave_signup`, `discard_game` and `stop_game` are the same code in both packages. Where they
  differ the action says so: tabletop has no machine players and no kick, joins and leaves are
  done by the engine, its finally has no await; cancelled, it writes the interruption first.
* The engine's play is one place, `play`, that may end at any time, by return, error or
  cancellation. A werewolf night mutes (`EngineMutes`), the clean-up un-mutes.
* A cancelled task notices at its next await. One that never ran ends without its finally;
  one already in its finally drops the rest of it. The window is between `StopBegins` and
  `EngineCancelled`.
* The host's place goes to any human that is left; the code takes the first to have signed
  up. Limits on the number of players are left open, which only adds behaviours. `/再来一局`
  is `Open` followed by `Join`s.
* Calls of the chat API are taken to work (mute and un-mute).
* `MaxCommands` bounds the commands given to all games after they were opened (`given` counts
  them); opening, stopping and the engines' own steps are not counted.

### WerewolfPlay

What `GameRooms` takes as one place, `play`, in full: `run_game` from the deal on. One task runs
the game and nothing else writes its state, so a step is what the task does from one wait to the
next. It waits in windows (`_get_action` under a `_Timer`); `phase` names the window or the place
between two. `alive`, `cause`, `revealed`, `shot_used`, `badge`, `running` are fields of
`PlayerState`, as sets of seats where they are flags; `potions`, `guard_last`, `elder_last` belong to
the one witch, guard and elder of a board; `campaign`, `silenced`, `exiled` and `round` are
`sheriff_campaign_round`, `silenced_seat`, `last_exiled_seat` and `round_no` of `Game`. `pending`
and `processed` are the locals of `_resolve_pending_day_effects`, `words` the dead still to speak,
`tied` the seats of a second ballot, `night` what the phases of a night returned. `after` stands for
the call stack: where the task goes when the deaths are settled (`day`, `exile`, `boom`, `duel_won`, the
speeches a duel interrupted, or `cut`, a detonation that waits in `boom` while the deaths before
it are settled).

* An action of a player is a step where a window accepts it. What a window does not accept is
  dropped without a change, so the model need not keep the queue: anybody may have sent anything
  before a window opens. The queue's limits are left for `WerewolfQueue`.
* Each window can end by its timer, in the same way as by its last answer.
* A ballot is its result: any seat that can win it, any set that can tie (no more seats than voters
  without the sheriff, whose vote counts one and a half), or none. The draw among the wolves'
  targets is any target.
* Roles are the values of `Role`; the causes of death are merged where the engine treats them
  alike. `round` stops counting at 3: the code compares it with 1 and with the round of the campaign.
* A detonation is possible where somebody has the floor or votes, not in the settlement.
* `DetonateInWords` is the exception out of `_last_words`: the deaths so far are settled, then the
  detonation is handled (`DetonateAfterWords`), then its own deaths, and the day ends.
* `Cancel` is `stop_game` or an exception anywhere.
* `asked`, `elected` and `yesterday` are history variables.
* Left out: the seer, the half-blood's choice and with it the list of winners, the order of speeches,
  single votes, texts and mutes, machine players, the records in the database.

### AgentSchedules

`row` is the task's row: `status`, `next_run_at`, `lease_until`, `max_runs`, `run_count`,
`failure_count`; `pc` where the tick (`run_due_tasks`, `execute_task`, `_prepare`, `_record`) is
with it; `planned` the `DuePlan` in hand; `manual` how many forced runs (`force=True`) are under way.

* A time is what it means now: none, in the future, due. `TimeComes` is the clock. The
  rule's own dates are abstracted: after a run there is a next one or, when the rule has run out
  or this is the last of `max_runs`, none.
* `Claim` is `claim_due`; `_prepare` is two steps, the plan and its commit, because it awaits
  the feature switch and the group's latest bot between them. A plan skips, defers or runs, by
  choice where it depends on those or on the policy for late occurrences.
* `Record` and `RecordManual` are the same `_record` with its outcomes (ran; creator gone;
  failed, with the retry or the pause after too many failures). `PrepareFails` and
  `RecordFails` are the errors that are only logged.
* A command is two steps. `Pause`, `Resume`, `Cancel` and `Edit` read the row and decide; `Lands` is
  the commit, which writes the columns that were changed on the row as it is by then. Between the
  two the chat tools (`tool_handlers/schedule.py`, `private_schedule_tool.py`) and the member's own page
  (`me_schedule_routes.py`) await the role of the author, the panel (`webui/schedules.py`) only the
  commit itself. No commit compares revisions; the panel's edit compares those
  it read, and a body may leave them out. `held` are the commands in between, at most `MaxCommands`.
  An UPDATE of a row that was deleted meanwhile raises, and a stop drops them.
* `Stop` ends tick and forced runs at any await; rows stay. `LeaseExpires` is the fifteen
  minutes of `LEASE_DURATION`.
* `owed` (a time has come and was not answered), `moved` (a command wrote the time after the
  claim), `orphan` (a stop or an error cut the claim off) and `bare` (the last commit of a status was
  a resume's that found the time it had read gone) are history variables.
* Left out: several tasks in one tick, the revision check of `claim_due` (it cannot fail with
  one tick per process, `max_instances=1`), the run log, usage counts.

### ReminderJobs

`row` is the `ScheduledReminder` (there, its schedule, enabled), `job` the APScheduler job of that
reminder, `run` a firing of it (`_run_reminder_job` to `_finalize_once`), `cmd` a half-done
command per client, `past` the dates that have come, `sends` how often each date was sent.

* A command has two steps, with the commit between them, and undo steps where the code has
  them: `CreateUndo` and `EditUndo`, `EditUndoJob` when the job is refused because the date has
  come meanwhile, `EnableFails` and `DisableFails` when the commit fails. The commit of an undo may
  fail itself (`CreateUndoFails`, `EditUndoFails`).
* A date's job is gone once it fires; a firing during a run of the same job is dropped
  (`max_instances=1`), and one later than `misfire_grace_time` is a `Misfire`.
* `Restart` is a stop with the restore of `_restore_reminder_jobs`; `RestartBare` the start
  whose restore fails, which the code logs and survives.
* `upset` is a history variable: which of three kinds of event have kept row and job apart since a
  restart last read the rows. A `race`: another command or a run wrote the row or the job between the
  two steps of a command or of the end of a run. A `lapse`: the date of a reminder that is being
  enabled fires before its row is switched on; a date fires during another run of the reminder, or
  is found too late; the old date, which an undone edit or a failed switching off goes back to, has
  come meanwhile. A `fault`: a commit that undoes a creation or an edit fails, or a session of a run,
  or the reading of the rows at the start. The first lapse takes no fault and no second command.
* Left out: limits per group and creator, `last_*` columns, sending at once by hand, the
  dialogues, the message itself.

### ChatMode

`current` is the user's entry in `_states`; `mode`, `queue` and `slot` are `in_mode`, `queue` and
`worker` of each state object, which lives on while a worker holds it; `task` the worker tasks with
the state they were made for (`born`) and serve (`st`), the messages in hand and a pending
cancellation (`cut`); `lock` the user's turn lock with its line; `reset` and `once` the handlers of
`/新对话` and of a single `/对话 <text>`; `fate` what became of each message.

* A worker reads its state when it first runs (`Start`), waits for a message or the idle timer
  (`Get`, `TimerFires`, `TimedOut`), merges a burst (`Merge`; none where the window is zero), waits for the lock and has its turn
  (`TurnStart`, `TurnEnd`). The timer and what the task does about it are two steps; a message
  may come between them. A cancelled task ends at its next step (`Cut`), through its finally.
* Messages of the mode, automatic replies and commands await the feature check (`Say`; `Permit`,
  `PermitAuto`, `Deny`) and then find the entry as it is.
* A reset takes the lock, stops the worker, deletes the session and starts a worker again
  (`Reset` to `ResetDone`); `ResetFails` is an error of the commit.
* `broken` (a reset failed, no message since) and `strayed` (a worker took up another state than
  it was made for) are history variables.
* `once` stands for every other holder of the lock out of the mode (the private agent's report
  and resume turns do the same). Errors inside a turn are answered to the user and end it like
  any other turn. Leaving pauses automatic replies only where they are on, which is assumed.
* Left out: the panel and the admin routes delete sessions without the lock; media of a burst; the
  eviction of idle locks beyond 4096 users.

## 3. Runs

| Run | Bounds | Shows |
|---|---|---|
| `fanqie_faults` | 2 job ids, 1 chapter, queue of 1, 2 clients, 2 submissions and either a retry, a deletion, a lost connection and a database error, or a cancellation, a sending and an expiry | `TypeOK`, `QueueMirrorsIds`, `RunningHasWorker`, `DownloadsKept` |
| `fanqie_promise` | 2 jobs, queue of 2, 1 client, budget: cancel, retry, send, expiry, commits that are timely | `NoHoles`, `KeepsPromise` (refinement of `JobLifecycle`) |
| `fanqie_restart` | 2 jobs, queue of 1, a retry and a restart, fair | `NoneForgotten`, `EveryJobSettles` |
| `fanqie_notify` | 1 job, connection lost once | `NotifyKeepsStatus` is violated |
| `rooms` | 2 groups, 2 humans, 1 machine player, 2 games of either kind, 3 commands in all, fair | `TypeOK`, `LeasesAgree`, `EngineHasRoom`, `OneSeat`, `RoomFreed` |
| `werewolf` | 5 seats, 5 boards with all roles the engine tells apart but the seer and the keeper, 2 sets of house rules, fair | `TypeOK`, `SheriffLives`, `ShotsAreOwed`, `NobodyUnasked`, `OverWhenWon`, `ElectedOnce`, `DayShortens`, `DayEnds` |
| `schedules` | `max_runs` up to 1, 2 failures, 1 forced run, 2 commands under way, one each of pause/cancellation/deletion, resume, edit, forced run and stop/error, fair | `TypeOK`, `LeaseReleased`, `ActiveHasNext`, `RunLimit`, `StartsAreOwed`, `EndedStaysEnded`, `DueIsAnswered` |
| `reminders` | 2 clients, 2 dates and a cron rule, 3 commands, a restart, a misfire, a database error, fair | `TypeOK`, `JobMatchesRow`, `SentOnce`, `OnceEnds` |
| `chat` | 2 messages and a command, 3 states, 3 workers, queue of 2, each outside event once and 3 in all, fair | `TypeOK`, `ResetAlone`, `QueueHasWorker`, `OneWorker`, `ModeEnds`, `LostOnlyWhenLeft`, `WaitingIsServed` |
| `rooms_host`, `rooms_mute` | 1 group, 1 game | `RegistryKnowsHost`, `NobodyLeftMuted` are violated |
| `werewolf_news` | 5 seats, 1 board with the keeper, last words for all | `NewsOfYesterday` is violated |

Bounds and why they do. Two jobs are what it takes for one to wait while another runs and for
an id to be given out again beside a live one; a queue of one is already full with the second.
A single chapter has every transition of the chapter loop (fetched, kept, skipped, failed) and
of its end. The budgets let each outside event happen against every step of the worker; each
property has a change of the code (`mutants`) that breaks it within the same bounds. Two games
suffice for an old engine to meet a new room in its group, and for one user to be wanted by two
kinds; two groups for a seat elsewhere. Three commands are, for example, a join, a leave and a
stop of the same room, or three stops that overlap. What remains of the bounds on rooms is lifted by the theorems.

A `max_runs` of 1 makes a scheduled run the last of its rule, and none a run with others to come; two
failures are a retry and a pause; one forced run is one more than the tick; two commands under way
are one that overtakes another. Three commands of two clients are a creation with two that overlap, and two
dates an edit from one to the other.
Five seats are one or two wolves and the others, which is room for a chain of two shots
with the badge passed on, a detonation that takes a player along, a duel, and a tie that is voted on
again. The boards of `werewolf` and `werewolf_news` together have every role the model tells apart; those of
the bot have six to twelve seats.
The theorems hold for all seats, boards and house rules.

`DayShortens` is the argument for `DayEnds` as an action property. A day is measured by its place
(`Ahead` orders the places; in the settlement it is where the day goes on after it), then by who is
alive, then by what is left to do for the dead (`Work`). Every step of a day that does not end it
lowers the measure, but for one: in the candidates' window a player may run and withdraw as often as
he likes until its timer runs out.

`CHECK_DEADLOCK FALSE` is in every configuration because budgets, games and commands run out
and the system then rests.

`fanqie_promise` has a queue that holds every job, no deletion, a steady connection and timely
commands. With a full queue a row is committed before the queue is tried, and the fill may pick it up
before it is marked failed, so a job that was refused runs (listed as a hazard); a deletion while the
job runs and a lost connection after completion break the promise in the ways the hazards
and the finding describe. `Timely` says what a command's commit may still find: a cancellation finds
the job active or cancelled, and not un-cancelled meanwhile; a retry finds it settled, with no
cancellation it has not seen, and not in the worker's hand; an expiry finds it completed. The code
makes none of this sure, since a command reads, awaits and writes, but the awaits are short: two
database calls. Without `Timely` TLC finds both properties violated. The way to a book with a hole:
a cancellation that read the job as queued sets it to cancelled while it runs; its user retries it; the
retry resets a chapter that was found unavailable behind the worker; the worker merges and
completes. The cancellation that crosses the worker's commit of "running" is within `Timely`.
`RunningHasWorker` is stated for at
most one database error (a second one, inside the handler of the first, ends the worker and
leaves the row running until the next restart), `NoneForgotten` for none (the fill gives up
when its read fails). `DownloadsKept` speaks of what a retry chooses when it reads; a chapter that
another retry had fetched again in between is reset all the same.

Fairness. `FairSpec` of `FanqieJobs` has weak fairness on the worker and on each handler that
is between two of its blocks: the event loop runs whatever is ready, and requests to the site
and chat API time out. Commands, failures and restarts are never assumed. `FairSpec` of
`GameRooms` has it on `stop_game` and on an engine that is on its way out; nothing is assumed
of players or of a game's end.

`FairSpec` of `AgentSchedules` has it on the tick, which APScheduler calls every few seconds and
whose runs have a time limit, and on the clock of the lease; that a planned time comes is not
assumed. `FairSpec` of `ReminderJobs` has it on a date's firing (the scheduler's promise), on the
run and on the second steps of commands. `FairSpec` of `ChatMode` has it on workers and on the
handlers under way: turns end, by the time limits of the model calls; idle timers and users are
not assumed. `FairSpec` of `WerewolfPlay` has it on `Expire`, the end of a window and the steps
between windows: every window of the engine runs against a timer. No player is assumed to act, and
no night to end: `DayEnds` is about days.

Exceptions the properties name. Each is what the code does, is reachable in the run, and is listed
as a hazard where it can harm.

* `RunLimit` speaks of rules that nobody edits, resumes or forces: a forced run counts and is not
  refused at the limit, and a resume during the last run gives the task a next time.
* `StartsAreOwed` excepts a time that was rewritten between claim and plan, since `_prepare` does not
  ask again whether the task is due.
* `EndedStaysEnded` excepts the run under way that goes wrong after the end, when `_record` pauses a
  task that was cancelled; and the late commit of a command that had read the task before it ended
  (`may`). A task that completes between a member's `/resume` and its commit is active again.
* `ActiveHasNext` excepts a last run cut off by a stop or an error, and a resume that commits late
  (`bare`): the plan has taken away the time it read, and it does not write it again.
* `JobMatchesRow` and `OnceEnds` except what `upset` lists. One lapse deserves a reader's eye: a
  reminder enabled just before its date, whose job fires while the row still reads off, stays on, past
  and silent, and nobody is told. `OneAtATimeAgree` (§4) says what has to be ruled out for row and
  job to agree without exception.
* `WaitingIsServed` and `QueueHasWorker` except a failed reset; `WaitingIsServed` also a message that a
  reset drops from the hand of a worker in its burst window (`DroppedByReset`); `LostOnlyWhenLeft` a
  reset and an idle timer; `OneWorker` a strayed worker. `LossesExcused` (§4) proves that there are no
  other losses.
* `ShotsAreOwed` counts shots against shooters, and does not say who was shot by whom: a wolf king who
  detonates in last words and is shot in the settlement before it passes through two settlements.

Some lines of the repository promise otherwise than what is excepted or ruled out here, beside those
quoted by the findings: `docs/fanqie-notice.md:79-80` (no book with holes is merged) against a retry
that is not timely; the hint at `tool_handlers/schedule.py:370`, which offers an edit as the way to
reopen a task that has ended; `yawn_werewolf/commands.py:520` (only machine players left counts as an
empty room) against the kick of a host who is the last human, which leaves such a room open and has a
theorem (`OnlyKicksLoseTheHost`) and no run.

### What the runs found

* `fanqie_notify`: with no connection, `get_bot()` raises outside `notify_group`, whose
  docstring promises that a failed notification does not affect the job; a job that is
  completed, perhaps sent, is marked failed.
* `rooms_host`: the lease keeps the first host; after a hand-over `resolve_game_access` takes
  the one who left for the host, and not the new one.
* `rooms_mute`: `stop_game` interrupts the clean-up of an engine that is already in its
  finally, which its comment rules out; the group stays muted.
* `werewolf_news`: a wolf who detonates during last words at daybreak ends the day before
  `_run_day` has come to the line that clears `last_exiled_seat`; the next night the gravekeeper is told
  of "yesterday's" exile of an earlier day, against the comment at `engine.py:2190` and the role's
  text (`roles.py:432`). It takes `night_last_words = "all"`.

## 4. Proofs

`GameRoomsProofs` proves, for any users, groups, number of games and of commands:

| Theorem | Says |
|---|---|
| `Inductive` | `Spec => []IInv` |
| `TypeCorrect` | `Spec => []TypeOK` |
| `BooksAgree` | `Spec => []LeasesAgree` |
| `RoomsKept` | `Spec => []EngineHasRoom` |
| `SeatsUnique` | `Spec => []OneSeat` |
| `StopTakesHold` | an engine a stop waits for is cancelled or on its way out; no room stands behind an engine that is gone without a stop waiting to free it |

They rest on `RegistryAssumption` (the token for "no lease" is no lease) and `RoomsAssumption`
(humans and machine players are disjoint and make up the users, the tokens for no group and no
user are none). TLC evaluates both on every run of `MCGameRooms`.

The argument. `LeasesAgree` is close to inductive: each registry function is shown to keep
the agreement (`OpenAgrees`, `JoinAgrees`, `LeaveAgrees`, `DiscardAgrees`) where its caller's
guard holds. `EngineHasRoom` is not inductive: a second `stop_game` finds no worker and discards
at once, which is harmless only because whoever took the worker reference has cancelled the
engine. `TaskInv` says that: an engine that has not reached its finally still has its worker
reference or a cancellation under way, and a game that was never opened has neither stops nor
a cancellation. `Placed` says that an opened game has a kind and a group. `IInv` joins
`TypeOK`, `Placed`, `TaskInv`, `LeasesAgree` and `EngineHasRoom`. `OneSeat` follows without induction: two
engines at work have registered rooms, a user in both would have an index entry in both, and
his single lease would make kind and group, hence the game, the same.

`StopTakesHold` is the safety part of `RoomFreed`: where a room is told to stop, some step that frees
it is under way. `StopInv` needs both directions: a cancellation belongs to a stop that waits, and a
stop that waits has cancelled, until the engine reaches its finally.

The two runs on rooms that find a property violated show one way there. That there is no other is proved,
in the form: the property (or what is left of it) holds in every behaviour without that step.
The same is proved of the kick, which has no run.

| Theorem | Says | So the cause is |
|---|---|---|
| `OnlyKicksLoseTheHost` | a room that takes players and was not told to stop has its host among its members, or among those it kicked | the kick |
| `OnlyHandOversMislead` | `RegistryKnowsHost`, if no game that was opened changes its host (`Keeps`) | `rooms_host`: the hand-over, which tells the registry nothing |
| `OnlyInterruptionsLeaveMuted` | `NobodyLeftMuted`, if no cancellation reaches an engine in its clean-up (`Spared`) | `rooms_mute`: the stop in the finally |

The conditions stand beside `Spec` as `[][Keeps]_vars` and `[][Spared]_vars`: they choose behaviours of
the same program, and TLC checked the properties on the specification restricted to them before they
were proved. The first needs `HostInv`, which follows the host through `leave_signup`'s two outcomes;
the last `MuteInv`: a muted group has a werewolf engine that has not finished its clean-up.

`FanqieJobsProofs` proves, for any number of jobs, chapters, clients, restarts and other outside
events, and any queue size and quotas:

| Theorem | Says |
|---|---|
| `TypeCorrect` | `Spec => []TypeOK` |
| `QueueCorrect` | `Spec => []QueueMirrorsIds` |
| `OneRunning` | `Spec => []RunningHasWorker` |
| `DownloadsStay` | `Spec => DownloadsKept` |
| `OnlyAFailingHandlerStrands` | with any number of database errors a row says "running" only while the worker has it in hand, if none of them hits the handler (`HandlerHolds`) |

They rest on `FanqieAssumption` alone (the bounds and limits are positive, the tokens for no
user and no group are none, the budget is a natural number for each kind of event), which TLC
evaluates on every run of `MCFanqieJobs`. Each follows from an invariant of its own next to
`TypeInv`, which adds to `TypeOK` where the program counters point (`Pointed`: a worker inside
`_run_job` has a job, one inside a chapter has a position of its snapshot, a handler under way
has a job).

* `QueueMirrorsIds` is inductive. Its proof has a lemma for the append, one for the get, and one
  for the steps that leave the queue alone.
* `RunningHasWorker` is not: a worker may leave a job through the notification, which writes no
  row, and its exception handler may itself fail. `RunningInv` adds that a job being
  announced or sent no longer says "running", and that neither does one that reached the handler
  without a database error (the missing connection and the deleted row are the other two ways
  there). Hence one error is survived and a second, in the handler of the first, is not; and
  `OnlyAFailingHandlerStrands` says that this place of the error, not its number, is what counts.
* `DownloadsKept` relates two states. `AskingInv` says why no step breaks it: the worker asks the
  site, and writes a failure down, only for a chapter it does not have, and nothing else
  completes or writes that chapter's file meanwhile; and a job without a row has no chapters,
  so an id that is given out again takes nothing away.

`FanqiePromiseProofs` goes on from there:

| Theorem | Says | Under |
|---|---|---|
| `AllPickedUp` | `Spec => []NoneForgotten` | no condition |
| `OnlyTheJobInHandGetsHoles` | `[]NoHoles` | `HandsOff` |
| `PromiseKept` | `Spec => KeepsPromise`, the refinement of `JobLifecycle` | `Steady` and `Timely` |
| `OnlyFaultsFailABook` | `NotifyKeepsStatus` | `Calm` |

`HandsOff`, `Timely` and `Calm` stand beside `Spec` as `[][...]_vars`. `HandsOff` rules out two steps, a
retry that lands on the job in the worker's hand and its deletion; sizes, errors and restarts are
arbitrary. `Steady` is a condition on constants: a queue that holds every job, no deletions, and
neither the connection nor the database ever lost. Those are the bounds of `fanqie_promise`, and the
code needs them: a full queue refuses a job that is already committed, and the fill may run it all
the same; a deletion gives a worker's job id out again; a lost connection or a database error sends a
job that goes on to the exception handler, which marks it failed. Everything else is arbitrary,
restarts, cancellations, retries, expiry and the feature switch included.

* `NoneForgotten` is about a worker that sleeps on an empty queue. `SleepInv` follows it one step
  further back, through a fill that has read nothing: by then a row that says "queued" belongs
  to a command that has committed it and will queue it. That a fill which reads nothing has
  found nothing uses that job ids are well ordered (`FillFinds`).
* `NoHoles` needs that the job in hand has a row (`Grasp`). `LoopInv` says that the worker's snapshot
  is that of the job and that the chapters behind it are settled; what may unsettle them is a retry's
  commit, which `HandsOff` keeps from this job.
* For `PromiseKept`, `SteadyInv` says what the worker knew when it decided and still holds when it
  acts: a job it begins waits or was cancelled, a job in hand runs or shows as cancelled, a job it ends
  as cancelled was asked to end, and a cancelled job keeps its flag. That no job is refused is the
  pigeonhole principle on the queue, whose members differ (`QueueHasRoom`). Then
  each step is one transition of `JobLifecycle`, or leaves rows and wishes alone (`Promised`).
* `OnlyFaultsFailABook` explains `fanqie_notify`. `Calm` rules out four things: no connection when the
  group is told of a job, a database error when a finished job is looked at or its delivery
  written down, a command that found the queue full, a send that found the book gone and writes so
  when it is back. Without them no completed job whose book is
  there is failed, for every size of the queue and whatever else happens. The first is the finding, the
  others are hazards. `BookInv` says that the row which the worker may still fail is not completed.

`AgentSchedulesProofs` proves, for any limits, budget and number of forced runs:

| Theorem | Says |
|---|---|
| `Inductive` | `Spec => []IInv` |
| `TypeCorrect`, `LeasesGivenUp`, `ActiveRunsAgain`, `RunsLimited` | `TypeOK`, `LeaseReleased`, `ActiveHasNext`, `RunLimit` are invariants |
| `StartsAnswer`, `EndedStays` | `Spec => StartsAreOwed`, `Spec => EndedStaysEnded` |
| `OnlyALostRunStrands` | an active task without a time to come has a run under way or is what a late resume left (`bare`), if no run is stopped or left unrecorded (`RunsEnd`) |

from `SchedulesAssumption`. `ActiveHasNext` is inductive. `LeaseReleased` needs that a row that is
not there has no lease (`LeaseInv`). `RunLimit` needs `CountInv`: while nobody touches the rule,
what is planned and under way fits in what is left of it, so a running task that has a next
time has two runs left. `StartsAreOwed` needs `OwedInv`: a claim is never of a time that was
answered, and a plan never puts a due time into the row. `ActiveHasNext` excepts every claim that was
cut off; `OnlyALostRunStrands` narrows this to the one place where it matters, between the commit of
`next_run_at` for the last run and `_record`: stops and errors anywhere else leave the task its time.
A command between reading and commit was decided on a row that may since have changed in every column;
what the proofs know of it is what it will write (`HeldInv`: a status, and a time unless the task ends
or is paused; and that it had read the task open or edits it), and for `RunLimit` that a pause or a
cancellation touches neither count nor limit (`HeldFresh`).

`ReminderJobsProofs` proves, for any clients, dates and budget, `Inductive`, `TypeCorrect`,
`RowAndJobAgree` (`JobMatchesRow`) and `NeverTwice` (`SentOnce`) from `RemindersAssumption`.
`JobMatchesRow` speaks of states at rest, and of behaviours in which nothing is `upset`; `MatchInv` says what makes it come true: until then row
and job agree, or a command is half done, or the run that fired will switch the reminder off
(`WillEnd`), or it has and is about to remove the job. `CmdInv` is what a half-done command knows
of the row. `SentInv` says that a date that is about to be sent, or was, has no job any more.
From the same invariant, `NoneLeftBehind` is the safety part of `OnceEnds`: a reminder that is on and
whose date has come has a job to fire, or a run or a command is in the middle of it.
`OnlyDisturbedRunsEndAnother` is about `_finalize_once`, which compares no times: a run switches off
the reminder only for its own date if it is `Undisturbed`, that is, begins with no command half done,
on a row and a job that agree, and nothing gives the row another time while it lasts. TLC finds a
counterexample for each part of the condition that is dropped.
`OneAtATimeAgree` does without `upset`: in behaviours that are `Orderly`, row and job agree at rest.
`Orderly` speaks of steps of the program: commands and runs come one at a time, no command begins while
a firing is due, no old date comes that a command may go back to, and no firing is late, no undo, no
session of a run and no restore fails. Its invariant `Calm` says what a command or a run finds that
nobody has overtaken (`Finds`, `RunFinds`).

`ChatModeProofs` proves, for any messages, state objects, workers, queue limit and budget,
`Inductive`, `TypeCorrect`, `ResetsAlone`, `QueueServed`, `WorkerAlone`, `ModeEndings` and
`LossesExcused` (`LostOnlyWhenLeft`) from `ChatAssumption`. The invariant: a slot holds the worker made for its state, alive and not
cancelled, and every worker that is not cancelled is in a slot (`SlotInv`); whoever is in a turn or
a reset owns the lock (`LockInv`), so two are never there; as long as no worker strayed, each serves
the state it was made for (`StrayInv`). `QueueHasWorker` is inductive beside these. The lemmas
on the lock say that a release, or the loss of a waiter, takes it from nobody else. For
`LostOnlyWhenLeft`, `HandInv` says that only a worker between its queue and the end of a turn holds
messages, and that those of a turn count as started; the proof then follows a message from
the queue to the hand through the get and the merge of a burst.

`ChatTurnsProofs` goes on with where messages are. State objects outlive the mode and may be taken up
again, a cancelled worker keeps what it holds until its finally, and a reset starts a worker on a
queue that has waited, so that a message has one place only is no matter of shape. `OnePlace` is the
invariant `PlaceInv`: queues have no member twice or in common (`NoTwins`), what is in one waits and is
in nobody's hand (`QueuesWait`), hands have nothing in common (`HandsApart`), and what is in a hand has
started exactly when its turn has (`HandsTell`). `OneTurnEach` follows: a turn starts only with
messages that wait, and marks each as started, hence none is answered twice and none after it
was turned away. No run checks these two; TLC checked both on the instance of `chat` beforehand.

`WerewolfPlayProofs` proves, for any seats, boards and house rules:

| Theorem | Says |
|---|---|
| `TypeCorrect` | `Spec => []TypeOK` |
| `EveryShooterAsked`, `ShotsAreEarned` | `NobodyUnasked`, `ShotsAreOwed` are invariants |
| `SheriffIsAlive`, `OneElection` | `Spec => []SheriffLives`, `Spec => ElectedOnce` |
| `NothingAfterVictory` | `Spec => []OverWhenWon` |
| `OnlyACutDaybreakGivesOldNews` | `NewsOfYesterday`, if nobody detonates in the last words of a daybreak (`CutAtDaybreak`) |
| `NoDayTurnsBack` | `Spec => DayShortens` |

from `DealsAssumption` (finitely many seats, and on every board somebody of each camp), which TLC
evaluates on the run of `MCWerewolfPlay`. `TypeInv` adds to `TypeOK` that whoever the engine waits
for is there. The lemma `Shapes` carries the rest: every step is quiet (nobody dies, the queue of
deaths stays), or queues new deaths for a settlement that begins, or is one of the six steps of the
settlement, so that each invariant is shown for three shapes and not for thirty actions.

* `OwedInv`: a dead shooter with a shot due has been asked or waits in the queue. Between
  settlements the queue is empty, hence `NobodyUnasked`.
* `ShotInv`: the players shot are no more than the shots used, and a shot is used only by someone
  who died with a right to it, once. `ShotsAreOwed` follows by counting.
* `CampInv`: what the campaign and the badge know of each other: as long as the campaign is to come
  nobody was elected, and there is never more than one badge. `ElectedOnce` follows.
* `BadgeInv`: a dead sheriff is in the queue and is none of those the loop would pass over
  with `continue`. `SheriffLives` alone is not inductive, since it says nothing of the settlement.
* `WonInv` and `NewsInv` are the two properties with what holds during the settlement.
* `DayShortens` needs beside `TypeInv` only where last words lead (`WordsInv`); each step is then
  compared in the measure. That the measure is well founded, and that timers run, is what is left
  to TLC for `DayEnds`.

Only model-checked is what is temporal under fairness (`EveryJobSettles`, `RoomFreed`,
`DueIsAnswered`, `OnceEnds`, `WaitingIsServed`, `DayEnds`), which is beyond the prover, and the
violations of §3. Every safety invariant, every action property and the refinement that a passing
run checks is also a theorem, on the conditions named above for `NoHoles` and `KeepsPromise`. Of three of the temporal properties the safety part is one, too:
`StopTakesHold` for `RoomFreed`, `NoneLeftBehind` for `OnceEnds`, `NoDayTurnsBack` for `DayEnds`.

## 5. Plan

1. `WerewolfQueue`: `submit_action`, `release_action`, `drain_actions` and the engine's waiting
   loop: the per-player counts equal the pending actions. An abstract queue as its
   specification. The counts are worth a theorem.
2. `AgentTasks`: durable tasks and offers of the private agent across a restart.
3. The tabletop engine, of which so far only the room is modelled.

Done since the first plan: `ReminderJobs`, `ChatMode` (planned as `ChatQueue`), `AgentSchedules`
(planned as `ScheduleRunner`), `WerewolfPlay` (planned as `WerewolfGame`), and the proofs of
`NoHoles`, `NoneForgotten`, `KeepsPromise` and `LostOnlyWhenLeft`. After these the theorems that name
the causes of what is violated or excepted (`Only...`), the places of messages, and the measure of a
day. Worth proving next: that `StopTakesHold` and `NoDayTurnsBack` have their like for
`EveryJobSettles` and `WaitingIsServed`.

Not planned: site access, prompts, media and speech of the agent, accounts, the admin panel's
routes and front end, the sandbox's process control. `PROJECT.json` gives each its reason.
