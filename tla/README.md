# Verification of claude-agents-mcp

claude-agents-mcp is an MCP server: a Go process, one per MCP client, whose tools
manage the background sessions of the `claude` CLI. Any number of server
processes run at once, on one machine, over the same files and the same daemon,
and each of them handles tool calls concurrently. The agents view (the CLI's own
picker) and the `claude` binary use some of the same files.

These modules model the parts of the server where several processes, crashes,
failures and time meet: the directory lock, the mailboxes, the long poll, the
sent ledger, the delivery of a prompt to a live session, the change of its
permission mode, the waking of a session that is not running, the trust record of
a workspace, the files of the agents view, and the addressing of messages. TLC
checks them on small instances; TLAPS proves what matters most for every value of
the constants.

## 1. The system

Paths are relative to `src/internal/agents/` where no directory is given.

| component | state | operations | interacts with |
|---|---|---|---|
| directory lock (`fleet.go` 37-72) | `<target>.lock`, a directory; its mtime | `acquireLock`, `acquireLockWait`, the returned `release` | taken around mailboxes, the key index, pins and order files |
| mailbox (`mailbox.go`) | `log.jsonl` (append-only), `state.json` (two watermarks) per mailbox | `Append`, `Fetch`, `Ack`, `ReadAfter`, `Find`, `Status`, `Create` | under the directory lock; `Find` and `ReadAfter` without it |
| mailbox wait (`mailbox.go` 462-536, `internal/mcpserver/server.go`) | the size of the log seen last, a deadline, a context | `Wait` | polls the log, then `Fetch` or `ReadAfter` |
| sent ledger and messages (`ledger.go`, `message.go`) | `sent/<id>.json`, `sent/keys/<sender>__<key>` | `claimKey`, `writeSent`, `readSent`, `SendMessage`, `MessageStatus` | mailboxes, prompt submission, the directory lock |
| prompt submission (`submit.go`, `reply.go`) | an evidence baseline: roster state, transcript sizes | `SubmitPrompt`, `Reply`, `submitViaPTY`, `submitEnterUntilStarted` | daemon socket, the session's terminal, its transcript, dialogs |
| dialogs (`dialog.go`, `dialog_answer.go`) | the dialog on the screen | `DetectDialog`, `answerDialog`, `SettleResumeDialog` | terminal; used by submission and resume |
| resume and wake (`resume.go`) | the roster, respawn records, the session's process | `DispatchResume`, `ResumeInPlace`, `EnsureLive`, `ResumeByCLI` | daemon, dialogs, trust |
| permission modes (`permission.go`) | launch flags in a job's `state.json`, the footer on the screen | `CyclePermissionMode`, `SetJobPermissionMode`, `SetPermissionMode` | terminal, resume |
| workspace trust (`trust.go`) | `~/.claude.json` | `PreTrust`, `markTrusted` | the `claude` binary writes the same file |
| fleet files (`fleet.go` 74-401) | pins, two order files, a job's `state.json` | `Pin`, `Reorder`, `RenameJobState` | the agents view |
| addressing (`address.go`, `identity.go`) | none; environment, mailbox directories, roster | `ResolveTarget`, `Whoami`, `RegisterMailbox` | decides who gets a message |
| daemon client (`client.go`, `attach.go`, `keys.go`, `ansi.go`) | a socket connection per request | `List`, `Resolve`, `Snapshot`, `send`, waits | everything that touches a session |
| orphans, transcripts (`orphan.go`, `transcript.go`) | none; reads transcripts | `FindOrphan`, `markTranscript`, `Landed`, `Grew` | submission, resume |
| fork, CLI bridge (`fork.go`, `cli.go`) | none | start the `claude` CLI | |
| MCP server (`internal/mcpserver/server.go`, `cmd/`) | none | declares the tools, maps calls | all of the above |

What is hard, and what makes each part correct:

* **Directory lock.** Liveness by theft: a lock older than 10 s is removed by
  whoever sees it. At most one process holds it; nobody removes a directory
  somebody relies on; a call ends; an abandoned directory is recovered.
* **Mailbox.** Read-modify-write of two files, writers that die in the middle of
  a line, failing syncs. Each message is stored once and handed out once, the
  watermarks keep their order and skip nothing, and what `Append` answered for is
  in the log.
* **Wait.** A remembered size stands for a read. No message is overlooked; the
  call ends.
* **Sent ledger.** Retries with an idempotency key, crashes between claim, record
  and delivery. One delivery per key, nothing delivered unrecorded, and answers
  and statuses that are true.
* **Submission.** Acknowledgements that are lost, a session whose input box,
  turns and dialogs change under the caller's feet, and an Enter that is a
  confirmation to whatever has the keyboard. A text is delivered once, a success
  is real, no dialog is answered by accident.
* **Permission modes.** A carousel that is turned by keys nobody acknowledges and
  read off a screen that may be behind; launch flags in a file that others rewrite
  and that the daemon writes over; a restart in between. A mode that is reported
  is the session's and its next worker's, a walk that fails leaves the session as
  found, and a call ends.
* **Resume and wake.** Several callers share one worker, its screen and its
  keyboard, and a caller that gives up stops what it finds. A failed resume leaves
  no worker behind, and a dialog gets the answer that was asked for or none.
* **Workspace trust.** An optimistic rewrite of a file that every running `claude`
  rewrites too, under a lock that may be stolen, skipped or released by somebody
  else. No other writer's edit is dropped, a trust that is reported stays, and a
  call ends.
* **Fleet files.** A pin set under a lock; order files and `state.json` under none.
  No pin is lost, a reorder lands where it was to, a name given by a user stays.
* **Addressing.** Names, ids, prefixes of ids and mailboxes share one space, which
  changes as sessions come and go. A reference finds the recipient it means and no
  other, and an address that was given out finds its session again.

## 2. The modules

```
 LockService <---implements--- DirLock --implements--> StealableLock
      |                           |                          |
 Inbox <--implements-- Mailbox <--implements-- MailboxOnDirLock
   |                      \________ MailboxOps ________/     |
   |--- MailboxWait       Wait over an Inbox                 |
   `--- SendMessage       ledger, keys, delivery over an Inbox and a StealableLock
 Submit                   SubmitPrompt over a session
 Permission               SetPermissionMode over a session and its launch flags
 Wake                     EnsureLive over a session, its screen and its dialog
 Trust                    PreTrust over ~/.claude.json and the lock claude takes
 Fleet                    pins, order and job state; over a LockService
   `--- Address           pickTarget, FindOrphan, Recipient.Address (operators)
```

`MC*` modules hold the constants of the TLC instances, `*Proofs` modules the
theorems.

**LockService** is what callers of `acquireLock` rely on: one holder at a time. The
mkdir lock keeps that promise while nobody dies. **StealableLock** is what is left of
it when processes do: a directory whose maker has the lock is never judged stale, any
other may be, and who has judged removes whatever directory is there later, as a
release does. Two processes then have the lock when two of them judged the same
abandoned directory. It has no clock, so that modules which use the lock need none.
**DirLock** is `acquireLockWait` branch by branch: `Mkdir`, `MkdirExists`,
`MkdirFails` (any other error is returned), `Stat` with its verdict `IsStale`,
`Steal` (`os.Remove` of the *path* - it does not look whether the directory is
still the one it stat'ed), `GiveUp` and `Retry` for the deadline, and `Release`,
which also removes whatever is at the path. The clock ticks; `age`, `waited` and
`held` saturate one past the limit they are compared with, so time needs no
horizon. With deaths it implements `StealableLock`, as long as holds are short
(`Thieves` are the processes that have found a directory stale). `MaxHold` is the longest a holder keeps the lock: it is an assumption
about the callers, `MaxHold <= Stale` in the runs and theorems about exclusion.
`Removable = FALSE` is a directory that cannot be removed. A crash leaves the
directory behind.

**Inbox** is what a mailbox promises: an append-only sequence of ids and two
watermarks. **MailboxOps** has the three operations, one action per access to a
file: `Append` reads the log, repairs the tail, writes the record, syncs; `Fetch`
and `Ack` read the log, read the watermarks, write them. The log is the messages
`readAll` parses and the way the file ends: in a newline, in a fragment (`torn`),
or in a whole record without its newline (`bare`, which readers see, and which
the next write destroys unless `Append` repairs the tail first). Crashes and
failing writes happen at every access; a write that is cut off leaves any of the
three. **Mailbox** puts the operations under `LockService`, **MailboxOnDirLock**
under `DirLock` (Enter is Mkdir, Leave is Release).

**MailboxWait** is `Wait`: the stat, the read it may skip, the deadline, the
select between timer and context. A write of `Append` reaches the log in two
parts, and `ReadAfter`, which takes no lock, may run in between; a `Fetch` is one
step of `Inbox`, since it runs under the lock.

**SendMessage** is `SendMessage` and `MessageStatus`: the key claimed under the
lock (read, truncate and write of the key file are separate steps, since
`os.WriteFile` is not atomic and a crash leaves the file empty), the first record,
the delivery, the second record; then record, log and watermarks read for a
status, the last two without the mailbox's lock. The lock is a `StealableLock`: its
directory survives the process that made it (one may be left over from before), and
is judged and removed in two steps. `robbed` says that a directory was removed while
the process that made it had the lock, by a second thief or by a release that came
after a theft. What
`SubmitPrompt` makes of a delivery to a session is any outcome: a failure although
the text arrived, and a success although it did not, because a dialog took it, which
`Submit` shows to happen.

**Submit** is `SubmitPrompt`: the daemon's reply with its retries, the paste into
the terminal when the daemon refuses or does not answer, the wait for evidence,
and up to two guarded Enters. The session is not part of the repository; the
module models what the code and its comments say of it. Text that arrives is
submitted, or stays in the input box; a running turn consumes the box when it
ends; a dialog swallows text, and an Enter given to it takes the preselected
option, which discards the box; somebody else may answer it. The transcript shows
a prompt some time after the conversation has it. `Landed` knows a prompt by its
longest line in any user record past the mark, and so does the model: `Lookalikes`
are the calls whose prompt has that line too, `quoted` the calls whose line is in
somebody else's record (a tool result, a prompt typed by a person; `Quoted` bounds
them), `seen` what a scan would find. `Rewrite` is a transcript that is shorter than
the mark and therefore read from its start. `roster` evidence
(`turnStarted`) may appear at any time, because the detail line it compares does.

**Permission** is `SetPermissionMode`: the first read of the footer, the decision
between carousel and restart (`BypassAvailable` asks the saved flags, not the
worker), `CyclePermissionMode` with its walk and its walk back, one key (`Press`)
and one read at a time, the rewrite of the launch flags (`SetFlags`), and the
restart through `Stop`, `waitNotLive` and `ResumeInPlace`. Calls come one after
the other; another call, a person at the session, a rename, a stop and a resume
are the actions of `Others`, which may run at any point. The worker and the daemon
are external: shift+tab leads from a mode to its successor `After`, past bypass in
a worker not launched for it; the footer follows when `Repaint` runs; a worker
told to stop leaves some time later, and until then the daemon writes over what is
written to its job state (the reason `waitNotLive` gives for itself). `alone`
becomes false when `Others` act, or when the call found a session that was still
repainting or leaving; `smooth` when a key or a repaint was lost. Launch flags
that are not about permissions are left out, and so is the `settings.json` mode of
a launch without a mode flag, except for what it does to bypass
(`SettingsBypass`).

**Wake** is `EnsureLive`: in place through the daemon (`ResumeInPlace`, two
attempts, each a `Dispatch`, the polls of `awaitResumed` and, on failure, the stop
of whatever has the short id) or once through the CLI (`ResumeByCLI`); then
`WaitInteractive`, `SettleResumeDialog`, `answerDialog` key by key,
`waitDialogCleared` and `WaitReady`. Which of the two ways is taken is `hasState`.
Deadlines are numbers of polls, and a roster that is out of reach, a key that is
lost, a reply that is lost and a stop that fails may happen each time. The worker,
its screen and the option its dialog has highlighted are shared by the calls and a
person at the session; `DetectDialog` is abstracted to whether it recognises what
is there. The ghosts `stirred` and `swapped` say whether anything happened to the
screen, or another dialog took the place of the one that was recognised, since a
call last looked.

**Trust** is `PreTrust`, `markTrusted` and `markTrustedOnce`: stat, read, temporary
file, the check of `lockHoldLimit`, second stat, rename, the release, and the look
whether the flag stayed, with up to `MaxAttempts` attempts. The file is the set of
edits it holds. `claude` is the other writer: it takes the same lock, and goes on
without it when it cannot get it. The lock is the one of `DirLock` with its age and
its clock: a directory older than `Stale` is found (`FindsStale`) and, in a step of
its own, removed (`Steals`), whichever directory is there by then; a release removes
whoever's directory is there. That such a removal may fail, and the deadline of
the loop, are left to `DirLock`. `Asks` says which
projects a call may be for. `MaxHold` bounds
how long the lock is held up to the check of the limit, `MaxTail` the time from
there to the rename. `quiet` is true while nobody has written outside the lock
since a process read the file or stat'ed it again, `robbed` is true for a process
whose directory another has removed, by a release or by a steal before it was stale,
`taken` for a call whose trust a write outside the lock has undone.

**Fleet** is the files under `~/.claude/jobs`: `Pin` under the lock; `Reorder` with
its keys read one by one and two order files, each emptied and then written
(`os.WriteFile`), under none; `RenameJobState` and `SetJobPermissionMode` on one
`state.json`, under none; the daemon, which names unnamed sessions and starts
workers with the launch flags; sessions that exit and are removed, mailboxes that
are made. Keys are integers, in steps of a float's last bit: a midpoint of
neighbouring steps is rounded to one of them. **Address** has `PickTarget`,
`FindOrphan`, `ValidateMailboxName` and `AddressOf` as operators over the list
`Fleet` yields, and next to them `Meant`, the same said as weights of matches
without an order of looking. The list (`ListOf`) joins the CLI's half, names and
sessions that are stopped, with the daemon's, sessions that are live; when one of the
two fails, it is the other alone. Strings are sequences over a small alphabet, some of
whose characters are hex digits. Case folding is left out.

## 3. The runs

| run | what it shows |
|---|---|
| `lock_exclusion` | 3 processes, no crash, holders done within the stale window: mutual exclusion and no theft |
| `lock_recovery` | 2 processes, 2 crashes: an abandoned directory is removed as long as processes keep calling, a call ends, and the lock implements `StealableLock` |
| `mailbox` | 2 calls, 3 messages, I/O errors and deaths at every access: `Inbox` implemented, and the invariants |
| `mailbox_on_disk` | the same operations under the mkdir lock implement `Mailbox` |
| `mailbox_after_crash` | with a holder that dies and a stolen lock, no message is lost that an `Append` answered for |
| `wait` | 2 waiters, torn writes, aborts, other readers: a timeout means nothing was there, no waiter sleeps on, deadline and cancellation end the call |
| `send` | 2 processes, 2 messages, one key, 1 crash, leftover and stolen lock directories, I/O errors: one delivery per key until a live claim is robbed, record before delivery, statuses that never fall back and that were current |
| `submit` | 2 calls on one session, one of which may lose an acknowledgement, may fail to read the screen, and has a longest line that the other's prompt and tool results have too: one delivery, real successes, dialogs left alone |
| `permission` | calls for any of four modes, with and without restart, on a session that others use: true reports, a session left as found, every call ends |
| `trust` | 2 calls, one for either of two projects, 1 claude, 1 crash, failing file operations, a lock that is stolen in two steps, skipped and left behind: no edit dropped, reported trust stays, calls end |
| `wake` | 2 calls on one session, either way of resuming, lost replies, failing stops, crashes, dialogs, a person: no orphan of a failed resume, dialogs answered as asked or not at all |
| `fleet` | 2 processes, 2 calls, 2 events on 3 sessions: pins kept, reorders land, names stick, references and addresses find whom they mean, also in half a list but for the cases named below |

All runs pass. A directory that outlives its maker occurs in `lock_recovery`,
`mailbox_after_crash`, `send` and `trust`.

**Bounds.** Two processes show every race of this code, since every race here is
between one actor's read and another's write; the lock has a third because a
theft involves a dead holder's directory, a thief and a newcomer. Times are in
ticks of the stale window: what matters is only which of two limits is passed
first. Three messages let a fetch with limit 1 leave something behind twice; two
are enough for the duplicates of the ledger. One crash is enough in `send`: it leaves
the directory that two thieves find, beside the one that may be there from the
start. `MaxEnters = 2` in `submit` is the
code's own; `MaxReplies` is 12 there and 1 in the run, because refused attempts
change nothing but the counter; `MaxDialogs` is 1, and a second dialog adds states only
after the first has ended. In `permission` the
carousel has three modes, so that a walk has a middle, and `MaxSteps` is a full lap
of it (the code's 6 is one more than a full lap of its five); `dontAsk` is a mode
the carousel leaves and never comes back to; what others write to the flags is one
value (`Edits`), different from what most calls write. In `trust` the limit on the
hold (0) plus the tail (1) is the stale window (1), as 5 s and a rename fit into 10 s in the code, and holders may
take longer than that (`MaxHold` 2), so that locks are stolen from processes that are
still at work; two attempts let one be wasted. In `wake` a deadline is one poll, which
lets it pass before, after and between the steps of the other call; three keys are
one more than it takes from one end of the dialog to the other; two events let a
dialog be answered and another one follow. In `fleet` the calls of one behaviour are
all about pins, about the order or about job state (`Concerns`): the three share no
file. Three sessions, two of them started at the same time, are the fewest for which
a slot has two neighbours and a tie; short ids of two characters over a binary
alphabet (`SidLen`, `MaxNameLen`: 36 and 32 in the code) make every kind of overlap of names and ids happen among nine references.
The theorems are for all values.

**Deadlock** is checked everywhere except in `wake` and `fleet`, whose calls and events
are bounded: all of them may be over.

**Types.** The type invariants of `DirLock`, `Mailbox`, `SendMessage`, `Permission` and
`Trust` are proved and therefore not repeated as properties of the runs; nor are
`ImplementsLock` (which is mutual exclusion once more), `KeysStayClaimed`, `MarksOrdered`, `StandingNeverFalls` and, in `mailbox`,
`LogIsAppendOnly`.

**Fairness.** `DirLock`: each process in the loop runs, and so does the clock;
nobody has to call, and nobody has to succeed. `MailboxWait`: a call runs, and a
select that finds the context cancelled again and again takes that case at some
point (Go's select picks among the ready cases at random), hence strong fairness
of `Aborted`; no one has to send, to abort or to run out of time. `Permission`: a
call runs; the screen need not be repainted, the worker need not leave, and others
may press keys for ever, since each wait of the code has a limit after which it
gives up. `Trust`: a call runs; `claude` and the clock may stop, and nobody has to
leave the file alone.

## 4. Where the code and its comments disagree

The runs check what the code keeps. What it does not keep is listed here, with the
way to see it; no run ends in a counterexample.

1. *Two stealers* (`fleet.go:63-65`, "dead holder; steal"). Waiters A and B stat the
   abandoned directory; A removes it and makes its own; B removes A's and makes its
   own. With `MaxCrashes = 1` in `lock_exclusion.cfg`, `RemovesOwnOrAbandoned`
   fails, and then `MutualExclusion`. What follows for the ledger: if a process died
   in `claimKey`, two retries of one send may both get in, both find the key file
   empty, and both deliver, although "two processes retrying the same send at the
   same moment cannot both claim it" (`ledger.go:112-113`). Without `~robbed`,
   `OneDeliveryPerKey` fails in `send.cfg`. The same in `~/.claude.json`: a second
   thief lets another writer in before the rename (*Robbed lock*, below).
2. *Key claimed, record not written* (`message.go:85-97`). A retry in between, or
   for ever after a crash in between, gets an error instead of the first record:
   `RepeatedKeyFindsRecord`, as an invariant of `send.cfg`, fails.
3. *Unread screen* (`dialog_answer.go:26-30`, `submit.go:247`). "Every one of them
   has a safe fallback that does not press it": `NoBlindEnter`, as a property of
   `submit.cfg`, fails.
4. *One line for a prompt* (`transcript.go:130-147`). `Landed` calls it "ground truth
   that the text actually reached the conversation", but what it finds is a user
   record with the prompt's longest line: a concurrent prompt with the same line (a
   retry of a send, a template), a tool result that prints it, or, after the
   transcript shrank, an old one. The call then reports a success for a text that a
   dialog took. A stronger `SuccessIsReal`, with `said[c] > 0` for every result
   `transcript`, fails in `submit.cfg`; so does the plain reading of any success,
   `box[c] + said[c] > 0`, and `SendMessage` records such a message as delivered
   (`message.go:154-164`).
5. *Half a list* (`client.go:101-121`). If the CLI does not answer, the list has no
   names, and a session's name is then whatever else it can be: the mailbox of that
   name, where it would have been ambiguous, or the session or transcript whose id it
   starts. If the daemon does not answer, sessions that only its roster knows are
   missing, and the start of one's id finds another whose id starts the same. Either way the message goes out, without a
   word that the list was short, although "a message is not something to silently
   misroute, so the candidates are reported instead" (`address.go:60-62`). Without
   `NamesNoSession`, or without `NamesNoneUnlisted`, `NeverMisrouted` fails in `fleet.cfg`.

Seen while modelling the trust record, the waking of sessions and the fleet:

* *Robbed lock* (`trust.go:271`, `fleet.go:63-66`). A call that lost its lock to a thief
  still releases: it removes the thief's directory, and the next writer is without
  exclusion. So is a process whose fresh directory a second thief removes, who had
  judged the one before it. Hence `robbed` in `LosesNothing`.
* *Somebody else's arrow* (`dialog_answer.go:44-57`). Two calls that answer one dialog
  both read it, and one's arrow moves the highlight under the other's Enter, which
  may then confirm `compact` for a caller that asked to keep: `stirred` in
  `AnsweredAsAsked`. A dialog that took the place of the recognised one, with the
  same option highlighted, is confirmed as well: `swapped` in `UnknownIsLeftAlone`.
* *The caller that gives up* (`resume.go:345-355`) stops the worker under the short id,
  also one that another call has been told is live. `NoOrphan` says what is kept, not
  that a success stays one.
* *Orphans* (`resume.go:325`, "on failure stops the worker"). A dispatch whose reply is
  lost counts as refused, so does a spawn of the CLI whose output does not parse, and an
  error of the stop is ignored; each leaves a worker nobody stops. All are excepted by
  `NoOrphan` (`by` becomes `Nobody`).
* A screen that cannot be read counts as one without a dialog when a resume settles,
  as in 3: the call then reports a live session while a dialog is up.
* *Midpoints* (`fleet.go:394`). Between equal or adjacent keys there is none: the
  session ends up beside its slot. `Roomy` and `Distinct` in `ReorderLands`.
* *Order files* (`fleet.go:216`). Two reorders at once, or a crash between the writes,
  leave `order` and `stateOrder` with different keys, and a reader takes a file that
  is just being written for an absent one. `calm` in `ReorderLands`.
* *Job state* (`permission.go:200`). `RenameJobState`, `SetJobPermissionMode` and the
  daemon replace `state.json` by what they read, changed: of two at once, one is
  undone.
* *Orphaned transcripts* (`orphan.go`). Of several transcripts that match a reference
  the freshest is taken where a session would be ambiguous, and a session or mailbox
  named like the id of an orphan gets the messages for it.

Of the lock, the mailboxes and the ledger, too: a wait looks at
its context only between polls (`mailbox.go:520`): a call aborted just before a
read still marks messages delivered that nobody gets, although "nothing is lost"
(`internal/mcpserver/server.go:521`). The steal
branch skips the deadline, so a stale directory that cannot be removed makes the
call spin for ever. An error of `lastByte` is ignored, and the record then glued
to a torn line (`mailbox.go:257`). A reader suspended inside `Fetch` for longer
than ten seconds hands out what another reader got (`mailbox.go:385`). A failing
`Sync` makes a message that is in the log "failed" for good (`mailbox.go:266`).
The key files of different senders can collide (`ledger.go:78`). A sender that
dies after the first record leaves "queued" for a message nobody delivers
(`message.go:97`). An unreadable key file counts as a free key (`ledger.go:127`).
The constants `Removable`, `TailUnread`, `KeyUnread` and `MaxHold` switch some of these on.

Two more concern permission modes. The tool's description says that after a
restart with `allow_bypass=true` "every later mode change on that session is a free
in-place switch" (`internal/mcpserver/server.go:396`); a change in place with
`allow_bypass=false` rewrites the saved flags without the allowance
(`permission.go:174-180`, 495), and since `BypassAvailable` asks those flags, the
next call for bypass is refused although the worker could still reach it
(`Reach`). And "the session is walked back to where it started"
(`permission.go:267-268`) cannot be kept for a session that started in `dontAsk`:
the carousel does not lead back there, the walk back ends after `MaxSteps` keys,
hence the exception in `LeftAsFound`.

## 5. What is proved

All theorems hold for any number of processes, calls, messages, senders and keys,
any cursors and limits and any number of crashes, unless an assumption says
otherwise. Assumptions appear in the statements: `HoldsAreShort` (holders finish
within the stale window), `NoStalls` (and do not die), `TailsRead` (`lastByte` does
not fail),
`KeysRead` (a key file that is there can be read), `LockConstants` (what the lock
assumes of its constants) and, for what is left after a death, `OneDeath` and
`WritesSucceed`.

* `DirLockProofs`: types; under `NoStalls`, mutual exclusion, no theft, and
  `LockService` implemented. The invariant: the holder made the directory, the
  directory is younger than the stale window, and no process is about to steal. It
  holds until the first death even without `NoStalls`, if only holds are short enough
  (`LockInvUntilCrash`). After deaths, and under `HoldsAreShort` alone,
  `DirLockImplementsStealable`: a directory is never older than its maker's hold as long
  as that lasts (`AgeInv`), so that only an abandoned one is judged stale; what the two
  thieves do then is in the specification implemented. And `LateRunsOut`, with deaths: although the steal branch does
  not look at the deadline, a call that is past it has at most 3 * `MaxCrashes` + 4
  steps to go, if holds are short and directories can be removed. The invariant
  `RecoveryInv`: a directory is stale only when its maker has died, so that each extra
  round of a call is paid for by a death, whoever steals first.
* `MailboxProofs`: under `TailsRead`, the log is numbered without gaps, each
  message is handed out once and none passed over, what `Append` answered for is
  stored, the log only grows, a status never falls, and `Inbox` is implemented.
  All of it is proved once, of `MailboxOps` whose calls take turns (`TakingTurns`: no
  call takes a step while another is under way), whatever makes them do so. The
  invariant: one call is under way at most, what it has read is still what
  the files say, and what it is about to write follows from it. The lemmas before
  it say what `NextSeq` and `After` compute on a log that is in order. Under
  `LockService` calls take turns, which gives the properties of `Mailbox`; and so they
  do on disk, under the mkdir lock, as long as its invariant holds. Hence, of
  `MailboxOnDirLock`: under `HoldsAreShort`, nobody is handed what another was, and
  nothing is passed over, until the first death (`MailboxOnDiskHandedOnce`,
  `MailboxOnDiskNothingPassedOver`: `crashes = 0 => ...`); under `NoStalls`, `Inbox` is
  implemented, statuses never fall, and the mailbox under the mkdir lock
  implements the one under `LockService`. And after a death:
  with at most one, and writes that succeed otherwise, `StoredWhenAnswered` and
  `LogIsAppendOnly` hold although the lock no longer excludes (`StoredAfterDeath`,
  `AppendOnlyAfterDeath`). The invariant `DiskInv` says nothing of who has the lock: a
  call that has repaired the tail finds it repaired when it writes, because the only
  write that was ever cut off is the dead process's, which was alone (the lock's
  invariant holds until the first death). Both conditions are needed: with
  `MaxCrashes = 2`, or with `IOFaults = TRUE`, in `mailbox_after_crash.cfg`,
  `LogIsAppendOnly` fails, when a write is cut off between the repair and the write of
  another call.
* `MailboxWaitProofs`: types; a `Wait` that times out left nothing behind. The
  invariant: where the remembered size is the size of the log, nothing was in the
  log at the last read that the waiter has not got. And `ExpiredRunsOut`: once its
  deadline has passed, a `Wait` has at most five steps of its own to go.
* `SendMessageProofs`: under `KeysRead`, types; nothing delivered unrecorded; statuses
  current, and never falling back; and, for any deaths and leftover directories until
  the directory of a live claim is removed (`~robbed`), one delivery per key and keys
  that stay claimed. The invariant for the keys: until then whoever has the lock made
  the directory, so that one call claims at a time (`HoldersOwn`); a call past the claim owns its
  key's entry, or has none; everything delivered is recorded under the call that minted
  it. The one for the statuses, `ReportInv`, needs no lock: one call at a time is sending
  a message, and only it writes the record, always for the same recipient; a message
  never stands less far than it did, so a call that asks has, after each of its reads,
  an answer no earlier than its question.
* `SubmitProofs`: types with the limits of replies and Enters; a text whose replies
  are answered is delivered once; a reported success was delivered, if only to a dialog;
  an Enter answers no dialog that was up when the call looked. The invariant counts the
  copies of a text by where its call is. Of a success that was seen in the transcript,
  `Sightings` says whose record it may have been, and the theorem adds the case
  in which it was the call's own: its longest line is in no other prompt and no other
  record. A call is over after 4 * `MaxEnters` + `MaxReplies` + 6 steps
  (`SubmitCallsRunOut`).
* `TrustProofs`: types; `TrustedStays`; and, when the limit on the hold and the tail
  together fit into the stale window, `LosesNothing`, with its two exceptions: a write
  outside the lock (`quiet`) and a directory that another removed (`robbed`). If nobody
  dies and all holds are short, the second cannot occur, and `TrustLosesNothingUnlocked`
  does without it: no directory is ever found stale (`Fresh`). The invariant `TrustInv`: a
  process under the lock that was not robbed and has held it no longer than the
  stale window has the directory, which is as old as the hold, and the time from the
  check of the limit is bounded (`Timely`); a robbed process, or a `claude` outside
  the lock, does not have it (`Owners`); what a process has read is still the file
  while its stat has not changed, or while it has the directory and is `quiet`
  (`Copies`); a call has a verdict only while it releases and a result only when it
  is over (`Silent`). A call is over after 8 * `MaxAttempts` steps besides the rounds of
  the lock's loop, whose bound is `LateRunsOut` (`TrustCallsRunOut`). The properties alone do not give any of these: that a rename
  drops nothing rests on what was read two steps earlier and on who had the lock in
  between.
* `TerminalProofs`, about `Wake`: types with the limits of polls, attempts and keys;
  `NoOrphan`; `AnsweredAsAsked` and `UnknownIsLeftAlone`. The invariants: `Owned`, a call
  has no worker of its own before a dispatch, after it gave up, and when it has failed;
  `Heeding`, a call that sends keys knows what it was asked for, has the dialog it
  recognised in front of it unless that was replaced, and the option it confirms is
  highlighted unless somebody stirred the screen since it read it. A call is over
  after 5 * `MaxPolls` + 2 * `MaxKeys` + 13 steps (`WakeCallsRunOut`).
* `TerminalProofs`, about `Permission`: types with the limits of keys and attempts, and
  `SuccessIsTrue`, for any set of modes and any carousel. The invariant: in a walk
  of an undisturbed call the footer shows where the session is or, right after a
  key, where it was before it, and the walk goes on only when it shows something
  else; in a restart the flags are the call's own from the time the worker is gone.
  And `LeftAsFound`, under `LapAssumption`: from every mode shift+tab leads to, a lap
  of at most `MaxSteps` keys leads back, which is what the comment on `maxCycleSteps`
  says of the carousel. The invariant `WalkInv`: while nothing is lost, the session is
  on the lap of the mode it started in, as many keys along as were pressed since, so
  that a walk that meets no target has come round to the start when it ends. A call
  is over after 2 * `MaxAttempts` + 4 * `MaxSteps` + 12 steps (`PermissionCallsRunOut`).
* `FleetProofs`: for any callers, sessions and names, `PinsAreKept` (the invariant:
  what the holder of the lock has read is what the file says), `NameSticks` (a launch
  flag that names a session has the user's name, in the file and in every copy a call
  has read), `NeverMisrouted` (`PickTarget`, which looks in an order and stops, against
  `Meant`, which has none, for every list of sessions: a case per rung of the ladder;
  then the two half lists against the whole one, `RollAgrees` without names and
  `ShownAgrees` without the roster: what a reference finds in a half it finds in the
  whole, unless it is a session's name, or starts an id the half lacks),
  `AddressReturns`, and `ReorderLands`. `AddressReturns` needs that no title is a
  session id (`Titles \cap Sids = {}`): a title with the form of somebody's full id would
  get that session's messages. `ReorderLands` rests on counting: among different keys
  the ranks are a bijection of the rows onto their positions (`SlotsAreTaken`, by the
  pigeonhole principle), so the neighbours of the slot exist, and a key strictly
  between theirs, or one beyond the last, has exactly the rank of the slot
  (`NewKeyLands`); `ReorderInv`: what a call writes is the key for its slot among the
  sessions it has read, and the first file says so when the second is written.

The theorems named `...RunOut` or `...RunsOut` are the safety half of termination. Each
has a number, `StepsLeft` or `ModeStepsLeft`, that says how many steps a call still has
from where it is with the attempts it has made (in `DirLock` and `MailboxWait`, once its
deadline has passed): it is positive as long as the call is under way, every step of the
call makes it smaller (in `Trust`, every step but a round of the lock's loop), and nothing anybody else does, a session, a daemon, `claude` or
another call, makes it larger. So no order of events, however unlucky, sends one of
these loops round for ever. That a call keeps getting steps is the other half, and needs
the fairness of a specification and ENABLED: `CallsEnd` (of `Permission` and `Trust`),
`BoundedWait` and `WaitEnds` check it on the small instances; `Submit` and `Wake` have
the bound only. A `Wait` that was cancelled while its deadline is far has no bound: its
`select` may take the timer every time, and only strong fairness ends it (`WaitEnds`).

Only model-checked: liveness (`BoundedWait`, `AbandonedIsRecovered`,
`NoLostWakeup`, `WaitEnds`, `CallsEnd`), which the prover does not reach. Every other
property of the runs is proved; those of `mailbox_on_disk`, `mailbox_after_crash` and
`permission` of an instance of the module (`MD!`, `P!`).

## 6. What is not modelled

* Lines longer than the scanner's 16 MiB limit; power loss before `state.json`
  reaches the disk (it is renamed without a sync); `Create` and the existence
  check of a mailbox (it is made before it is addressed and never removed);
  a lock that is not obtained (the call then changes nothing); `Status` and
  `ListMailboxes`, which only read.
* Key files cut off in the middle of an id.
* Screen parsing (`dialog.go`, `ansi.go`, `keys.go`): recognition of layouts.
* `buildSubmitBody`; the title a resurrected session is given, and `resumeFlags`
  beyond the permission ones.
* How the project of a directory is found (`trustProject`, `canonicalWorktreeRoot`),
  which only reads; the JSON of `~/.claude.json` and `state.json` beyond the edits
  and fields named above.
* Who the caller is (`identity.go`): environment variables.
* `fork.go`, `cli.go` (except the resume `Wake` uses), `server.go`, `types.go`: child
  processes, declarations and data types without state of their own.

## 7. Plan

1. **SendMessage over Submit and Wake**: the composition, with the outcomes
   `SendMessage` now takes as any.
2. **Proofs** for what these add.
3. **trustProject** as an operator over directory trees, against a reference
   definition.
4. **Identity**: `Whoami` and `RegisterMailbox` over the sessions of `Fleet`.
