# A TLA+ development for goapp

TLA+ modules that model the concurrent and distributed parts of this Go
application, the TLC configurations that model-check them on small instances,
and proofs that the TLA+ proof system checks. `PROJECT.json` lists the parts of
the system, the runs, which definition models which lines, the mutants that
show that a property can fail, the hazards, the findings and the theorems.

To repeat a check: `tlc -config <cfg> <module>` for a run, `tlapm <module>` for
each module whose name ends in `Proofs`.

## 1. The system

goapp is an application server (`cmd/app`, `internal/app`) over a library of
reusable packages (`pkg`). What keeps state, or runs concurrently:

| Part | State | Operations | What is hard | What makes it correct |
|---|---|---|---|---|
| Snowflake generators, `pkg/distribute/snowflake.go` | last timestamp, sequence | `Next`, `GetWorkerId`, `GetTimestamp` | exhausted sequences, clocks set back, waiting with the mutex held | ids never repeat, within and across workers; calls return |
| `NewID`, `pkg/ids/int64.go` | last timestamp, counter, rollback count and points | `NewID`, accessors | nested rollbacks, a rollback during a wait, restarts | ids unique, rollbacks flagged |
| Redis lock, `pkg/distribute/locker.go` | a Redis key, the released flag, the auto-extend goroutine and its channel | `TryLock`, `Lock`, `Extend`, `Unlock`, `Close` | late and lost commands, expiry against refresh, crashes, `Unlock` against the goroutine | mutual exclusion, nobody removes another's key, nothing hangs or stays locked |
| Redis stream queue, `pkg/distribute/queue.go` | stream, group position, pending messages, batches | `Publish`, `Subscribe`, `Close` | failing handlers and acknowledgements, restarts, blocking reads | no message lost, each handled at least once |
| WebSocket hub, `pkg/hub` | map of users, `UserLines` with lock and count, per line two goroutines and two channels | upgrade, read, write, push, close commands, three loops | four kinds of goroutine over shared maps, counters and channels | no send on a closed channel, live lines reachable, exact count, no leaked goroutine |
| SSE hub, `pkg/sse` | the same with one goroutine per line | the same, and `Hub.Close` | the same, and shutdown under traffic | the same |
| Redlock and etcd lock, `pkg/distribute/redlock.go`, `etcdlock.go` | a key with an expiry and a goroutine with two channels; a key under a lease | lock, extend, unlock, close | slow and failing extensions, `Unlock` against the goroutine, a timeout after the key was created | mutual exclusion while the lock is relied on, no panic, no key left |
| Counter ids, `pkg/distribute/id.go` | a counter in Redis | `NewGenerator`, `Next`, `Close` | several processes, commands executed without an answer | ids increase across processes |
| Requests: `internal/app/middleware`, `internal/app/features/authes` | tokens, captchas and replay marks in Redis | replay test, authentication, signature, cipher; prepare, login, refresh, logout | messages that arrive twice, requests that overlap, one failing command of several, lost answers | a message is accepted once, a captcha used once, a logout ends the session |
| Workflow engine, `pkg/workflow` | sessions and tasks, in memory and in the database | launch, update, cancel | an update under a launch, a failing save, retries, parallel parts | the rows tell what ran; launches return |
| User store and cache, `internal/app/features/users`, `pkg/cache` | cache entries over the database | read, login with a delayed second delete, delete | slow readers against writers | a stale entry does not stay |
| Ranking, `pkg/services/ranking.go` | a sorted set, idempotency keys, counts of ranges | add and set scores, rank, page, truncate | repeated requests, ties, updates between two batches | a request counts once, the top is never removed, ranks agree |
| Log writer, `internal/pkg/features/logging` | channel, buffer, timer | log, start, stop | `Stop` against `post` and `listen` without a lock | no log lost, doubled or reordered on its way |
| Collections, `pkg/collection` | linked nodes | queue, stack, set | the node left behind in `last` | agree with sequences |
| Codecs, `pkg/bytes`, `pkg/codes` | none | encode, decode | negative numbers, packets cut off | decoding gives back what was encoded |
| Chat hub, `internal/app/features/hubs/chat` | none of its own | connect, dispatch | see the WebSocket hub | |
| RabbitMQ client, `pkg/rmq` | connection, channel, notification channels | connect, push with confirm, consume, close | reconnection replaces channels that others wait on | not modelled, see section 6 |

The parts meet in few places: the middleware hands requests to the
authentication handlers, which keep their tokens in the same Redis; a login
goes on into the user store; the chat hub drives the WebSocket hub; the
services use ids and locks by call. The locks, the queue, the counter ids and
the tokens meet other processes in Redis or etcd.

## 2. The modules

A module models one component: its state as variables, one action per step
that other goroutines, processes or the network can see. Payloads, names and
logging are abstracted; every branch, early return and order of updates is
kept. Operators whose comment begins with "Mutant" are faulty variants of the
definition after them, used only to show that a property can fail.

**Snowflake** (`MCIds`, `IdsProofs`). `SnowflakeSecond` and
`SnowflakeMillis` differ in their unit only, so one module stands for both.
`Next()` holds the mutex throughout, so a call is atomic unless it sleeps:
`NextSame`, `NextLater` return at once; `NextExhausted` and `NextBehind` enter
the two wait loops, `ExhaustedDone` and `BehindDone` leave them. The clock of
each machine is a variable that `Tick` and `StepBack` move. Shifts and masks
are products, quotients and remainders by the field sizes.

**SnowID** (`MCIds`, `IdsProofs`). `NewID` of `pkg/ids`, in the same style.
`Recovered`, `EntryNow`, `EntryTimes` and `EntryPoints` are the first `if` of
the function; `ClockBack` is the code of both places that record a rollback,
with the `log.Fatal` after the third. `Restart` loses the state, on the
assumption stated in the code's comment: the restart takes longer than the
rollback. All rollbacks belong to one episode unless `MayRevisit`.

**RedisLock** (`MCRedisLock`, `RedisLockProofs`). A caller is one call of
`TryLock` or `Lock` and the `Lock` it returns. A command is sent, run by the
server and answered in separate steps (`Send`, `Serve`, then `Acquired`,
`Refused`, ...); it can fail before or after the server ran it (`Fails`), arrive
after its sender gave up (`ServeStray`) or be sent twice (`Resend`). `Tick` ages
keys, timers and commands. With `Timely`, a command takes at most `MaxDelay`
ticks. Every command uses the key `EmptyResource`, because `mergeOptions` drops
the resource. The auto-extend goroutine is `ext[p]`; its channel is
`chCancelDone[p]`, with nil as a state of its own. `closed` holds the Lockers
whose `Close` was called; a caller uses the client of its own (`LockerOf`), and
its commands fail once that is closed.

**RedisQueue** (`MCRedisQueue`, `RedisQueueProofs`). A consumer group on one
stream. A subscriber alternates between new messages and its pending ones,
handles a batch message by message and acknowledges each success. The batch is
the set of what is left of it: messages are numbered in the order of the stream,
so the next one is the least. A read whose answer is lost has made its messages
pending all the same (`ReadFails`); of an acknowledgement whose answer is lost
the subscriber takes no notice. `ReadOther` stands for the rest of
the topic's traffic. `Close` is a send on an unbuffered channel that a
subscriber takes at the head of its loop, and ends, or in a batch, and goes on.

**Hub** (`MCHub`, `HubProofs`). Two goroutines per line, the registration,
unregistration and live-check loops, and the goroutines that push or send close
commands. A `UserLines` object is the set of its lines with a count of its own;
objects are numbered, because goroutines keep using an object the map no longer
names. The steps of a loop are separate where another goroutine can come
between: the lookup and the locked update, the removal, the closing of channels,
the test for an empty user and the delete; likewise test and set of `isClosed`.
An unbuffered close command is one joint step of sender and receiver. A send on
a closed channel panics (`SendPanics`): the deferred `RUnlock` runs, and the
panic is recovered above the push or ends the process and the behaviour with it;
a push that reads the channel after `closeLineChans` has set the field to nil
waits there for ever with the read lock held (`"stuck"`). Two variables are history: `user` says whose
an object is, and `disturbed` holds the users whose lines did not come and go
one by one: a line came before the last had left, failed before it was
registered, was closed by both its goroutines, or was registered while the live
check was deleting its user. The constants `EarlyClose`, `WritesFail`, `Overlap`
and `Ticking` say what the surroundings do.

**SseHub** (`MCSseHub`, `SseHubProofs`). The same scheme with one goroutine per
line, and with `Hub.Close` step by step: it cancels, collects the users, clears
the map, takes each user's lock in turn and closes the channels. The two lines
of the instance have the same id, as a client that reconnects has; `hasty`
remembers the users whose second line came before the first had left, and `user`
whose an object is. The channels of the hub are bounded by `QueueCap` (2048 in
the code): each send is a step of its own after the test of `isClosed` before
it, waits while the channel is full and panics when `Hub.Close` has closed it.
`unread` counts what the three channels for the application hold; `ReadChans`
says which of them it reads.

**Requests** (`MCRequests`, `RequestsProofs`). A request of the `/v1` group on
its way through the replay test, authentication, signature and cipher to the
handlers, and its answer on the way back. Every command to Redis is a step that
can fail; messages arrive late, twice, or with something wrong; the access and
the refresh token of a pair are created, stored and revoked one after the other.
A request may present any pair that exists, an old one, one logged out or
another client's, so what a client still holds after a lost answer is covered.
A signature or a cipher is good or bad. `Budgets` gives the
mixtures of requests and faults that behaviours may have, each small enough.

**Workflow**, **WorkflowLife** (`MCWorkflow`, `PartsProofs`). `Launch` writes
the row of the session, then for each task the row, the attempts and the result;
`Update` replaces the workflow under it; each write can fail, and the context
can be cancelled. `WorkflowLife` is what the two tables promise to a reader; the
mapping `ImplementsLife` takes the rows as they are.

**RedLock**, **EtcdLock**, **AbstractLock** (`MCLocks`, `LocksProofs`).
`AbstractLock` says that a lock belongs to one caller at most, that only its
owner is inside, and that it is not taken from a caller inside. For `RedLock`
the owner is whoever set the key, and inside is who holds the lock, extends it,
and was told of no failure by `AutoExtendError`; for `EtcdLock` the owner has
the oldest key and inside is between `Lock` and `Unlock`. Time in `RedLock` is a
set of countdowns that cannot pass what is due. The keys of `EtcdLock` have the
revision at which they were created, as the queue of etcd's mutex goes by it.

**DistId** (`MCIds`, `IdsProofs`). Processes that share a counter, which may not
exist yet; a failed command may have been executed.

**UserCache**, **Ranking**, **LogWriter**, **Collections**, **Codecs**
(`MCParts`, `PartsProofs`). Parts that stand alone; a
behaviour of `MCParts` is a behaviour of one of them. `UserCache` separates
every access to the database and to Redis, and lets a login pass the pause of
`KeyDelayDoubleDel` only when the readers that raced with the first delete are
done. `Ranking` has the scripts as atomic steps and the loop of `Truncate`
between them; a change reads the clock in one step (`Call`) and its script runs
in another (`Eval`), later, again or never, so that scripts overtake each other.
A script that arrives when the key of its request is gone would count again, and
is left out. `LogWriter` reads and writes the fields of the writer one at a
time, as they are not under a lock, and a panic ends the process; the context of
`Start` may end at any time (`ContextEnds`); logs are numbered by writer. `Collections` has the nodes with their pointers, beside the
sequences they should be: the values, each with the node made for it. `Codecs`
has the packets and the radix as operators, applied to every input of a bounded
set; a payload is marshalled to the bytes `Marshalled` gives for it, and those of
one may be a prefix of those of another, as in JSON.

## 3. The runs

| Run | Instance | Shows |
|---|---|---|
| `ids` | Snowflake: 2 workers, 2 ids per timestamp, 3 timestamps, clocks set back by up to 2. NewID: 2 ids per millisecond, 3 milliseconds, 4 rollbacks, 1 restart. Counter: 2 processes, 2 starts, 2 faults | `Increasing` while the clock is not set back, `NoSharedId`, `TimestampsNeverRegress`, `WaitingCallsReturn`; `Unique`, `RollbackIsFlagged`; `IdsIncrease` |
| `lock_timely` | 2 callers, time to live 9, round trip at most 1 tick | `MutualExclusion`, with manual extensions, crashes, and `Close` of either caller's Locker |
| `lock_faults` | 2 callers, time to live 3, no bound on delays, 1 fault, crashes of one caller | `HeldKeyOnlyExpires`, `NeverRegained`, `CallsReturn`, `AbandonedKeyExpires` |
| `locks` | RedLock: 2 callers, 2 tries, 2 faults, delay 1, interval 4, time to live 7. etcd: 3 callers in 2 processes, 2 faults, crashes | `NoPanic`, `RedImplementsLock`, `EtcdImplementsLock`, `KeyGoesAway` |
| `queue_group` | 2 subscribers, 3 messages, batches of 2, 1 fault, 1 restart, `Close` | `NothingLost`, `OwnMessagesOnly`, `EveryMessageAcked` |
| `hub_two` | 2 lines of a user that may overlap, fail at any moment and be failed by a write; live check; 1 sender that pushes, capacity 1 | `NoSendOnClosed`, `MapIsExact` |
| `hub_any` | 1 line, 2 senders, every kind of failure, close commands, live check | `GoroutinesEnd` |
| `sse` | 2 lines of a user with one id, 1 sender, every channel of capacity 1, of which the application reads `errorChan` only, `Hub.Close` | `NoSendOnClosed`, `MapIsExact`, `LinesEnd` |
| `requests` | 2 goroutines, a web client and another, 2 users, a replay window of 2 seconds, the mixtures of `MCBudgets` | `AcceptedOnce`, `RunsAsOwner`, `CaptchaUsedOnce`, `LogoutEndsSession` |
| `workflow` | 2 launches of one workflow, an update, 1 retry, 1 fault, one cancellable launch | `DataFlows`, `FinalUnlessDisturbed`, `ImplementsLife`, `LaunchReturns` |
| `workflow_parallel` | 1 launch of a single `ParallelTask` | refutes `ParallelTaskReturns`, see section 5 |
| `parts` | 2 readers and 2 logins; 3 members, 4 requests in 5 calls, scripts at any time within the 2 seconds of a key, times of 10 to 8 seconds, 2 ranges of 0 or 1; 2 writers one after the other, 3 logs each, batches of 2; 4 nodes; all numbers of a word of 256 values, 3 payloads of which one begins with another | `FreshIP`; `CountedOnce`, `RanksAgree`, `TruncateKeepsTop`; `LogsKept`; `ListsAreExact`; `CodecsInvert` |

A run over several modules (`ids`, `locks`, `parts`) chooses one of them in the
first state; they share nothing. In `parts` the counts of the score ranges,
which the rest of `Ranking` neither reads nor changes, are chosen apart from it.

Why the bounds are enough. Two ids per timestamp make the sequence wrap at
every second call, so every wait loop is entered; two workers are all that
`NoSharedId` speaks of; three milliseconds hold a rollback, a nested one and
the recovery. Nine ticks leave the refresh every six and a round trip before
expiry, and the two callers are the holder and the one who wants in. With
unbounded delays three ticks suffice: nothing depends on how long a key lives.
In `locks`, an interval of four and a delay of one leave a failed extension two
ticks before the key ends, as the code's default of two thirds does. Three
messages in batches of two give a full and a partial batch, new and pending.
Two lines of one user let one leave, or be lost, while the other registers and
a push is under way; capacity 1 makes the channels full. Lines of different
users share no object and no lock, only the count and the queues, and the
theorems are for any number of users. A replay
window of two seconds has a beginning, a middle and an end. Two readers are one
that raced with a login and one that comes later; two logins race each other.
Four requests let three members have equal points at different times, one of
them after negative ones, and one more call repeats a request or overtakes it;
between 10 seconds and 9 the number of digits changes. Three logs
make a full and a partial batch, and a second writer is what a restart can
confuse with the first. A word
of four bytes of four values each has every sign and carry of an int32.
Symmetry is used where the runs check no liveness: callers of `lock_timely`,
goroutines of `requests`, readers, logins and addresses of `parts`.

Fairness. Goroutines that can run do run; time passes; Redis answers unless
the model makes it fail; a closed client fails its commands. Nobody must call
anything: not `Next`, `Lock`, `Unlock`, `Publish`, a push or `Close`, and peers
need not send or leave. The one strong assumption is in `RedisQueue`: a
handler that is called again and again for a message accepts it in the end.
`EveryMessageAcked` also needs `KeepsComing`, because the code retries only
after a new message, and names that survive a restart.

In `SseHub` only the goroutines of lines are fair and their tickers fire; loops,
pushes, `Close` and the application may stop for ever. A goroutine that waits at
a full channel of the hub is then allowed to wait (`Stuck`). In `Workflow`
a task that was begun returns, and its goroutines run. In `EtcdLock` calls go
on, and a lease that nobody renews lapses.

Deadlock is checked in the lock runs and in `requests`, where time and clients
go on. The others come to rest: all lines have left, the queue is closed, all
launches returned, the horizon of the ids is reached, the inputs are used up.

## 4. The proofs

Each theorem is about the specification of its module and holds for every value
of the constants that the named assumptions allow, so for any number of
callers, workers, messages or faults where a run has two or three. The argument
is always the same: a predicate that the initial states satisfy and every
action keeps, and that implies the property. TLC checked each of these
predicates as an invariant before it was proved. Few of the properties
are inductive by themselves; what had to be added is said here.

**IdsProofs**, about `MCIds`, under `SnowflakeAssumption` (positive field sizes,
and worker ids in range, which the constructors enforce by panicking),
`SnowIDAssumption` and `DistIdAssumption` (starts are integers).

- `TypeCorrect`: `TypeOK` is an invariant of `Snowflake`.
- `WorkersNeverCollide`: two generators never return the same id. `OwnIds` says
  that each id a worker returned is `Encode` of some time, that worker and some
  sequence number; `EncodeWorker` recovers the worker from the id.
- `GeneratorsIncrease`: as long as its clock was not set back, the ids of a
  generator grow strictly. `Increasing` does not bound the next id. `Steady`
  adds that the clock is not behind the remembered time, that no id exceeds the
  largest of that time, and that between calls none exceeds that of the
  remembered sequence.
- `TimeNeverRegresses`: the time in a generator's ids never goes back, even
  when the clock does. `Past` says that no returned id has a later time than
  the remembered one.
- `CounterIdsIncrease`: ids from the shared counter increase across processes.
  `DistInv` says that none exceeds the counter, that a generator exists only
  once the key does, and that before that there are no ids.
- `NewIDsAreUnique`, `RollbacksAreFlagged`: `NewID` repeats no id, and an id
  from an earlier time has a rollback count. Both assume that rollbacks belong
  to one episode (`~MayRevisit`); without that they are false, as section 5
  says. `SnowShape` relates the package variables to the clock, and
  `IssuedSpent` says of each id returned that its time, count and number are
  used up: for its rollback count it is not past what the variables record.

They rest on lemmas about the encodings (`EncodeLater`, `EncodeSameTime`,
`GetTimestampOfEncode`), which are arithmetic of quotients and remainders.

**RedisLockProofs**, about `RedisLock`, under `RedisLockAssumption`.

- `HeldKeysOnlyExpire`, `LostKeysAreNotRegained`: what a step does to the key
  (`KeyStep`) depends on which commands can still arrive. `Strays` says that a
  command given up names a caller that gave it up, `Shape` how the caller's
  goroutine and its auto-extension follow each other.
- `AutoExtendedLocksExclude`: two auto-extended locks are not held at once, if
  `Punctual`: commands are answered within `MaxDelay`, none fails, and the
  interval and two delays are less than the time to live. `Fresh` bounds the
  age of the key by the timer or the command of the goroutine that renews it,
  for each holder whose own Locker is open.
  With the default configuration the interval is two thirds of the time to
  live, so this asks for delays of less than a sixth of it.

**RedisQueueProofs**, about `RedisQueue`, under `RedisQueueAssumption`
(subscribers have names of their own: the code makes a uuid).

- `QueueTypeCorrect`, `NoMessageLost`, `OneConsumerPerMessage`: what is
  delivered stays pending until it is acknowledged, only what a handler
  accepted is acknowledged, and two subscribers never have the same message at
  hand. `AtHandPending` says that what a subscriber has at hand is pending under
  its name, `NamesDiffer` that no two subscribers have the same name.

**LocksProofs**, about `MCLocks`, under `RedLockAssumption` (a command takes
less time than `Unlock` waits, and the interval with two commands less than the
time to live) and `EtcdAssumption`.

- `ExtenderNeverPanics`: the goroutine never sends on a closed channel.
  `ExitOutlasts` says that `Unlock` waits longer than the command under way.
- `RedLockCorrect`: `RedLock` implements `AbstractLock`. `SetLasts` and
  `KeyLasts` say how long the key lives at least, in terms of the timer of the
  goroutine, so that who relies on the lock is its owner.
- `EtcdLockCorrect`: `EtcdLock` implements `AbstractLock`. `HeldIsOldest` says
  that who holds the lock has the oldest key and a lease that is renewed.

**RequestsProofs**, about `Requests`, under `RequestsAssumption` (the window of
the replay test is not empty).

- `ReplaysAreRejected`: `Once` says that the mark of an accepted message lives
  until the message is too old.
- `HandlersRunAsOwner`, `CaptchasAreUsedOnce`: `Owner` follows the claims from
  the token to the handler; `Captchas` says that a stored captcha served no
  login.
- `LogoutsEndSessions`: once the handler of a web client's logout is done, no
  token of its session is stored, whatever pairs its later requests present and
  whatever failed, except for the two cases of `upset` (section 5). The property
  says nothing of the pairs in between; `Quiet` does, for a client that is not
  upset: of each of its sessions the tokens of one pair at most are stored
  (`One`), and `Turn` says at each step of a refresh, a login or a logout what
  is already gone.

**HubProofs**, about `Hub`, under `HubAssumption` (finitely many lines, each of
a user; channels with room), with overlapping lines, failing writes and the live
check, whichever the constants allow.

- `PushesFindOpenChannels`: no push and no close command to a user who is not
  `disturbed` is about to send on a closed channel. `Once` and `WaitOnce` say
  that a line is at one place at a time on its way into the map and out of it,
  and that `isClosed` is set exactly when a goroutine of the line is closing it
  or has closed it (`Leaving`); `Owned` that an object holds lines of its user
  only; `LeavesOnce` and `Calm` that, for a user who is not disturbed, a line
  that leaves does so once, is in the object that the map has until the
  unregistration loop removes it, and in none when its channels are closed;
  `Reads` that who holds the read lock works on lines of that object.
- `HubMapIsExact`: the lines that are served are in the object of their user,
  when nothing is under way no closed line and no empty user is left behind,
  and `connCount` is the number of live lines, users that are disturbed
  excepted. `Counts` and `Busy` relate the count of each object to the set of
  its lines, and `connCount` to the set of lines `Held`: registered, and not
  yet counted down.

**SseHubProofs**, about `SseHub`, under `SseHubAssumption`.

- `PushesFindOpenChannels`: no push and no close command is about to send on a
  closed channel, while lines come and go and `Hub.Close` runs. `Once` says that
  a line is registered once and is in one object at most; `Calm`, for users who
  are not `hasty`, that the line is in the object that the map has and in none
  when its channels are about to be closed; `Reads` that who holds the read
  lock works on lines of that object.
- `SseMapIsExact`: when no line waits to be registered or unregistered, the map
  and the count are right for users who are not `hasty`, until `Hub.Close`, also
  if a loop waits for the application to read. `MapInv` adds whose each object is (`Owned`), that
  a line waits in a queue once (`QueueOnce`), that who is served is in the map
  (`Served`), and that `connCount` is the number of lines `Held`.

**PartsProofs**, about `Workflow`, under `WorkflowAssumption`, and about
`MCParts`, under `UserCacheAssumption`, `RankingAssumption` (a finite board;
points, times and batch sizes are integers, sizes, counts and the life of a key
not negative; the bounds of the ranges descend), `LogWriterAssumption`,
`CollectionsAssumption` and `CodecsAssumption` (a byte and a radix have two
values at least, words fit into four bytes, the marshaler makes of each payload
bytes of its own, and a signature is not empty: a signer of length 0 would
refuse every packet).

- `LaunchKeepsLife`: `Workflow` implements `WorkflowLife`. `Phase` says for each
  place of the goroutine which rows there are.
- `OutputsFlow`, `ResultUnlessDisturbed`: `Inputs` relates the input of each row
  to the output of the one before, and `DataKnown` what `Launch` carries to the
  last row; `Ended` is about a launch that returned.
- `CachedIPsAreFresh`: between logins the cached IP is that of the database.
  `ReadersFresh` and `KeysFresh` say that a stale value, in the cache or with a
  reader, is one that a login under way will delete.
- `TruncateSparesTheTop`: `Truncate` removes only members whose rank is not less
  than the size to keep, and when it ends no more than that size are left,
  unless its batches are of size 0. Ranks are cardinalities: `RankBefore` says
  that who is ahead has the smaller rank, and `RanksOnto`, by the pigeonhole
  principle, that every rank below the size of the board is taken.
- `EarlierStaysAhead`, the first part of `RanksAgree`: of two members with equal
  points the one who had them in a second before the other's call began is
  ahead, if the times that remained had the same number of digits (section 5).
  `Dated` says that each fraction is that of the time at which the call that set
  the points read the clock, which is no later than its script; `FracGrows` that
  of two times with as many digits the larger has the larger fraction.
- `RequestsCountOnce`: the points of a member are the sum over the requests
  counted for it, each of them once, however often its sender repeats it.
  `SentOnce` says that a request of which no script ran is counted for nobody,
  and that the key of any other outlives the time in which its calls are
  repeated and their scripts arrive.
- `RanksAgreeThroughout`: besides `EarlierStaysAhead`, that the pages follow the
  ranks and that a fuzzy rank does not rise with the score. `PagedFirst` says
  that who has no negative points, and is on a page, has a lower rank than who
  is on none, and `RankedInOrder` that a sequence ordered by who is ahead has
  each member at its rank. A fuzzy rank is compared with that of a higher score
  whose range has a member (section 5); `OwnRangeExists` finds the range of a score, and `SharesAre` says
  that a part of a range is at most the whole.
- `DecodingInverts`: a number comes back from its digits and a word from its
  bytes, by quotients and remainders (`DigitsComeBack`, `WordComesBack`); meta
  data and payload come back from a packet. One cut off is refused if it is
  signed; if not, it is refused or decodes to the right meta data and to a
  payload whose bytes begin those that were sent (`BodyOfPart`,
  `RequestDecodes`): none, or 12 for 123 (section 5). A cut-off packet
  with a signature is refused as the bytes in the place of the signature are not
  one: the model's signatures consist of no bytes, which for real ones is only
  likely.
- `LogsReachTheStore`: what a writer accepted is what it handed to the store,
  what it has buffered and what is in its channel, in this order; nothing is
  lost, doubled or reordered on the way. `Placed` says so position by position;
  `KeptBy` adds that a buffer cleared in part belongs to a writer that is closed
  and whose channel is empty, and `BuffersShort` that a batch is handed over
  when it is full, unless the process has crashed.
- `ListsStayExact`: queue and stack, followed by their pointers, are the
  sequences of what was put in and not taken out, and nothing else is popped.
  `CollInv` adds that a node not used yet is in neither (`Grown`) and that
  `last` is the last node, also right after the queue ran empty (`LastSafe`).

Only model-checked:

- Liveness: `WaitingCallsReturn`, `CallsReturn`, `AbandonedKeyExpires`,
  `KeyGoesAway`, `EveryMessageAcked`, `GoroutinesEnd`, `LinesEnd`,
  `LaunchReturns`. TLAPS does not prove properties under fairness.

Every safety property of the passing runs that is not in this list is a theorem.

Sums over sets and functions defined by recursion, of which
`RequestsCountOnce`, `RanksAgreeThroughout` and `DecodingInverts` speak, need
induction. Its rule, `AllNumbers`, is proved for a set of numbers from the
pigeonhole principle: below a number that were missing, the members and their
successors would be a finite set and the same set without 0. `SumOfOneMore` and
`ValueOfOneMore` are the steps taken with it.

`DecodesLastId` in `Snowflake` (the accessors give back what was encoded) is
stated for the proofs; no run checks it, as the lemmas about the encoding say
more.

## 5. Where the code and its comments disagree

`workflow_parallel` is the run that expects a violation: `ParallelTask.Execute`
ranges over a channel that only its own deferred call closes, so that a task
whose parts all succeed never returns (`task.go:100`).

With the same modules, and other constants or a property in place of those of
the run named, TLC finds:

- `locker.go:315`, `GoroutineExits` in `lock_faults`: once `Unlock` has given up
  waiting, the goroutine that extends the key sends on a nil channel for ever.
- `locker.go:222`, `BusyMeansSameResource` with two `Resources`: `mergeOptions`
  never stores the resource, so all locks share one key.
- `locker.go:170`, `MutualExclusion` in `lock_timely` with `MaxFaults = 1`: a
  failed extension ends the goroutine, and the caller is not told.
- `locker.go:90`, `MutualExclusion` in `lock_timely` without its exception for
  closed Lockers: `Close` takes the client away from the locks of that Locker
  that are still held; their extensions fail, nobody is told, and once the key
  has expired a caller of another Locker holds the lock as well.
- `retry-strategy.go:16`, `NoRetryTriesOnce` in `lock_timely` with `Modes =
  {"noretry"}`: the loop raises the backoff of 0 to 10 ms and tries again until
  its deadline.
- `hub.go:138`, `LiveLinesReachable` in `hub_two` without its exception for
  `disturbed` users, with `EarlyClose`, `WritesFail` and `Ticking` FALSE: a line
  registered between the test that its user has no line and the deletion of the
  user is lost.
- `hub.go:134`, `NoSendOnClosed` in `hub_two` likewise, with `EarlyClose` and
  `WritesFail` FALSE: the live check deletes the entry of a user while a line is
  added to it; the line is then not found for removal, and a push that holds the
  old entry sends on its closed channel.
- `line.go:174`, `ConnCountExact` in `hub_two` likewise, with `EarlyClose`,
  `Overlap` and `Ticking` FALSE: both goroutines of a line pass its `isClosed`
  test, and it is counted down twice.
- `user_lines.go:114`, `CloseCommandCloses` in `hub_any` with `Kinds =
  {"close"}`: the command is taken by the goroutine that ignores it.
- `queue.go:87`, `EveryMessageAcked` in `queue_group` with `KeepsName = FALSE`:
  a subscriber that restarts under a new uuid never reads what the old name left
  pending.
- `queue.go:86`, `EveryMessageAcked` in `queue_group` with `KeepsComing =
  FALSE`: pending messages are retried only when a new one arrives.
- `snowflake.go:68`, `RollbackWaitsForNextTimestamp` in `ids`: after a rollback
  the call waits for the remembered timestamp and not for the next one.
- `int64.go:80`, `Unique` in `ids` with `MayRevisit = TRUE`: two rollbacks into
  the same millisecond repeat an id.
- `headers.go:82`, `LogoutEndsSession` in `requests` without its exception for
  other than web clients: `Logout` reads the refresh token only from a cookie.

Behaviour no comment speaks of, which the models have and a property excepts:

- Requests: two overlapping refreshes of one token both succeed, and a refresh
  that has read its token before a logout deletes it issues a new pair; when
  Redis fails to revoke a token, `RefreshToken` and `Logout` ignore the error
  and the token stays (`auth_service.go:145`, `:184`, `:185`; both `upset`). Any
  other command may fail and `LogoutEndsSession` holds. A request is taken to
  present the two tokens of one pair: a refresh with the refresh token of one
  and the access token of another revokes half of each. A Redis that fails makes
  a message pass the replay test, and one that arrives in the very second of its
  timestamp can pass twice at the end of the window (`excused`). `StringfyMap`
  returns the bytes of a buffer it has given back to its pool; signatures are
  taken to be computed before another goroutine gets the buffer.
- WebSocket hub: a push that reads the channel field of a line after
  `closeLineChans` has set it to nil (`hub.go:171`) waits for ever with the read
  lock held; a push that panics in the goroutine of `ChatHub.listen`
  (`chat_hub.go:70`, `:143`, `:152`) has no recover above it and ends the
  process. `NoSendOnClosed` says for which users neither happens.
- SSE hub: `AIHub` reads none of the channels the hub has for it. After 2048
  registrations, or 2048 ends, a loop of `NewHub` waits for ever in
  `hub.go:57` or `:83`, lines are no longer registered or unregistered, and
  their goroutines wait in turn; after 2048 disconnects those wait at
  `line.go:91` and their lines stay in the map. Only `Hub.Close` ends them, by a
  panic (`Stuck` in `LinesEnd`, which fails without it).
- SSE hub: a line is removed by its id, so the end of an old line removes the
  one that replaced it (`hasty`). A close command that finds the goroutine of
  the line gone blocks with the read lock held, and `Hub.Close` behind it.
- Workflow: the error of a task is overwritten by that of saving it
  (`workflow.go:210`), so that the loop goes on; a cancelled context also stops
  `finish`, and the session stays "running".
- RedLock: `NoPanic` needs extensions that take less than the second that
  `Unlock` waits; with `Delay = ExitWait` the goroutine sends on a closed
  channel. EtcdLock: after an `Unlock` that failed the session is renewed and
  the key stays, while a second `Unlock` returns nil.
- User store: `DeleteByID` deletes the key once, so a reader can leave the
  deleted user in the cache for an hour. `FreshIP` needs readers that are
  faster than the pause of half a second.
- Ranking: the digits of a time behind a point order times only while their
  number stays the same (until September 2046); of two calls that overlap the
  one that read the clock first is ahead, also if its script ran last. `Paginate`
  does not list who has negative points, whom `Rank` counts. A batch size of 0
  removes nobody; the lowest score of an empty range gets a worse fuzzy rank than
  a score in the range below; a score above the highest range gets the last fuzzy rank. The points
  and the fraction share a float: above some eight million points the seconds
  are rounded away, which the model leaves out.
- Log writer: the timer fires once and is not armed again, so a batch that is
  not full waits for the next log; `Stop` loses what is buffered, and can
  panic in itself, in `listen` and in `post`.
- Packets: an unsigned packet that is cut off within its body can decode to
  another payload, as the JSON number 123 becomes 12 (`bytes_packet.go:121`,
  `marshaler.go:32`); `CodecsInvert` says no more of it than that it begins like
  what was sent. `Ed25519Cryptor.Decrypt` panics on an unsigned body shorter
  than its nonce (`crypto.go:130`); ciphers are external here.
  The body of an answer is appended only if there is a cipher. The
  radix has no end for the least integer, whose negative is itself.

## 6. Not modelled

- RabbitMQ client. What a lost connection does is decided inside the amqp
  library: it closes the notification channels that `init` then closes again.
  A model would be one of the library; without its source under `src/` no
  property of the client could be stated with confidence.
- Chat hub: its calls on the hub are actions of `Hub`, in any order; its loop
  is what drains the hub's channels there. `Hub.Close` of the WebSocket hub;
  that of the SSE hub has the same shape and is modelled.
- Redis stream queue: trimming by `xaddMaxLen`, which is approximate on the
  server, and a context of `Subscribe` that ends.
- Rate limiter (a library's token buckets in a map), pools, random ids,
  cryptography, database and third-party clients, scrapers, IP regions, and
  the wiring in `main` and `global`: wrappers, or nothing about states.

## 7. Plan

1. `Hub.Close` of the WebSocket hub on the pattern of `SseHub`.
