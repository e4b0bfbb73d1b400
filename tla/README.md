# SSH-Hunt: TLA+ models, model checking and proofs

SSH-Hunt (`src/ssh-hunt`) is a multiplayer hacking game that players reach over
SSH. One Rust process accepts connections, gives each of them a simulated shell
over a virtual file system, and keeps one shared world: profiles, missions,
duels, NPCs, an auction house, mail and chat. This directory models the parts
of it where the order of steps matters, checks the models with TLC on small
instances, and proves the most important facts for instances of every size with
TLAPS.

`W` below is `crates/world/src/lib.rs`, `M` is `crates/ssh_hunt_server/src/main.rs`.
`PROJECT.json` maps each definition of the models to the lines it stands for.

## 1. The system

### How the parts interact

- russh gives every connection a task and a `GameSession` (M). A session's
  handlers run one after the other: `data()` collects bytes into a line,
  `submit_line` runs it, `run_line` dispatches it to the game's commands or to
  the shell. Sessions share nothing but the `WorldService`, so all the
  concurrency of the program is between sessions.
- `WorldService` (W) is one `tokio::sync::RwLock<WorldState>` with some fifty
  methods. A method takes one guard, works, and drops it; some of them await
  PostgreSQL while they hold the write guard. What a method does under a guard
  is atomic. What a *command* does is not: it is a sequence of such calls, and
  the world may change between them.
- The database is written by the world service (when there is one) and read
  back nowhere. A separate admin tool writes bans into it.
- The shell, the file system and the script sandbox belong to one session and
  are sequential; scripts run in a blocking thread with a timeout.

### Inventory

| Component | State | Operations | What is hard about it | What makes it correct |
|---|---|---|---|---|
| **Player duels** (W 1156-1173, 2481-2600; M 3628-3671) | `WorldState::duels`; deaths, tier, ban, wallet of the profiles; `GameSession::current_duel` | `start_duel`, `duel_action`, `set_tier`, `ban_forever`; `pvp ...`, `tier`, `stance` | several sessions of one or two players; self-duels; the ban check and the command are two lock phases; the duel id lives in a session that may close | live duels have both sides standing; each duel is live or was settled exactly once, one death for one prize; sessions only hold live duels of their own |
| **Daily and style rewards** (W 2141-2217) | `streak`, `streak_day`, `daily_claimed`, style counters, wallet | `claim_daily_reward`, `style_bonus` | the date is taken before the lock: calls of two sessions around midnight are applied in another order | one payment per day; no streak without its days; caps |
| **NetCity gate and modes** (W 2094-2139, 2436-2479; M 2222-2260, 3293-3343) | completed missions, registered and observed keys, ban, profile mode; session mode, redline timer | `login`, `register_key`, `complete_mission`, `mode_switch`, the timer | `mode_switch` takes the lock three times; several sessions of a player; bans in between | NetCity only for who earned it; a banned player's mode is moved no more |
| **NPC hacks and succession** (W 485-697, 1561-1849; M 2968-3046) | NPC generations, names, defeats; `npc_duels`; ledger; session's hack | `start_npc_duel`, `npc_duel_action`, `npc_duel_solve_bonus` | several hacks of one NPC end one after the other while it is replaced | the ledger tells each fall once, in order; every hack is paid once; nobody acts after the end |
| **Auction house** (W 2219-2360) | `auctions`, `listing_count_window`, wallets | `create_listing`, `place_bid`, `buyout` | time taken before the lock; bids without escrow; buyer = seller; truncating tax | chips only leave by fees and tax; no debt that was not asked for; the throttle |
| **World lock** (W, everywhere) | guards and the queue | read, write, drop, awaits of the database | fair queue: nesting two reads deadlocks; writers wait with the guard in hand | exclusion, no hold-and-wait, every line is answered |
| **SSH sessions** (M 2030-2440, 4380-5070) | `GameSession` | connect, line, rate limit, ban check, intrusion guard, close | ban between check and command; state lost with the connection; channels that share it | see the components the commands belong to |
| **Missions and mail** (W 1460-2090; M 2640-2720) | active and completed missions, reputation, mailbox; the session's `command_log` | accept, the two halves of submit, deliver | in-memory change first, database after it; repeated submits; two lock phases | nothing is completed that was not on a screen; mail comes only with what is stored |
| **Persistence** (W, `migrations/`) | tables `players`, `mission_progress`, ... | upserts in login, register, complete, ban | a statement fails under the guard; nothing is read back; restarts | what is stored is completed, stored bans stay |
| **Admin tool** (`crates/admin`) | the database | migrate, seed, ban, broadcast, stats | works beside a running server | a ban holds |
| **Boot files** (M 60-2020) | the list of calls in `ShellState::bootstrap` | `mkdir_p`, `write_file` | results thrown away: a file before its directory is lost | the files missions read are there |
| **Virtual file system** (`crates/vfs`) | tree of nodes | mkdir_p, touch, write, append, rm, chmod, cp, mv, recursive copy; cd, ls, find, stat | moves into oneself, `..`, the root; copies over what is there; errors half way | stays a tree; all or nothing; no file is lost that is not named |
| **Shell engine** (`crates/shell`) | directory, variables, `$?` | `tokenize`, `parse_line`, pipelines, chains, redirections | short circuits, exit codes, dangling redirections, partial effects | words and redirections stay with their command; `$?` is the status |
| **Shell builtins** (`builtins.rs`) | the context they are given | some forty commands | errors in the middle of a list of files | effects in order, exit codes as promised |
| **Line editor** (M 4409-4442, 4577-4640) | buffer, escape state, CR before LF; awaited secret; rate window | `data`, `exec_request` | sequences split over packets and channels | one line is submitted once; the limit is exact |
| **Tutorial and campaign** (M 2538-2620, 3150-3250) | `tutorial_step`, campaign chapter | read the step, check it, write the next | read and write are two calls | steps are taken in order |
| **Script sandbox** (`crates/scripts`, M 3535-3576) | limits, cooldown | run, timeout | a timed-out script goes on running | cooldown holds |
| **Listener** (M 5209-5231) | retry delay | bind, serve, back off | repeated failures | neither spins nor gives up |
| **Rendering, configuration, types** (`crates/ui`, `config.rs`, `crates/protocol`) | none | text and data types | - | not modelled: no behaviour |

## 2. The models

One module per component; `MC*.tla` instantiates it for TLC and a `*_proofs.tla`
holds its theorems (components that share a subject share the module of their
proofs: `PvpSessions_proofs` has the duels with and without sessions,
`Connections_proofs` the gate, the lock and the line editor, `VfsShell_proofs` the file
system and the shell). `Connections` declares the sessions and the placeholder
`None` for the modules that are about connections. Where two modules meet in one module
of proofs their state machines have names of their own: `DuelSpec`, `LockSpec`,
`ShellSpec`, `TerminalSpec`. An operator whose comment says "Mutant of X" is a variant
of `X` with a plausible mistake; it takes no part in any specification and
is there to show that the properties notice such a mistake.

### PvpDuels and PvpSessions

`PvpDuels` is the world service's side, the *abstract* specification: any
caller may call `start_duel` or `duel_action` for any player and any duel.
`Exchange` is a `duel_action` that leaves both sides standing, `Kill` one that
ends the duel and pays and kills (`Settle`). Damage is picked from the sets
`AttackDamage` and `ScriptDamage` (the code draws it from ranges); the halving of
a blow by a raised guard, and its floor, are kept. A duel's finder `SeatOf`
looks for the left seat first as the code does, which decides what a player
does that challenged itself.

`PvpSessions` puts the SSH sessions in front of it: connecting, the two lock
phases of a line (`CheckBan`, then a command), `current_duel`, `exit`, a
reopened channel, a dropped connection, the intrusion guard. What the two phases
leave of a ban is `BanTakesHold`: the lines that were between them when it fell still
run, at most one per session, and none after them. It EXTENDS
`PvpDuels` and is shown to implement it (`ImplementsDuels == DuelSpec`, with the
state of the sessions hidden by the identity mapping): checked by TLC and
proved by TLAPS.

### Rewards

Each call is two steps: `AskDaily`/`AskStyle` take the date, `Daily`/`Style`
(or `DailyAgain`/`StyleCapped`, the early returns) run under the lock. The
shares of a style bonus follow the code's double arithmetic, which loses a chip
at the fourth and fifth bonus when the exact product is a whole number.
`dailyPaid`, `stylePaid` count the payments per day, `dailyLate`, `styleLate`
remember whose payments have been served out of the order of their dates: history
variables that no action reads.

### NetCityGate

`mode_switch(NetCity)` is `ReadObserved`, `AskGate`, `EnterNetCity | TurnedAway`,
one per lock phase; any other action of any other session may fall between them.
The two fingerprint functions of the code (one over the pasted line, one over the
offered key) are constants `LineFp` and `KeyFp`. The ban check in front of each
line is left out, so the sessions of this module can do more than the program's.

### NpcHack

An exchange of `npc_duel_action` is the player's move (`PlayerMoves`), which may
bring the NPC down (`Win`), else the NPC's answer (`Replies`), which may bring
the player down (`Lose`), else `FightOn`. The hack copies the NPC's integrity at
its start; rewards, blows and the name are those of the NPC at the time of the
exchange, which may be its successor. A callsign's name is its place in the pool.
The shell's `command_log` is a hash map, so `Solve` may look at the output of any
logged command.

### Auction

`create_listing` is `AskToList` (floor check and clock, before the lock) and
`List`/`RefuseListing` (under it); `PlaceBid` and `Buyout` are one step each. Items
are left out: the code moves chips only. Prices are integers: a buyout price below the
floor, or below zero, is parsed and listed like any other, and at a negative one the
buyer is paid by the seller and the tax is negative too. `made`, `sales` and `taxed` are history
variables.

### WorldLock

tokio's lock: a FIFO queue, one writer or many readers, a request at the head of
the queue granted when it fits. A line is a program of phases; the set `Programs`
holds one program for each kind of line there is in the code, by how many guards
it takes, of which kind, and whether it awaits the database under it. The data
are left out: the other modules have them, and take as one atomic step what is
one phase here.

### Contracts, MissionBoard and BootFiles

`BootFiles` is the list of `mkdir_p` and `write_file` calls of
`ShellState::bootstrap`, in order; `BootedFiles` is what it leaves behind. Fourteen of
its writes do nothing, because their directory is not there yet or is never made
(six in `/var/log`, three in `/etc`, four in `/data/classified`, `sable-to-wren.enc`).
`MissionBoard` is the table of missions: the words `validate_mission` looks for, the
files the suggested line reads, and what comes of that line (`Shows`, `Hides`,
`Banned`), with what a mission pays and whose mail it brings.

`Contracts` puts players in front of them. A session keeps a log of what its lines
printed; `Submit` is the first half of the command (`validate_mission` over the whole
log), `Complete` the second half under another guard. Memory changes first, then the
database is asked, and every statement may fail: `Connect` stores both rows, one or
none; `BanForever` is stored or is not; `Complete` is stored and mailed, stored with its
answer lost (a connection that breaks after the commit: the code sees an error and mails
nothing), or neither. A statement whose answer is lost takes effect at once or never,
not later. `Restart` empties the memory and leaves the tables; `Id(p)` changes with it,
because a new profile draws a new UUID. `AdminBan` writes rows and nothing else.

### VfsTree, FileStore and Vfs

`VfsTree` has the operations of `vfs::Vfs` as operators from a tree to a tree and an
error: a tree is a function from paths to nodes, a path the sequence of its
components. What stops half way in the code does so here: `MkdirP` makes the
prefixes it can before the one it cannot, `WriteFile` touches first, `Mv` copies and
then removes, `CopyTree` of a directory inserts without looking at parents, and onto
`/` it makes keys such as `//x`. `Vfs` is the state machine of these calls on all
paths over a few names. `FileStore` is the abstract specification: a store of files
under names, with write, drop, rename and graft; `StoresFiles` says that the tree,
its directories hidden, implements it.

### ShellEngine and Shell

`ShellEngine` takes a line as the sequence of tokens that `tokenize` makes (which
forgets what was quoted) and has `parse_line` as a fold over them (`Token`, `Finish`),
the builtins that read or change files, the directory or the variables, and
`execute` over segments and pipelines. `Shell` is one session's `ShellState` under
lines that get past the game's commands, with the history in memory and in
`/tmp/.history`. Its operators on files are those of `VfsTree`.

### Terminal

One connection: `data` is a fold of `Byte` over a packet, `exec_request` a command sent
whole, and behind both the first gates of `run_line`: a banned player's line closes the
channel, an awaited secret takes the line, the rate limit counts it. A packet is one step;
a ban or a second that falls between two of its lines does what it does between two
packets. The editor and the limit belong to the connection,
its channels share them. `typed`, `lines` and `rated` are history variables: the bytes
handled, the lines submitted, the lines that were counted. `EditorAgrees` does not
know the editor; it says from the bytes alone which of them are left (`Left`: printed,
not taken by an escape sequence, after the last end of line, and outliving all the
erasures since) and that a text spells them (`Spells`, by the rank of their places).

### How the modules are composed

| Module | extends or instantiates | is composed with |
|---|---|---|
| `PvpSessions` | `PvpDuels` | implements `DuelSpec` |
| `Contracts` | `MissionBoard`, `BootFiles`, `VfsTree` | the guard's ban, the database and the admin tool |
| `Vfs` | `VfsTree`, instance of `FileStore` | implements it |
| `Shell` | `ShellEngine`, `VfsTree` | the engine, the builtins and the file system of a session |
| `NetCityGate`, `WorldLock` | `Connections` | the sessions |
| `WorldLock` | - | its phases are what the other modules take as atomic steps |

## 3. What TLC checks

| Run | Module, config | Question | Size |
|---|---|---|---|
| `sessions` | MCPvpSessions | `BothStanding`, `BooksBalance` (duels live + deaths = duels issued, prizes match); `HeldDuelIsLive`, `ChallengerUntouched`, `AbandonedDuelsFreeze`, `BanTakesHold`; refinement of the duels | 2 players, 2 sessions, 2 duels: 814k states |
| `rewards` | MCRewards | `StreakIsEarned`, `OneDailyPerDay` in any order; `StreakIsComplete`, `StyleCapPerDay` for calls in order | 1 player, 2 sessions, 4 days, caps of 2: 397k states |
| `gate` | MCNetCityGate | `NetCityIsEarned`, `BannedStaysOut` | 1 player, 2 sessions, 2 keys |
| `hacks` | MCNpcHack | `HacksStand`, `LedgerIsConsistent`, `LedgerPays` | 2 players, 2 sessions, a replaceable NPC and a boss, 2 hacks: 722k states |
| `auction` | MCAuction | `BooksBalance`, `DebtsAreOwn`, `TermsStand` | 2 players, 2 sessions, 3 listings, 3 ticks: 138k states |
| `auction_rate` | MCAuction, MCAuctionRate.cfg | the sharp bound on the listings in any 30 seconds | 1 player, 2 sessions, limit 2, 7 ticks |
| `contracts` | MCContracts | `PaperTrail`, `ShownWork`, `StoredBansStay` | 1 player, 2 sessions, 2 missions and the hidden one, 1 restart: 1.4M states |
| `suggestions` | MCContracts, MCSuggestions.cfg | does the suggested line make `submit` succeed? (violated) | 1 session, 3 missions |
| `files` | MCVfs | `OnlyGraftsBreakTheTree`, `RefusedChangesNothing`, refinement `StoresFiles` | 2 names, depth 2, 5 nodes |
| `shell` | MCShell | `HistoryFile`, `StatusAgrees`, `ParsesSegmentwise` | 5 lines out of 16: 98k states; pairs of lines of up to 3 tokens |
| `terminal` | MCTerminal | `EditorAgrees`, `LimitIsSharp` | 5 bytes of 7 kinds, packets of 1 or 2, 2 channels, 3 ticks, a ban: 2.3M states |
| `world_lock` | MCWorldLock | `NoHoldAndWait`, and with fairness `EveryLineAnswered` | 3 sessions, six programs |

Why these bounds are enough to see the interesting cases:

- *Two sessions* are what a race needs: each property relates at most two
  concurrent calls, and the third party, the world, is always there. The lock
  has three, because the deadlock it excludes needs a reader, a writer behind it
  and the reader's second request, and starvation needs others to overtake.
- *Two duels* of `StartHp` 20 with blows of 30 and of 10, each halved by a
  guard, contain duels that end at once, after a guard, at exactly zero and below
  it, the overwritten and the abandoned one, and a self-duel beside a real one.
- *Caps of 2* instead of 7 (streak) and 5 (bonuses): the rules only compare with
  the cap, and three further days pass it. The proofs are for every cap.
- *Two hacks* of one NPC contain the race that matters: the second ends against
  a successor. Bases are chosen so that both fights of one and of two exchanges,
  with and without the guard and the bonus, occur, and some end at exactly zero.
- *Buyout prices* of `auction` are one that most wallets cannot bear twice and one of -200,
  which puts a seller of 120 chips into debt. A price of -200 shows the whole of what
  negative ones do; `buyout * 300` overflows an `i64` only beyond 10^16 chips, which is
  outside the bounds and the integers of the model.
- *The auction clock* of `auction` passes the lifetime and the window of one tick;
  `auction_rate` reaches a late listing in the third window, and its bound is
  attained (one less is violated).
- *Three missions* of `contracts`: one whose line works, one whose line is banned (both
  bring mail), and the hidden one. A reputation of 50 allows the same mission to be paid
  several times, by both sessions at once; one restart suffices to have rows of an
  earlier id beside those of the present one.
- *Two names at depth 2* have a node, its sibling, its child and its parent, every
  kind of overlap of source and destination there is, and the root; five nodes let a
  copy replace and add nodes at the same time.
- *A history of two lines* overflows from the third line on, and the five lines of a
  run can write the file, move it, put a directory in its place and go on. The
  sixteen lines have one for each thing a line can do to the state kept.
- *Escape sequences of two bytes* and five bytes in all: a sequence that ends, one that
  runs out, one that is interrupted; CR LF whole, split over packets and doubled;
  erasing more than there is. A burst of one line per tick meets both edges of the window.

Counters are bounded in guards, by constants whose comment says so: `MaxDuels`,
`MaxDay`, `MaxHacks`, `MaxTime`, `MaxListings`, `MaxReputation`, `MaxRestarts`,
`MaxDepth`, `MaxLines`, `MaxNodes`, `MaxPacket`, `MaxTyped`. Two configurations switch the
deadlock check off: a shell session may end after any line, and all channels of a
connection may be closed.

Fairness: only `WorldLock` has any. `WF_lockVars(Proceed(s))` for each session says
that a session which can go on does so eventually: tokio polls every task that
was woken and its semaphore hands permits out in the order of the queue. It also
assumes that the database answers or fails; without that a session may hold the
write guard for ever, and nothing in the code would end the wait. Nothing is
assumed of when lines arrive. No other module needs fairness: their properties
are safety.

### Where the code and its documentation part

`suggestions` is the one run that is expected to fail. `validate_mission` tells the
player "Run the suggested command first, then submit" (W 1958-1961); of the 104
suggested lines on the board 46 cannot print their mission's words in a session
that ran nothing else. They print a count or other columns, read one of the files
that bootstrap fails to write, or contain `base64 -d`, for which the intrusion guard
bans the player. The run's three missions are one of each kind; TLC stops at the first
counterexample it meets and shows one of the three, the banned line.

These were met while modelling and have no run; the models follow the code.

- `run_line` looks for a ban under one guard and runs the command under another;
  `duel_action` does not look. `BanTakesHold` bounds what comes of it; still a line that
  has passed the check wins chips for an account zeroed in between, while the handbook
  says "ZEROED (account locked)" (M 2452).
- The server hashes the pasted line when a key is registered and another text when
  it is offered, so reconnecting with the registered key does not open the gate
  as `README.md:364` says. In the model the two are the constants `LineFp` and `KeyFp`.
- `PoolName` is looked up with the incremented generation: the second name of a pool
  is skipped, though `README.md:237` lists it.
- Two claims around midnight, of two sessions, served in the other order: the
  streak of consecutive days falls to one (`StreakIsComplete` is stated for claims in
  order; the test at `tests/regression.rs:228` expects it to grow).
- `docs/GAMEPLAY.md:73` says "listing fees, taxes, floors, and rate limits prevent abuse";
  `create_listing` holds the start price against the floor of 25 (W 2231) and not the buyout
  price, which the command parses as any `i64` (M 2772). A listing at -200 can be bought: the
  buyer is paid, and a seller of 120 chips is left with a debt. `auction` runs with such a
  price, and `DebtsAreOwn` says that it is the only way into debt.
- A player in stance `pve` can be challenged (`README.md:193`; W 2481).
- A hardcore account can have three deaths and not be zeroed, when they happened
  under another tier (`docs/GAMEPLAY.md:117`; W 1388).
- A late style bonus resets the counter of a day, so that it pays a sixth.
- A stale hack's ledger entry has the successor's name; an expired listing is still sold
  (W 2310).
- `README.md:285` names PostgreSQL as persistent player data; nothing is read back, so
  after a restart every player begins anew, bans included.
- `diff` ends with 0 when the files differ; its comment says 1 (`builtins.rs:1474`).
- Quoting is forgotten by `tokenize`: a quoted lone operator is the operator. The
  redirection of `a | > f ; b` has no command and goes to `b`. A line without a command
  sets the status to 0 and leaves `$?` as it was.
- `README.md:368` says that the server "ignores escape sequences"; `ESC O P` of a function
  key ends at its first letter and leaves `P` in the line, and `EditorAgrees` says so.
  Backspace removes a byte, not a character.

## 4. What TLAPS proves

Every safety property of the passing runs is a theorem, for every value of the constants,
the bounds of section 3 among them. What is left to TLC alone is listed at
the end of this section.

### What the proofs assume

The assumptions are on the constants, named, in the module that declares them, and TLC
evaluates them on every run. They say:

- the placeholder `None` is no player, session, number or record that it stands in for
  (`NoneAssumption`, `NobodyAssumption`): it models Rust's `Option::None`;
- counts, damages, limits and bounds are natural numbers, and those that the code has as
  positive literals are positive (`StartHp`, `Burst`, `EscapeLimit`, `HistoryLimit`, ...).
  Prices are integers, because the commands parse any `i64`;
- players and sessions are finite sets where something is counted over all of them
  (`PlayersAssumption`, `CombatAssumption` of NpcHack, `MarketAssumption`): they are entries
  of a hash map and connections of a process;
- the lines of a shell are sequences of strings (`ShellAssumption`), the classes of bytes
  of the editor are disjoint and its control bytes are in none of them, and the text
  `exit` is not empty (`TerminalAssumption`);
- `StyleCap` is at most 5, as the code's factor `1.0 - n * 0.2` would turn negative beyond.

No theorem has a hypothesis of its own.

### Sums, and how to do without induction

An induction over data cannot be cited in this prover, and many of the properties speak of
sums, of runs of a fold or of the length of something. `LeastNumber` (`Sums`) and `Least`
replace it: a non-empty set of naturals has a least element, so a property of numbers
that fails has a first place to fail at, and the step before it is a contradiction.
`SmallestSet` does the same with finite sets and their cardinality.

`Sums` uses them to prove of the community modules' `MapThenSumSet` what accounts
need: the sum is an integer (`SumIsInt`), it changes by what one entry changes
(`SumChanges`), equal entries give a product (`SumOfEquals`). `MapThenSumSet` chooses a
recursive function over all subsets; `FoldObeys` shows that there is one, from one for
the sets smaller than `k` to one for those of `k` elements (`PartialFold`).

In the same way a recursive function of a model (`after` in `data`, the walk of `Parse`,
of `RunSegments` and of `Expanded`) is shown to exist (`BytesTakenExists`,
`TokensReadExists`, ...) before anything is said of its values.

### Duels: PvpSessions_proofs

- `DuelsOnTableStand` (`BothStanding`) is inductive with the types: a duel that goes on has
  been looked at for zero on both sides (`Ended`), a new one starts with `StartHp > 0`.
- `DuelBooksBalance` (`BooksBalance`): each duel ever issued is on the table or has cost one
  death and paid one prize. A kill takes one duel off the table and adds one to the sum of
  the deaths (`SettledInBooks`); that the table stays finite is part of it (`TableIsFinite`).
- `SessionsImplementDuels`, the refinement: each action of a session is a call of the world
  service or leaves its state alone (`StepIsCall`). What holds of the duels is so carried over
  to the sessions: `SessionBooksBalance`, `SessionDuelsStand`.
- `HeldDuelsAreLive` needs no strengthening beyond the types: a duel leaves the table by
  `Kill` only, which is done by the one session that holds it.
- `ChallengersAreUntouched` follows from it: only `left` ever moves, and a left move hurts
  only the right side (`LeftMoveSparesLeft`), also in a self-duel.
- `AbandonedStayFrozen` (`AbandonedDuelsFreeze`, an action property): a duel that no session
  holds any more is the same in every later state, since `current_duel` is the only way to it.
- `BansTakeHold` (`BanTakesHold`, an action property) rests on `HeldDuelsAreLive`: whoever moves a
  duel does it from its challenger's session, with a line that had passed the check and is
  now used up (`BanStep`).

### Rewards_proofs

`StreaksAreEarned` is proved from `TypeOK /\ StreakIsEarned`. The types alone are not
inductive: that a second claim of `streak_day` leaves a streak of at least one needs the
invariant. The heart is `DailyEarned`: a claim of the day after `streak_day` extends a row
that is claimed already; any other claim that is served starts its own. `DailyPaidOnce` uses
`PaidAtMostOnce`: a day not in `claimed` has not been paid. `StreaksAreComplete` and
`StyleIsCapped` are about calls in the order of their dates. For the first, `Complete` speaks of
all days there are, and of players without a claim: a claim in order is later than all
before it, because the day of the last one is claimed already. For the second, `Capped`
ties the counter to the last day and says that no later day was paid.

### Gate and lock: Connections_proofs

`NetCityIsEarned` is not inductive: `EnterNetCity` trusts what the earlier phases have read.
The strengthening `Underway` says that what they have read is still so, and `Grows`
(missions, keys and sightings are never taken back) carries it over the steps of all
other sessions. `BannedAreKeptOut` (`BannedStaysOut`, an action property) rests on the one look
at the ban that the last phase takes itself (`WriteMode`): whatever the earlier phases
have seen, no step moves a banned player's profile, and its sessions only go back to training.

`WritersAreAlone` (`Exclusion`, which no run checks besides) and `NobodyHoldsAndWaits` (`NoHoldAndWait`) follow from
`GuardsInHand`: a session holds a guard only in the places "holding" and "saving", with a
phase left to do, and every phase of every program drops its guard. The order of the queue
plays no part in either; it is what liveness rests on.

### Line editor: Connections_proofs

`LinesAreTyped` (`EditorAgrees`) and `RefusalsAreSharp` (`LimitIsSharp`) hold for packets and runs
of any length. Neither is inductive, because both speak of the past and not of the
editor's flags.

- The step is one byte (`ByteTells`); a packet is a chain of them (`DataIs`). For a byte more,
  nothing that is said of earlier places changes (`PrefixStands`, `LeftStands`): a place
  once erased stays so.
- *Erasing.* `Outlives` compares erasures and printed bytes over all intervals after a place. What
  has to be shown is that a DEL removes exactly the last place that was left. `Counted` is
  the invariant that does it: after a place that has outlived all erasures, as many bytes were
  printed as there are erasures and bytes left. The difficulty are the erasures that found an
  empty line; no place before them outlives them, so they drop out of every such count.
- *Escape sequences.* `EscapeTells`: the counter says how far back the last ESC is, with nothing
  but blanks since, so the counter is zero exactly if the next byte is not swallowed (`EscapeNext`).
- *Spelling.* A text that spells the places left spells them with one more or one fewer at the end
  (`SpellsMore`, `SpellsLess`), by the ranks.
- *The limit.* `LimitKept` says that the window is the list of the times of those lines that ran and
  may still count, each once, in the order of time (`Tells`, `Kept`). So its length after the purge is
  the cardinality that the property speaks of (`RecentCounts`); it also shows that the purge,
  which stops at the first young entry, has missed no old one.

### Auction_proofs

- `ListingsStand` (`TermsStand`, an action property) needs `BidsAboveStart`, because `place_bid`
  compares with the highest bid alone once there is one.
- `MarketBooksBalance` (`BooksBalance`): the wallets, the fees and the taxes add up to what the
  players started with, whoever buys from whom and also from oneself (`BuyoutBooks`), at
  negative prices too. It needs that the tax is an integer, not that it is part of the price.
- `OnlyNegativePricesIndebt` (`DebtsAreOwn`, an action property), for every set of prices: fee
  and price are compared with the wallet under the guard that charges them, so only a
  seller's share can go below nothing (`DebtStep`).
- `SellersAreThrottled` (`ListingsAreThrottled`): the sharp bound
  `2 * MaxPerWindow - 1 + (Cardinality(Sessions) - 1)` on a seller's listings dated within any
  one window. The clock is read before the lock, so calls are served out of order. The
  invariant `WindowsThrottle` bounds, for every seller and every `t`, the listings dated in the
  window from `t` on by where the seller's own window began (`Throttled`): before, within or
  after it. Once it began after, only the sessions that still wait with a time from before
  (`Late`) can add to them, each of them once.

### NpcHack_proofs

- `HacksAreStanding` (`HacksStand`), inductive with the types of hacks and sessions: a move leaves
  the player's integrity alone and a reply the NPC's, so `NpcDown` and `PlayerDown` between them
  have seen both sides. `TypeCorrect` rests on it: the hack a session holds is there, so it
  pays or kills a player.
- `LedgerTellsTheStory` (`LedgerIsConsistent`): of every generation of every NPC the fall, then
  the return, each once. A ledger only grows (`ToldStays`), and the last word of a city on an NPC
  (`LastWord`) fixes what the state of that NPC is.
- `LedgerPaysForAll` (`LedgerPays`): what the players were paid is what the ledger tells, and
  each hack issued is under way, won or lost. The wins of the players are the entries of
  the ledger (`WinsCount`).

### Contracts_proofs

`Inv` is the types, `MailIsEarned` (nobody has more mail of a mission than reputation to
show for it, which bounds both), `RowsArePast` (no row has an id of a later run of the
server), `DoingIsShown` (what a session is about to complete was on its screen) and
`PaperTrail`. `RowsArePast` is what makes the restart safe: a new run's ids are in no table,
so `JustStarted` satisfies everything anew. `PaperTrail` does not say that what is stored was
mailed, nor that what is completed was stored: a lost answer stops `complete_mission` after
the commit, an error before it, and nothing tries again. From it: `RecordsAgree` (`PaperTrail`),
`OnlyShownWorkCounts` (`ShownWork`, an action property over the two halves of submit) and
`OnlyLoginsLiftBans` (`StoredBansStay`, likewise).

### File system and shell: VfsShell_proofs

- `TypeCorrect`, in which the root stays: no removal takes `/` with it (`RemoveSound`), and a
  copy that puts something onto `/` puts a directory there (`GraftKeepsRoot`).
- `GraftsAlone` (`OnlyGraftsBreakTheTree`) goes operation by operation over trees
  (`InsertKeepsTree`, `MkdirPKeepsTree`, `RemoveKeepsTree`, ...).
- `AllOrNothingHolds` (`RefusedChangesNothing`): that `mkdir_p` makes nothing before it is blocked
  rests on `PrefixesAreThere`.
- `FilesAreAStore` (`StoresFiles`), the refinement of `FileStore`: per operation, in any tree and
  with any arguments, the files change as one step of the store or not at all (`WriteStores`,
  `RemoveStores`, `MvStores`, `GraftStores`). Directories are silent (`MkdirPIsSilent`).
  `ConcatParts` and `MovedBack` say how paths come apart again after a copy has put them
  together, which is where two sources might have met in one destination.
- `FileTellsHistory` (`HistoryFile`): the invariant `HistoryKept` adds only that the history is of
  typed lines and within its limit. A write that succeeds has told the file (`WriteTells`), one
  that fails has found no file there, and nothing after it in `run_line` touches the tree.
- `StatusIsShown` (`StatusAgrees`): an execution in which any pipeline ran, or that binds a variable,
  ends with the two equal (`RunAgrees`); that something ran is what `FirstIsDue` says: the
  first segment of a parse is one that the chain logic never skips.
- `LinesParseApart` (`ParsesSegmentwise`), for lines of any length. The parser's walk over `b` alone
  and over `b` behind `a op` are kept side by side: `Beside` relates the two states, each token
  keeps the relation (`TokenBeside`) and so does the end (`FinishBeside`). That the walk over `a`
  leaves no redirection waiting is `CommandWaits`, which is where `EndsInCommand` is needed.

### What TLC alone checks

- `EveryLineAnswered`, the liveness of the lock under fairness: the prover has no ENABLED.
- `SuggestionsWork`, which is there to be violated.
- The operators of `BootFiles` and `MissionBoard` are tables, which TLC evaluates; the proofs about
  `Contracts` hold whatever they contain, as long as codes are on the board.

## 5. What is not modelled

- *Tutorial and campaign*: a step counter per player, read by one call and written by
  the next. Two sessions can lose or repeat a step; nothing else reads it. One thing
  met on the way: step 6 of the tutorial wants a `grep` that is redirected, whose output is
  therefore never logged.
- *Script sandbox*: the Rhai interpreter is a library; a script gets copies of the files
  and gives back text. A script that has timed out goes on in its blocking thread.
- *Listener*: a loop around bind with a delay that doubles to ten seconds.
- *Rendering, configuration, protocol types*: text and data types.
- *Builtins that turn text into text* (`cut`, `sort`, `awk`, ...): pure functions whose
  results no modelled state tells apart. *Glob patterns* and the characters inside a token.
- *The variables of a new shell session* (`PWD`, which `cd` keeps up to date, `HOME`, `USER`, ...):
  only the lines of a player read them. *The ban check of `run_line`* in `NetCityGate`, whose
  sessions can so do more than the program's; `PvpSessions`, `Contracts` and `Terminal` have it.
- *Overflow of the wallets' `i64`*: integers are unbounded in the models.
- *Reading mail, chat, relay, leaderboards*: snapshots under a read guard.
- *The other tables*: keys, mail and listings are written as `mission_progress` is and read
  by nobody. *Admin subcommands* but the ban write tables that the server never reads. The
  in-game `admin` command is not in the list of game commands (M 4830), so it is never
  dispatched; the shell's `history` is only reached behind another command.
- *russh, sqlx, tokio* are libraries; `WorldLock` models tokio's lock from how it is used.

What would come next: of the world lock, that the queue skips no request and that the one at
its head can go on whenever all guards are dropped (the safety part of the liveness
property); a model of the tutorial's two calls.
