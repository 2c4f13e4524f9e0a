# A TLA+ verification of quantum-fs

The modules here model the Rust backend of quantum-fs (`src/backend/src`: the
library `quantam_fs` and the daemon `qfsd`). `PROJECT.json` maps every
definition to the lines it models and lists the parts of the system, the runs,
the findings, the hazards and the theorems.

## The system

A vault is a directory tree of files cut into chunks. One daemon, the host H,
serializes every change into numbered instructions and keeps each in its log
until all members acknowledged it. The other members hold replicas.

- **Delivery** (`sync/host.rs`, `net/join.rs`). A connected, present and ungated
  member gets instructions from an online queue, in the replies to its
  heartbeats. Every other member gets them in an encrypted mailbox, drained when
  it reconnects, behind a gate that holds back live traffic.
- **Pair keys** (`keystore.rs`, `crypto/`). Packets are sealed under a key per
  pair and epoch, with a counter and a replay window.
- **Persistence** (`store/`). Admission data and replica snapshot are two files
  that change together under an undo journal; chunks are files of their own.
- **Vaults of one data directory** (`store/vaults.rs`, `daemon.rs`,
  `net/admin.rs`): created, discovered at start, migrated and forgotten.
- **Join codes** (`net/directory.rs`). A directory service maps a code to an
  address by signed, timestamped ads that H republishes; rotating the code or
  kicking a member installs a new code and retires the old one.
- **Client** (`src/client`): a Tauri process that embeds the library, and a React
  front end.

The daemon runs its tasks on one thread and switches between them only at an
`.await`. An action is therefore the code between two awaits of one task, or
between two file operations where a crash matters.

## Modules

| Module | Models | State and actions |
|---|---|---|
| `HostDelivery` | instruction delivery, mailboxes, acknowledgements, kick | H's published state, its gates, one connection task per member, the two directions of the connection, each replica. Commit, failed commit, connect, the steps of a flush, welcome, heartbeat, submission, reply, drops, presence expiry, restart |
| `InstructionLog` | what delivery promises | a size, a mark and an acknowledgement per member; refined by `HostDelivery` |
| `DurableStore` | one vault directory on disk | each file as the process sees it and as a power loss may leave it; publication, rollback, recovery, sweep, crashes, power losses, I/O errors |
| `VaultLayout` | all vaults of a data directory over restarts | which piece of which vault is where, the migration marker, start, discovery, creation, forgetting, admin commands that fail, crashes, power losses |
| `JoinCodes` | one vault's code and the directory service | admission, short code, requests on the wire, ads and watermark; publish, republish, rotate, kick, forget, lookup, lost and late exchanges, failed commits |
| `ReplayWindow` | one direction of one key and payload type | send counter, window, packets in flight |
| `MCHostDelivery`, `MCJoinCodes` | | symmetry sets for TLC |
| `HostDeliveryProofs`, `HostDeliveryAckProofs`, `ReplayWindowProofs` | | theorems and proofs |

Operators named `Bug_...`, or commented "Bug:", are plausible mistakes in the
definition that follows them. Each property was seen to fail with one of them.

### Abstractions

- **HostDelivery.** An instruction is its number, an author and whether it is a
  kick. Bodies, ciphertext, epochs and counters are not state, so re-sealing of
  mailboxes is absent. An upload's manifest and link are one edit. Replies to
  pulls and location queries also carry the online queue; they act as a
  heartbeat with nothing new to acknowledge. `lost`, which no action reads, and
  the contents of `history` that the log has truncated are bookkeeping.
- **DurableStore.** A rename and the directory sync after it are two steps. After
  a power loss each file has, independently, any content since its last sync.
  `early`, which no action reads, is bookkeeping: an open relied on a file that a
  power loss could still take back, and no later publication has made up for it.
- **VaultLayout.** Each step is synchronised before the next, so a crash or power
  loss leaves the disk between two of them. The rename of `FORGET_VAULT` is the
  exception: `loose` holds it until the next directory is created under
  `vaults/`, and a power loss may undo it. Errors while the daemon starts end the
  process; errors in `CREATE_VAULT` and `FORGET_VAULT` are actions.
- **JoinCodes.** Host and directory share a clock and timestamps are relative to
  it. `Floor` stands for everything expired or absent, which `is_expired` does not
  tell apart; `stale` says that the file still holds something expired, the case
  in which a lookup commits. A lost request is one that stays on the wire until it
  expires. Other hosts' ads, the global caps and the two different republish
  intervals are left out. The vault has a directory of its own, whose rename, if
  it succeeds, lasts (`VaultLayout` has the other cases).
- **ReplayWindow.** The bit array is the set of distances whose bit is set.

## What is checked

Passing runs:

| Run | Shows |
|---|---|
| `host_kick` | The log covers what members lack, records leave it only when acknowledged by all, a kicked member keeps nothing at H, replicas deny only kicked peers, and delivery implements `InstructionLog` |
| `host_drain` | Acknowledgements never run ahead of a replica, queues stay in order, a non-empty mailbox is gated, a flush H sent applies, replicas only advance, gaps come only from lost handouts, a member catches up and the log drains |
| `store_faults` (H and a member) | Under I/O errors, a process crash and a power loss: what was served is durable and never taken back, the two files match after recovery, an operation that answered `Err` stays undone, held chunks stay, the store opens again |
| `layout` | No piece of a migrating vault is lost or doubled, hosted vaults stay in place, a serving daemon hosts every known vault that no `FORGET_VAULT` stopped, a started migration ends |
| `code_routes`, `code_converges` | The directory's state stays one it can open, a retired code does not route again, only installed codes route, the directory ends up with the current code |
| `replay_window` | No packet is opened twice; none inside the window is refused unopened |

Runs that show a disagreement between the code and what the repository says of
it (details and quotations under `findings`):

| Run | Shows |
|---|---|
| `lost_handout` | A record handed to a connection that ends is skipped by the next flush, whose acknowledgement truncates it from the log |
| `kick_wedge` | A replica that never learned of a member refuses the flush with that member's kick |
| `swept_pin` | A process crash between the unlink of the undo journal and its sync, a reopen that sweeps (`store/durable.rs:101`) and a power loss bring back a snapshot whose pinned chunk is gone; H does not open |
| `refused` | A directory left by an interrupted or failed creation makes every start fail; one left by a migration interrupted before its marker makes every start without `--create-vault` fail |
| `stale_short` | A rotation whose directory call fails leaves the old short code in `STATUS` |

Four configurations beside these runs show further disagreements:

- `DurableStore_unsynced_reopen.cfg` violates `AnswersAreKept`. A member that
  crashed between rename and sync answers from the renamed snapshot after it
  reopens (`sync/host/persistence.rs:284`), and a power loss takes it back.
  `docs/decisions/storage-replica.md:12` says "Persist staged metadata before
  publishing state or returning outgoing packets".
- `DurableStore_rollback.cfg` violates `AlwaysRolledBack`. An error in
  `clear_journal` makes `persist_inner` write the journal again; the process
  crashes before it is synchronised, recovery puts `vault` back under it, and a
  power loss takes the journal: admission file and snapshot do not match.
  `backend/README.md:429` says "An interrupted two-file update rolls back before
  either file is served."
- `VaultLayout_forgotten.cfg` violates `ForgottenNotHosted`. A vault of the legacy
  layout has no `vaults/<id>` for `FORGET_VAULT` to rename (`net/admin.rs:361`),
  and the next start hosts it again. A rename that a power loss undoes
  (`net/admin.rs:364`) has the same effect. `store/vaults.rs:98` says forgotten
  vaults "are not hosted again".
- `JoinCodes_replay.cfg` violates `ReplayIsNoOutage`. The directory refuses a put
  by closing the connection, so a replay reaches the republish loop as an I/O
  error and marks the vault unreachable. `daemon.rs:257` says "A clock second
  that has not advanced is not an outage."

### What the passing runs leave out because of these

A property that one of these behaviours breaks is checked where that behaviour
cannot happen, or is stated up to it. This is a limit of the passing runs:

- `NothingSilentlyDropped`, `GapsOnlyFromLostHandout`, `FlushApplies`, `CatchUp`
  and `LogDrains` except members with a lost handout.
- `host_drain` has one member and no kicks (`Kickable = {}`), as kicks break
  `FlushApplies` (`kick_wedge`). Catching up after a kick is not checked.
- `store_faults` has every fault together, and its properties are stated up to
  `early`: an open, or the recovery before it, that relied on a file its crashed
  predecessor had renamed or unlinked and not synchronised. For
  `ServedIsDurable` and `ServedIsKept` this excepts only a member
  (`DurableStore_unsynced_reopen.cfg`); H synchronises before it answers. For
  `RecoveryOpens`, `HeldChunksAreDurable` and `Reopens` it is the sweep of
  `swept_pin`, for `PairRecovered` the journal of `DurableStore_rollback.cfg`.
  `UndoneStaysUndone` has no exception. A successful publication that is as new as
  what was answered before, and whose chunks are durable, ends the exception.
- `KnownAreHosted` speaks of a daemon that serves; a start that `discover_vaults`
  refuses never does (`refused`). It excepts vaults whose `FORGET_VAULT` returned
  `OK` or was begun by the running process: the host is stopped and out of the
  set before the rename, the last thing that can fail.
- `DirectoryConverges` excepts a directory whose store failed and stays so. It
  refuses every request until an operator restarts it (`net/directory.rs:521`).

### Bounds

Two members suffice for one member's progress to affect another's log and
mailbox, and for a kick seen by a bystander. Two instructions make an order,
three a gap inside a queue. One member with three faults reaches a drop during a
flush followed by a restart and a failed commit. Two chunks separate a pinned
chunk from a swept one. Three publications let a rolled-back one stand between
two good ones; two errors let a rollback fail as well. `store_faults` also passes
with two process crashes, two power losses and one error. Three codes and two
admin connections give two overlapping rotations; three codes against
`MaxAds = 2` let the routes of half-finished rotations fill the cap. `Age`, `Skew`, `Deadline` and `Interval` keep the order of the real
values that the races depend on. A window of three with seven packets has jumps
shorter than, equal to and longer than the window. Symmetry is used only in runs
without liveness properties.

### Fairness

Weak fairness on the steps of running tasks only: started reads, writes and
timers complete, the clock ticks, and a member reconnects (`run_member` retries
for ever). No fairness is assumed for operators, commits, faults, crashes or
expiry of presence, nor, in `JoinCodes`, for a restart of the daemon or of a
directory service whose store failed. In `VaultLayout` and `DurableStore` the
daemon is assumed to be started again.

## What is proved

TLAPS proves these for every value of the constants that satisfies the modules'
assumptions (H is not one of the peers, kickable peers are peers, bounds are
naturals, window and counter are positive).

- `TypeCorrect`, `LogCovers`, `TruncationSafe` (`HostDeliveryProofs`).
  `LogCoversUnacked` is inductive together with the type invariant; truncation
  safety follows, as only publication shortens the log.
- `AckNeverAhead`, `ReplicaMonotone`, `FlushGate` (`HostDeliveryAckProofs`).
  `AckSound` is not inductive: an acknowledgement is recorded from a message, so
  the invariant `AckInv` also says that everything in flight was committed, that
  `last_applied` is exactly the highest id a replica knows, that a confirmation
  on the wire means the replica applied what H prepared, and that a heartbeat
  carries no more than the replica applied.
- `WindowTypeCorrect`, `WindowIsExact`, `NeverOpenedTwice`, `FreshAlwaysPasses`
  (`ReplayWindowProofs`). The last two rest on `WindowExact`: the bits are
  exactly the packets in the window that were opened.

Only model-checked: all liveness (out of this prover's reach), the refinement
`ImplementsLog`, and every property of `DurableStore`, `VaultLayout` and
`JoinCodes`.

## Plan

Model next, in this order:

1. `KeyEpochs`: wraps, candidates and confirmed keys, epoch watermarks,
   colliding handshakes, weekly rotation, restart; then mailbox re-sealing.
2. `MailboxBodies`: bootstrap snapshots, chunk pins, eviction.
3. `Upload` and `ChunkPull`: pending uploads, two-phase acceptance, races with
   clear and unlink.
4. `DirectoryTree`: the tree operations against path semantics.
5. `VaultSet`: bindings of pairs to vaults, permits, handshake limits.
6. `ClientVault` and `ClientNode`: the client's vault task, root loop and files.

Prove next: `ImplementsLog`; `NothingSilentlyDropped`; `PiecesKept` of
`VaultLayout`; `DirectoryConsistent` and `RetiredStaysRetired` of `JoinCodes`;
`ServedIsDurable` of `DurableStore`.

## Not modelled

Byte encodings, frames and short-code spelling (pure functions with round-trip
tests); cryptographic primitives (assumed); location queries (change no state);
the profile port (cosmetic names); logging; the Tauri bridge, the front end and
its in-memory mock.
