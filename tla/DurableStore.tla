---------------------------- MODULE DurableStore ----------------------------
(***************************************************************************)
(* One vault directory on disk: the admission file `vault', the snapshot   *)
(* `replica.bin', the undo journal `.admission-transaction' that makes the *)
(* two change together, and the chunk files the snapshot refers to         *)
(* (store/durable.rs, store/transaction.rs, store/chunks.rs).              *)
(*                                                                         *)
(* atomic_private_write is two steps, a rename the process sees at once    *)
(* and a sync of the directory that makes every entry durable; either can  *)
(* fail.  A process crash keeps what was seen.  A power loss leaves, for   *)
(* each file on its own, any content it had since its last sync.  The      *)
(* chunk directory is synchronised apart from the vault directory.         *)
(*                                                                         *)
(* A snapshot carries a number no other attempt to publish shares, and the *)
(* admission file written with it carries the same number.                 *)
(***************************************************************************)
EXTENDS Integers, Sequences, FiniteSets

CONSTANTS
    Chunks,      \* chunk ids
    Kinds,       \* whose store it may be: "host", or "member" (no admission file)
    MaxTries,    \* bound: publications attempted
    MaxErrors,   \* bound: I/O errors
    MaxCrashes,  \* bound: process crashes
    MaxLosses    \* bound: power losses

ASSUME KindsAssumption == Kinds \subseteq {"host", "member"}
ASSUME BoundsAssumption == {MaxTries, MaxErrors, MaxCrashes, MaxLosses} \subseteq Nat

VARIABLES
    seen,        \* vault, replica.bin and journal, as the process sees them
    maybe,       \* per file, the contents a power loss may leave
    files,       \* chunk files as seen
    synced,      \* chunk files that are durable
    mode,        \* what the process is doing
    todo,        \* the file writes left in the current operation
    renamed,     \* the first of todo is renamed and not yet synchronised
    old,         \* the two files as persist_inner read them
    snapshot,    \* the published snapshot
    chunks,      \* the chunks of the published MemoryChunkStore
    next,        \* the snapshot being published
    staged,      \* the chunks of the staged clone
    open,        \* open_durable and attach_admission have returned
    poisoned,    \* DurableInner.failed
    tries, errors, crashes, losses,
    served,      \* the highest number a process has answered from
    undone,      \* numbers whose publication was rolled back before its Err
    early        \* an open relied on a file that a power loss could still take
                 \* back, and nothing as new, with durable chunks,
                 \* has been published since

directory == <<seen, maybe>>
bodies    == <<files, synced>>
work      == <<mode, todo, renamed, old>>
memory    == <<snapshot, chunks, open, poisoned>>
clone     == <<next, staged>>
counts    == <<tries, errors, crashes, losses>>
outcome   == <<served, undone, early>>
vars == <<directory, bodies, work, memory, clone, counts, outcome>>

Names  == {"vault", "replica", "journal"}
Absent == [n |-> -1, index |-> {}, boxed |-> {}, pair |-> <<>>]

\* An admission file; a snapshot with its chunk index and the chunks its
\* mailboxes pin; a journal with the replica and admission file it restores.
Admission(n)           == [Absent EXCEPT !.n = n]
Snapshot(n, idx, pins) == [n |-> n, index |-> idx, boxed |-> pins, pair |-> <<>>]
Journal(pair)          == [Absent EXCEPT !.n = 0, !.pair = pair]

\* H attaches its admission file to the store, and the file always exists from
\* then on; a member's store has none and writes replica.bin alone.
Journaled == seen["vault"] # Absent

Newer(a, b) == IF a < b THEN b ELSE a
Write(f, c) == [file |-> f, content |-> c]

-----------------------------------------------------------------------------
(***************************************************************************)
(* One file write: atomic_private_write, restore, clear_journal            *)
(***************************************************************************)

\* restore and clear_journal also accept a file that is not there.  They never
\* meet one: a journal is written before it is removed, and it is only written
\* where both files exist.
Writing == todo # <<>>

Rename ==
    /\ Writing /\ ~renamed
    /\ seen' = [seen EXCEPT ![todo[1].file] = todo[1].content]
    /\ maybe' = [maybe EXCEPT ![todo[1].file] = @ \cup {todo[1].content}]
    /\ renamed' = TRUE
    /\ UNCHANGED <<bodies, mode, todo, old, memory, clone, counts, outcome>>

\* Bug: the parent directory is not synchronised.
SyncDirectoryDropped ==
    /\ todo # <<>> /\ renamed
    /\ renamed' = FALSE
    /\ todo' = Tail(todo)
    /\ UNCHANGED <<directory, bodies, mode, old, memory, clone, counts, outcome>>

SyncDirectory ==
    /\ todo # <<>> /\ renamed
    /\ maybe' = [f \in Names |-> {seen[f]}]
    /\ renamed' = FALSE
    /\ todo' = Tail(todo)
    /\ UNCHANGED <<seen, bodies, mode, old, memory, clone, counts, outcome>>

-----------------------------------------------------------------------------
(***************************************************************************)
(* Staging: a clone of the store receives chunks, files first, and loses   *)
(* evicted ones (stage_state, MemoryChunkStore::put and remove_file)       *)
(***************************************************************************)
Stage ==
    /\ mode = "serving" /\ ~poisoned /\ tries < MaxTries
    /\ mode' = "staging"
    /\ staged' = chunks
    /\ UNCHANGED <<directory, bodies, todo, renamed, old, memory, next, counts, outcome>>

\* Bug: the chunk directory is not synchronised.
PutUnsynced(c) ==
    /\ mode = "staging" /\ c \notin staged
    /\ staged' = staged \cup {c}
    /\ files' = files \cup {c}
    /\ UNCHANGED <<directory, synced, work, memory, next, counts, outcome>>

\* A file that is already there is taken as it is, without a sync.
Put(c) ==
    /\ mode = "staging" /\ c \notin staged
    /\ staged' = staged \cup {c}
    /\ files' = files \cup {c}
    /\ synced' = IF c \in files THEN synced ELSE files'
    /\ UNCHANGED <<directory, work, memory, next, counts, outcome>>

Evict(c) ==
    /\ mode = "staging" /\ c \in staged
    /\ staged' = staged \ {c}
    /\ UNCHANGED <<directory, bodies, work, memory, next, counts, outcome>>

\* The write fails before or after its rename: the store is poisoned and the
\* clone is dropped.
PutFails(c) ==
    /\ mode = "staging" /\ c \notin staged /\ c \notin files
    /\ errors < MaxErrors /\ errors' = errors + 1
    /\ files' \in {files, files \cup {c}}
    /\ poisoned' = TRUE
    /\ mode' = "serving"
    /\ UNCHANGED <<directory, synced, todo, renamed, old, snapshot, chunks, open, clone,
                   tries, crashes, losses, outcome>>

Abandon ==
    /\ mode = "staging"
    /\ mode' = "serving"
    /\ UNCHANGED <<directory, bodies, todo, renamed, old, memory, clone, counts, outcome>>

-----------------------------------------------------------------------------
(***************************************************************************)
(* Publishing (DurableStore::persist, persist_with_admission,              *)
(* transaction::persist_inner)                                             *)
(***************************************************************************)

\* Bug: the journal stays behind after both files are written.
PublicationKeepsJournal(pair, new) ==
    IF Journaled
    THEN <<Write("journal", Journal(pair)), Write("vault", Admission(new.n)), Write("replica", new)>>
    ELSE <<Write("replica", new)>>

Publication(pair, new) ==
    IF Journaled
    THEN <<Write("journal", Journal(pair)), Write("vault", Admission(new.n)),
           Write("replica", new), Write("journal", Absent)>>
    ELSE <<Write("replica", new)>>

\* Bug: the two halves of the journal are decoded in the wrong order.
RestorationSwapped(pair) ==
    <<Write("vault", pair[1]), Write("replica", pair[2]), Write("journal", Absent)>>

Restoration(pair) ==
    <<Write("vault", pair[2]), Write("replica", pair[1]), Write("journal", Absent)>>

\* The staged metadata names chunks through its manifests (refs) and its
\* mailboxes (pins).  The index keeps the named chunks that are present; a
\* pinned chunk that is missing refuses the publication before any write.
\* Only H has mailboxes.
Publish(refs, pins) ==
    /\ mode = "staging" /\ tries < MaxTries
    /\ pins \subseteq staged /\ (Journaled \/ pins = {})
    /\ tries' = tries + 1
    /\ old' = <<seen["replica"], seen["vault"]>>
    /\ next' = Snapshot(tries', (refs \cup pins) \cap staged, pins)
    /\ todo' = Publication(old', next')
    /\ mode' = "publish"
    /\ UNCHANGED <<directory, bodies, renamed, memory, staged, errors, crashes, losses, outcome>>

\* sweep_directory removes every file that is not retained and synchronises
\* the directory; an error leaves some of them, or the sync, undone.
SweepAll(kept) ==
    /\ files' = files \cap kept
    /\ synced' = IF files' = files THEN synced ELSE files'
SweepSome(kept) ==
    /\ files' \in {left \in SUBSET files : files \cap kept \subseteq left}
    /\ UNCHANGED synced

\* Bug: the chunks are swept once the snapshot is renamed, journal or not.
PublishedEarly == mode = "publish" /\ Len(todo) < 2 /\ ~renamed

Published == mode = "publish" /\ todo = <<>>

\* The new snapshot becomes the visible one; a failed sweep is only logged.
PublishReturns ==
    /\ Published
    /\ snapshot' = next
    /\ chunks' = staged \cap next.index
    /\ \/ SweepAll(chunks') /\ UNCHANGED errors
       \/ SweepSome(chunks') /\ errors < MaxErrors /\ errors' = errors + 1
    /\ open' = TRUE
    /\ served' = Newer(served, next.n)
    /\ mode' = "serving"
    /\ early' = (early /\ ~(next.n >= served /\ next.index \subseteq synced))
    /\ UNCHANGED <<directory, todo, renamed, old, clone, poisoned, tries, crashes, losses, undone>>

-----------------------------------------------------------------------------
(***************************************************************************)
(* A write that fails                                                      *)
(***************************************************************************)

\* Bug: the rollback puts only the admission file back.
RollbackAdmissionOnly ==
    <<Write("journal", Journal(old)), Write("vault", old[2]), Write("journal", Absent)>>

\* persist_inner writes the journal again before it puts both files back.
Rollback == <<Write("journal", Journal(old))>> \o Restoration(old)

\* The error return: a store that is open goes on serving the old snapshot
\* and is poisoned, one that is being opened is dropped.
Fails ==
    /\ mode' = IF open THEN "serving" ELSE "down"
    /\ poisoned' = open
    /\ todo' = <<>>

\* The step that failed is the rename, or the sync after it.  Only the
\* writes that follow the journal are rolled back.
WriteFails ==
    /\ Writing
    /\ errors < MaxErrors /\ errors' = errors + 1
    /\ renamed' = FALSE
    /\ IF mode = "publish" /\ Journaled /\ Len(todo) < 4
       THEN mode' = "rollback" /\ todo' = Rollback /\ UNCHANGED <<poisoned, undone>>
       ELSE /\ Fails
            /\ undone' = IF mode = "publish" /\ Journaled /\ open
                         THEN undone \cup {next.n} ELSE undone
    /\ UNCHANGED <<directory, bodies, old, snapshot, chunks, open, clone,
                   tries, crashes, losses, served, early>>

RollbackReturns ==
    /\ mode = "rollback" /\ todo = <<>>
    /\ Fails
    /\ undone' = IF open THEN undone \cup {next.n} ELSE undone
    /\ UNCHANGED <<directory, bodies, renamed, old, snapshot, chunks, open, clone, counts,
                   served, early>>

-----------------------------------------------------------------------------
(***************************************************************************)
(* Crashes and opening again (recover_admission_transaction,               *)
(* DurableStore::open, HostService::open_durable, attach_admission)        *)
(***************************************************************************)
Stops ==
    /\ mode' = "down" /\ todo' = <<>> /\ renamed' = FALSE
    /\ open' = FALSE /\ poisoned' = FALSE
    /\ UNCHANGED <<old, snapshot, chunks, clone, tries, errors, outcome>>

ProcessCrash ==
    /\ mode # "down"
    /\ crashes < MaxCrashes /\ crashes' = crashes + 1
    /\ Stops
    /\ UNCHANGED <<directory, bodies, losses>>

PowerLoss ==
    /\ losses < MaxLosses /\ losses' = losses + 1
    /\ \E v \in maybe["vault"], r \in maybe["replica"], j \in maybe["journal"] :
          seen' = [f \in Names |-> IF f = "vault" THEN v ELSE IF f = "replica" THEN r ELSE j]
    /\ maybe' = [f \in Names |-> {seen'[f]}]
    /\ files' \in {s \in SUBSET (files \cup synced) : files \cap synced \subseteq s}
    /\ synced' = files'
    /\ Stops
    /\ UNCHANGED crashes

\* Bug: a journal left behind is only deleted.
RecoveryForgets(j) == IF j = Absent THEN <<>> ELSE <<Write("journal", Absent)>>

Recovery(j) == IF j = Absent THEN <<>> ELSE Restoration(j.pair)

\* Nothing synchronises what a crashed process left between a rename and its
\* sync before it is read: neither a journal that undoes something, nor the
\* snapshot that is loaded.
JournalUnsettled ==
    LET j == seen["journal"] IN
    /\ j # Absent /\ maybe["journal"] # {j}
    /\ j.pair # <<seen["replica"], seen["vault"]>>
Unsettled == \E f \in Names : maybe[f] # {seen[f]}

Restart ==
    /\ mode = "down"
    /\ mode' = "recover"
    /\ todo' = Recovery(seen["journal"])
    /\ early' = (early \/ JournalUnsettled)
    /\ UNCHANGED <<directory, bodies, renamed, old, memory, clone, counts, served, undone>>

\* open refuses a snapshot whose mailboxes pin a chunk that is missing, and
\* sweeps the chunks the snapshot does not index.
Openable == seen["replica"].boxed \subseteq files
Present  == seen["replica"].index \cap files

\* A first open writes the empty snapshot on its own; H then publishes the
\* snapshot it read together with the admission file before it serves.
Load ==
    /\ mode = "recover" /\ todo = <<>> /\ Openable
    /\ SweepAll(Present)
    /\ early' = (early \/ Unsettled)
    /\ snapshot' = Snapshot(IF seen["replica"] = Absent THEN 0 ELSE seen["replica"].n,
                            Present, seen["replica"].boxed)
    /\ chunks' = Present
    /\ staged' = Present
    /\ IF Journaled \/ seen["replica"] = Absent
       THEN /\ next' = snapshot'
            /\ old' = <<IF seen["replica"] = Absent THEN next' ELSE seen["replica"], seen["vault"]>>
            /\ todo' = (IF Journaled /\ seen["replica"] = Absent THEN <<Write("replica", next')>> ELSE <<>>)
                       \o Publication(old', next')
            /\ mode' = "publish"
            /\ UNCHANGED <<open, served>>
       ELSE /\ mode' = "serving"
            /\ open' = TRUE
            /\ served' = Newer(served, snapshot'.n)
            /\ UNCHANGED <<next, old, todo>>
    /\ UNCHANGED <<directory, renamed, poisoned, counts, undone>>

\* A sweep that fails while opening fails the open.
LoadFails ==
    /\ mode = "recover" /\ todo = <<>> /\ Openable
    /\ errors < MaxErrors /\ errors' = errors + 1
    /\ SweepSome(Present)
    /\ early' = (early \/ Unsettled)
    /\ mode' = "down"
    /\ UNCHANGED <<directory, todo, renamed, old, memory, clone, tries, crashes, losses,
                   served, undone>>

-----------------------------------------------------------------------------
Init ==
    /\ \E kind \in Kinds :
          seen = [f \in Names |-> IF f = "vault" /\ kind = "host" THEN Admission(0) ELSE Absent]
    /\ maybe = [f \in Names |-> {seen[f]}]
    /\ files = {} /\ synced = {}
    /\ mode = "down" /\ todo = <<>> /\ renamed = FALSE /\ old = <<Absent, Absent>>
    /\ snapshot = Absent /\ chunks = {} /\ next = Absent /\ staged = {}
    /\ open = FALSE /\ poisoned = FALSE
    /\ tries = 0 /\ errors = 0 /\ crashes = 0 /\ losses = 0
    /\ served = -1 /\ undone = {} /\ early = FALSE

Next ==
    \/ Rename \/ SyncDirectory
    \/ Stage \/ Abandon
    \/ \E c \in Chunks : Put(c) \/ Evict(c) \/ PutFails(c)
    \/ \E refs, pins \in SUBSET Chunks : Publish(refs, pins)
    \/ PublishReturns \/ WriteFails \/ RollbackReturns
    \/ ProcessCrash \/ PowerLoss \/ Restart \/ Load \/ LoadFails

\* The process runs on, and is started again after it stopped.
Fairness ==
    WF_vars(Rename \/ SyncDirectory \/ PublishReturns \/ RollbackReturns
            \/ Restart \/ Load)

Spec     == Init /\ [][Next]_vars
LiveSpec == Spec /\ Fairness

-----------------------------------------------------------------------------
(***************************************************************************)
(* Properties                                                              *)
(***************************************************************************)
Numbers    == -1 .. MaxTries
Admissions == {Admission(n) : n \in Numbers}
Snapshots  == [n : Numbers, index : SUBSET Chunks, boxed : SUBSET Chunks, pair : {<<>>}]

\* Every variable keeps the shape the store's types give it.
TypeOK ==
    /\ DOMAIN seen = Names /\ DOMAIN maybe = Names
    /\ \A f \in Names : seen[f] \in maybe[f]
    /\ maybe["vault"] \subseteq Admissions /\ (Journaled => Absent \notin maybe["vault"])
    /\ maybe["replica"] \subseteq Snapshots
    /\ \A j \in maybe["journal"] \ {Absent} :
          j.n = 0 /\ j.pair[1] \in Snapshots /\ j.pair[2] \in Admissions
    /\ files \subseteq Chunks /\ synced \subseteq Chunks
    /\ chunks \subseteq Chunks /\ staged \subseteq Chunks
    /\ mode \in {"down", "recover", "publish", "rollback", "serving", "staging"}
    /\ renamed \in BOOLEAN /\ open \in BOOLEAN /\ poisoned \in BOOLEAN
    /\ snapshot \in Snapshots /\ next \in Snapshots
    /\ served \in Numbers /\ undone \subseteq Numbers /\ early \in BOOLEAN
    /\ Len(todo) <= 5

\* publish_state is "the visibility boundary": while a store answers from a
\* snapshot and no write failed, that snapshot and the admission file published
\* with it are what is on disk, whatever a power loss does, and no journal is
\* left that could take them back.  A member answers, unlike H, from a snapshot
\* that the crashed process before it had not synchronised (early).
ServedIsDurable ==
    mode \in {"serving", "staging"} /\ ~poisoned /\ (Journaled \/ ~early) =>
        /\ maybe["replica"] = {snapshot}
        /\ maybe["journal"] = {Absent}
        /\ Journaled => maybe["vault"] = {Admission(snapshot.n)}

\* What H answers from is never older than what it, or an earlier run of its
\* process, has answered from: "persist staged metadata before publishing state
\* or returning outgoing packets" holds over any crash, power loss or failed
\* write in between, and for a member up to the same exception.
ServedIsKept == open /\ (Journaled \/ ~early) => snapshot.n >= served

\* A publication that failed and was rolled back is never served later: the
\* caller was told Err and the undo journal took both files back.
UndoneStaysUndone == open => snapshot.n \notin undone

\* "An interrupted two-file update rolls back before either file is served":
\* once recovery is over, the admission file and the snapshot belong to the
\* same publication.  (Before the first snapshot there is only the former.)
\* The exception is a recovery that undid files under a journal which was not
\* durable itself, and was interrupted by a power loss.
PairRecovered ==
    Journaled /\ mode = "recover" /\ todo = <<>> /\ ~early =>
        \/ seen["replica"] = Absent /\ seen["vault"] = Admission(0)
        \/ seen["replica"].n = seen["vault"].n

\* Recovery ends in a snapshot that open accepts, every chunk its mailboxes
\* pin being on disk: no sweep after a publication, and none of an open,
\* outruns the files that could still come back.  The exception is an open
\* that swept while the removal of the journal was not durable.
RecoveryOpens == mode = "recover" /\ todo = <<>> /\ ~early => Openable

\* Open and publication sweep orphans and "retain every chunk referenced by a
\* live manifest or undrained mailbox": the snapshot that recovery ends in
\* finds the chunks its mailboxes pin.
PinsRetained == mode = "recover" /\ todo = <<>> => Openable

\* "Persist staged metadata before publishing state or returning outgoing
\* packets", for every store and every open.
AnswersAreKept == open => snapshot.n >= served

\* recover_admission_transaction "rolls back an interrupted admission/replica
\* publication before either file is read", whatever interrupts it.
AlwaysRolledBack ==
    Journaled /\ mode = "recover" /\ todo = <<>> /\ seen["replica"] # Absent =>
        seen["replica"].n = seen["vault"].n

\* A chunk the published store holds has its file, and keeps it through a
\* power loss, as long as no open swept early.
HeldChunksAreDurable ==
    mode \in {"serving", "staging"} /\ ~early => chunks \subseteq files \cap synced

\* After the last fault the store is open again: recovery is idempotent and
\* no interrupted publication, rollback or recovery blocks the next open, up
\* to the early sweep that RecoveryOpens excepts.
Reopens == mode = "down" ~> open \/ early
=============================================================================
