---------------------------- MODULE VaultLayout -----------------------------
(***************************************************************************)
(* The vaults of one data directory, over restarts of qfsd: where the      *)
(* three pieces of each vault (replica.bin, chunks, vault) are, how a      *)
(* legacy single-vault layout is moved to vaults/<id> under the marker     *)
(* .migrate-vaults, how vaults are created and forgotten, and which of     *)
(* them a start hosts (store/vaults.rs, daemon.rs, net/admin.rs).          *)
(*                                                                         *)
(* Each step below is one that is synchronised before the next starts, so  *)
(* a process crash or a power loss leaves the disk between two of them.    *)
(* The exception is the rename of FORGET_VAULT, which nothing synchronises *)
(* before the next directory is created under vaults/: until then a power  *)
(* loss can undo it.  An I/O error while the daemon starts ends the        *)
(* process, as Crash does; one in an admin command answers ERR.            *)
(***************************************************************************)
EXTENDS Integers, FiniteSets

CONSTANTS
    Legacy,      \* the id of the vault of the single-vault layout
    Fresh,       \* ids VaultId::generate may return
    Admins,      \* connections to the admin port
    MaxCrashes   \* bound: process crashes and power losses

ASSUME LegacyAssumption == Legacy \notin Fresh
ASSUME CrashesAssumption == MaxCrashes \in Nat

VARIABLES
    flat,        \* pieces of the legacy vault in the data directory itself
    made,        \* vaults/<id> directories
    removed,     \* directories renamed to .removed-<id>
    loose,       \* those of removed whose rename is not synchronised
    held,        \* the pieces in each vault's own directory
    marker,      \* phase in .migrate-vaults, or None
    pc,          \* where the daemon is
    create,      \* --create-vault
    up,          \* the start is over and the listener serves
    queue,       \* vaults discovered or created and not yet open
    hosted,      \* vaults in the VaultSet
    place,       \* the directory a hosted vault was opened in
    publishing,  \* admin CREATE calls waiting for the directory service
    forgetting,  \* admin FORGET calls waiting for the directory service
    stopped,     \* vaults whose host a FORGET of this process has stopped
    refused,     \* the last start failed in discover_vaults
    known,       \* vaults that have been hosted
    forgotten,   \* vaults whose FORGET returned OK
    crashes

disk   == <<flat, made, removed, loose, held, marker>>
admin  == <<publishing, forgetting, stopped>>
daemon == <<pc, create, up, queue, hosted, place, admin>>
record == <<refused, known, forgotten>>
vars   == <<disk, daemon, record, crashes>>

Ids    == {Legacy} \cup Fresh
Pieces == {"replica", "chunks", "vault"}
None   == -1

PieceOf(phase) == CASE phase = 0 -> "replica" [] phase = 1 -> "chunks" [] phase = 2 -> "vault"

-----------------------------------------------------------------------------
(***************************************************************************)
(* Start: run_inner, migrate_legacy, resume_migration                      *)
(***************************************************************************)
Start(flag) ==
    /\ pc = "down"
    /\ create' = flag
    /\ pc' = IF flag /\ "vault" \in flat THEN "migrate" ELSE "resume"
    /\ refused' = FALSE
    /\ UNCHANGED <<disk, up, queue, hosted, place, admin, known, forgotten, crashes>>

Fail ==
    /\ pc' = "down"
    /\ UNCHANGED <<disk, create, up, queue, hosted, place, admin, known, forgotten, crashes>>

\* Bug: the directory is taken to be there.
PreparedNever(v) == made

Prepared(v) == made \cup {v}

\* A directory that was not there is created and vaults/ synchronised.
LooseAfter(v) == IF v \in made THEN loose ELSE {}

\* migrate_legacy up to the marker; with a marker it only resumes.
Migrate ==
    /\ pc = "migrate"
    /\ \/ /\ marker # None
          /\ pc' = "resume"
          /\ UNCHANGED <<disk, create, up, queue, hosted, place, admin, record, crashes>>
       \/ /\ marker = None /\ "replica" \in flat
          /\ made' = Prepared(Legacy)
          /\ loose' = LooseAfter(Legacy)
          /\ pc' = "mark"
          /\ UNCHANGED <<flat, removed, held, marker, create, up, queue, hosted, place,
                         admin, record, crashes>>

WriteMarker ==
    /\ pc = "mark"
    /\ marker' = 0
    /\ pc' = "resume"
    /\ UNCHANGED <<flat, made, removed, loose, held, create, up, queue, hosted, place, admin,
                   record, crashes>>

\* resume_migration: nothing to do without a marker, else prepare the
\* directory and verify the replica at its source or its destination.
Resume ==
    /\ pc = "resume"
    /\ IF marker = None
       THEN pc' = "discover" /\ UNCHANGED <<made, loose>>
       ELSE /\ made' = Prepared(Legacy)
            /\ loose' = LooseAfter(Legacy)
            /\ "replica" \in flat \cup held[Legacy]
            /\ pc' = "move"
    /\ UNCHANGED <<flat, removed, held, marker, create, up, queue, hosted, place, admin,
                   record, crashes>>

\* Bug: the piece is copied and the source stays.
MoveCopies ==
    /\ held' = [held EXCEPT ![Legacy] = @ \cup {PieceOf(marker)}]
    /\ UNCHANGED flat

\* Bug: a piece that has already been moved is an error.
MoveNotTwice ==
    /\ PieceOf(marker) \in flat
    /\ flat' = flat \ {PieceOf(marker)}
    /\ held' = [held EXCEPT ![Legacy] = @ \cup {PieceOf(marker)}]

\* move_once: the piece is at exactly one of its two places.
MoveOnce ==
    /\ (PieceOf(marker) \in flat) # (PieceOf(marker) \in held[Legacy])
    /\ flat' = flat \ {PieceOf(marker)}
    /\ held' = [held EXCEPT ![Legacy] = @ \cup {PieceOf(marker)}]

Move ==
    /\ pc = "move" /\ marker < 3
    /\ MoveOnce
    /\ pc' = "moved"
    /\ UNCHANGED <<made, removed, loose, marker, create, up, queue, hosted, place, admin,
                   record, crashes>>

WritePhase ==
    /\ pc = "moved"
    /\ marker' = marker + 1
    /\ pc' = "move"
    /\ UNCHANGED <<flat, made, removed, loose, held, create, up, queue, hosted, place, admin,
                   record, crashes>>

ClearMarker ==
    /\ pc = "move" /\ marker = 3
    /\ marker' = None
    /\ pc' = "discover"
    /\ UNCHANGED <<flat, made, removed, loose, held, create, up, queue, hosted, place, admin,
                   record, crashes>>

-----------------------------------------------------------------------------
(***************************************************************************)
(* discover_vaults, create_vault_dir, VaultHost::open_durable              *)
(***************************************************************************)

\* Every vaults/<id> directory is taken to be a vault: without its admission
\* file or its replica the whole start fails.
Unfinished == {v \in made : ~({"vault", "replica"} \subseteq held[v])}
Duplicate  == "vault" \in flat /\ Legacy \in made

\* Bug: the legacy layout counts only while there is no vaults/<id>.
DiscoveredOneLayout == IF made = {} /\ "vault" \in flat THEN {Legacy} ELSE made

Discovered == made \cup (IF "vault" \in flat THEN {Legacy} ELSE {})

Discover ==
    /\ pc = "discover"
    /\ Unfinished = {} /\ ~Duplicate /\ ("vault" \in flat => "replica" \in flat)
    /\ queue' = Discovered
    /\ pc' = IF create THEN "create" ELSE "open"
    /\ UNCHANGED <<disk, create, up, hosted, place, admin, record, crashes>>

DiscoverFails ==
    /\ pc = "discover"
    /\ Unfinished # {} \/ Duplicate \/ ("vault" \in flat /\ "replica" \notin flat)
    /\ refused' = TRUE
    /\ Fail

\* prepare_vault_directory and the admission file are two durable steps.
CreateDirectory(v) ==
    /\ pc \in {"create", "serving"}
    /\ v \in Fresh \ (made \cup removed)
    /\ made' = Prepared(v)
    /\ loose' = LooseAfter(v)
    /\ queue' = queue \cup {v}
    /\ pc' = "admission"
    /\ UNCHANGED <<flat, removed, held, marker, create, up, hosted, place, admin, record, crashes>>

WriteAdmission(v) ==
    /\ pc = "admission" /\ v \in queue /\ held[v] = {}
    /\ held' = [held EXCEPT ![v] = {"vault"}]
    /\ pc' = "open"
    /\ UNCHANGED <<flat, made, removed, loose, marker, create, up, queue, hosted, place, admin,
                   record, crashes>>

\* open_durable creates chunks/ and, for a vault without one, replica.bin.
AddPiece(v, p) ==
    /\ pc = "open" /\ v \in queue
    /\ v \in made
    /\ p \notin held[v] /\ (p = "replica" => "chunks" \in held[v])
    /\ p # "vault"
    /\ held' = [held EXCEPT ![v] = @ \cup {p}]
    /\ UNCHANGED <<flat, made, removed, loose, marker, daemon, record, crashes>>

\* While the daemon starts, an open vault is hosted whatever the directory
\* service answers; an admin CREATE waits for it.
Opened(v) ==
    /\ pc = "open" /\ v \in queue
    /\ (IF v \in made THEN held[v] ELSE flat) = Pieces
    /\ place' = [place EXCEPT ![v] = IF v \in made THEN "own" ELSE "flat"]
    /\ queue' = queue \ {v}
    /\ IF up
       THEN publishing' = publishing \cup {v} /\ UNCHANGED <<hosted, known>>
       ELSE hosted' = hosted \cup {v} /\ known' = known \cup {v} /\ UNCHANGED publishing
    /\ UNCHANGED <<disk, pc, create, up, forgetting, stopped, refused, forgotten, crashes>>

AllOpened ==
    /\ pc = "open" /\ queue = {}
    /\ pc' = "serving" /\ up' = TRUE
    /\ UNCHANGED <<disk, create, queue, hosted, place, admin, record, crashes>>

-----------------------------------------------------------------------------
(***************************************************************************)
(* Admin CREATE and FORGET, whose calls to the directory service await     *)
(***************************************************************************)

\* An I/O error before the first await: CREATE answers ERR and what it made
\* of the directory stays.
CreateFails(v) ==
    /\ pc \in {"admission", "open"} /\ up /\ v \in queue
    /\ queue' = {}
    /\ pc' = "serving"
    /\ UNCHANGED <<disk, create, up, hosted, place, admin, record, crashes>>

\* The ad is out, the app-meta file written and the vault in the VaultSet.
Published(v) ==
    /\ pc = "serving" /\ v \in publishing
    /\ publishing' = publishing \ {v}
    /\ hosted' = hosted \cup {v}
    /\ known' = known \cup {v}
    /\ UNCHANGED <<disk, pc, create, up, queue, place, forgetting, stopped, refused, forgotten, crashes>>

\* One of the three failed: CREATE answers ERR, and the complete directory it
\* made stays on disk.
PublishFails(v) ==
    /\ pc = "serving" /\ v \in publishing
    /\ publishing' = publishing \ {v}
    /\ UNCHANGED <<disk, pc, create, up, queue, hosted, place, forgetting, stopped, record, crashes>>

\* The host stops at once; while the directory service is asked to forget the
\* route, the vault is still in the VaultSet.
Forget(a, v) ==
    /\ pc = "serving" /\ v \in hosted
    /\ \A u \in Ids : <<a, u>> \notin forgetting
    /\ forgetting' = forgetting \cup {<<a, v>>}
    /\ stopped' = stopped \cup {v}
    /\ UNCHANGED <<disk, pc, create, up, queue, hosted, place, publishing, record, crashes>>

\* Bug: the directory is renamed and the vault stays in the VaultSet.
ForgetReturnsHosted(a, v) ==
    /\ pc = "serving" /\ <<a, v>> \in forgetting
    /\ forgetting' = forgetting \ {<<a, v>>}
    /\ made' = made \ {v}
    /\ removed' = removed \cup (made \cap {v})
    /\ loose' = loose \cup (made \cap {v})
    /\ forgotten' = forgotten \cup {v}
    /\ UNCHANGED <<flat, held, marker, pc, create, up, queue, hosted, place, publishing, stopped,
                   refused, known, crashes>>

\* After the await, whatever the directory service answered: out of the
\* VaultSet, and vaults/<id>, if there is one, is renamed so that no later
\* start discovers it.  Of two calls for one vault the second finds it gone.
ForgetReturns(a, v) ==
    /\ pc = "serving" /\ <<a, v>> \in forgetting
    /\ forgetting' = forgetting \ {<<a, v>>}
    /\ hosted' = hosted \ {v}
    /\ made' = made \ {v}
    /\ removed' = removed \cup (made \cap {v})
    /\ loose' = loose \cup (made \cap {v})
    /\ forgotten' = forgotten \cup {v}
    /\ UNCHANGED <<flat, held, marker, pc, create, up, queue, place, publishing, stopped,
                   refused, known, crashes>>

\* try_exists, unix_time or the rename fails: FORGET answers ERR when the
\* vault has already left the VaultSet, and its directory stays.
ForgetFails(a, v) ==
    /\ pc = "serving" /\ <<a, v>> \in forgetting
    /\ forgetting' = forgetting \ {<<a, v>>}
    /\ hosted' = hosted \ {v}
    /\ UNCHANGED <<disk, pc, create, up, queue, place, publishing, stopped, record, crashes>>

-----------------------------------------------------------------------------
(***************************************************************************)
(* The end of a process                                                    *)
(***************************************************************************)
Stops ==
    /\ crashes < MaxCrashes /\ crashes' = crashes + 1
    /\ pc' = "down" /\ up' = FALSE
    /\ queue' = {} /\ hosted' = {}
    /\ publishing' = {} /\ forgetting' = {} /\ stopped' = {}
    /\ UNCHANGED <<create, place, record>>

Crash ==
    /\ pc # "down"
    /\ Stops
    /\ UNCHANGED disk

\* A rename that was not synchronised may be gone; with none, as Crash.
PowerLoss ==
    /\ loose # {}
    /\ Stops
    /\ \E back \in SUBSET loose : made' = made \cup back /\ removed' = removed \ back
    /\ loose' = {}
    /\ UNCHANGED <<flat, held, marker>>

-----------------------------------------------------------------------------
\* A data directory of an earlier version holds one complete vault; a new one
\* holds nothing.
Init ==
    /\ flat \in {{}, Pieces}
    /\ made = {} /\ removed = {} /\ loose = {} /\ held = [v \in Ids |-> {}] /\ marker = None
    /\ pc = "down" /\ create = FALSE /\ up = FALSE
    /\ queue = {} /\ hosted = {} /\ place = [v \in Ids |-> "own"]
    /\ publishing = {} /\ forgetting = {} /\ stopped = {}
    /\ refused = FALSE /\ known = {} /\ forgotten = {} /\ crashes = 0

Next ==
    \/ \E flag \in BOOLEAN : Start(flag)
    \/ Migrate \/ WriteMarker \/ Resume \/ Move \/ WritePhase \/ ClearMarker
    \/ Discover \/ DiscoverFails \/ AllOpened \/ Crash \/ PowerLoss
    \/ \E v \in Ids :
          \/ CreateDirectory(v) \/ WriteAdmission(v) \/ Opened(v)
          \/ CreateFails(v) \/ Published(v) \/ PublishFails(v)
          \/ \E a \in Admins : Forget(a, v) \/ ForgetReturns(a, v) \/ ForgetFails(a, v)
          \/ \E p \in Pieces : AddPiece(v, p)

\* The daemon is started again after it stopped and its own steps go on.
Fairness ==
    /\ WF_vars(\E flag \in BOOLEAN : Start(flag))
    /\ WF_vars(Migrate \/ WriteMarker \/ Resume \/ Move \/ WritePhase \/ ClearMarker)

Spec     == Init /\ [][Next]_vars
LiveSpec == Spec /\ Fairness

-----------------------------------------------------------------------------
(***************************************************************************)
(* Properties                                                              *)
(***************************************************************************)

\* Every variable keeps its type, and pieces are only in directories that
\* prepare_vault_directory made.
TypeOK ==
    /\ flat \subseteq Pieces /\ marker \in {None, 0, 1, 2, 3}
    /\ made \cup removed \subseteq Ids /\ loose \subseteq removed /\ held \in [Ids -> SUBSET Pieces]
    /\ \A v \in Ids : held[v] # {} => v \in made \cup removed
    /\ pc \in {"down", "migrate", "mark", "resume", "move", "moved", "discover", "create",
              "admission", "open", "serving"}
    /\ queue \cup hosted \cup publishing \cup stopped \cup known \cup forgotten \subseteq Ids
    /\ forgetting \subseteq Admins \X Ids
    /\ place \in [Ids -> {"own", "flat"}]

\* move_once never meets a piece of the legacy vault at both of its places or
\* at neither, wherever the migration was interrupted and however it resumed.
PiecesKept ==
    marker # None => \A p \in Pieces : (p \in flat) # (p \in held[Legacy])

\* A hosted vault has all its pieces in the directory its handles were opened
\* in ("every durable path ... still refer to the same layout"): no migration
\* and no forgotten directory moves them under a vault that is served.
HostedInPlace ==
    \A v \in hosted :
        IF place[v] = "own" THEN v \in made /\ held[v] = Pieces
        ELSE flat = Pieces /\ marker = None /\ v \notin made

\* A daemon that serves hosts every vault that was ever hosted, whatever
\* happened to the layout in between, unless a FORGET of it returned OK or was
\* begun in this process.  (FORGET stops the host and takes the vault out of
\* the set before it can fail; after a restart the vault is hosted again.)
KnownAreHosted == pc = "serving" => known \ (forgotten \cup stopped) \subseteq hosted

\* "A retained marker therefore always permits idempotent resume": once there
\* is a marker, starts that are not interrupted for ever finish the moves.
MigrationEnds == (marker # None) ~> (marker = None /\ held[Legacy] = Pieces)

\* discover_vaults: "Forgotten vaults are renamed ... they are not hosted
\* again."
ForgottenNotHosted == forgotten \cap hosted = {}

\* "Directory existence alone never proves completion": an interrupted
\* creation or migration does not make a later start fail.
StartNotRefused == ~refused
=============================================================================
