---------------------------- MODULE HostDelivery ----------------------------
(***************************************************************************)
(* Instruction delivery from the vault host H to the other members.        *)
(*                                                                         *)
(* H numbers every committed instruction and keeps it in its log until     *)
(* every member acknowledged it.  A member that is connected, present and  *)
(* ungated receives an instruction through its online queue, every other   *)
(* member through its mailbox.  A (re)connecting member first drains the   *)
(* mailbox (challenge, frames, apply acknowledgement), then receives the   *)
(* membership (the welcome), and only then exchanges live heartbeats: each *)
(* heartbeat acknowledges what the member applied and is answered with the *)
(* online queue followed by a fresh membership.                            *)
(*                                                                         *)
(* The daemon runs on one thread and yields only at an await, so every     *)
(* action below is the code between two awaits of one task.  Publishing a  *)
(* HostState is one atomic durable write.  File bodies, ciphertext, epochs *)
(* and counters are not state here: an instruction is its id.              *)
(***************************************************************************)
EXTENDS Integers, Sequences, FiniteSets

CONSTANTS
    Peers,       \* identities that may become members (H itself excluded)
    Host,        \* H
    Kickable,    \* peers an operator may kick
    MaxControl,  \* bound on committed instructions
    MaxFaults    \* bound on dropped connections, restarts, failed commits

ASSUME HostAssumption == Host \notin Peers
ASSUME KickableAssumption == Kickable \subseteq Peers
ASSUME BoundsAssumption == MaxControl \in Nat /\ MaxFaults \in Nat

VARIABLES
    \* HostState, published as one snapshot
    members,     \* members other than H
    denied,      \* kicked identities
    history,     \* every instruction ever committed (ghost past truncation)
    log,         \* ids of the records still in HostState.log
    acked,       \* acked_through
    boot,        \* bootstrap_through, NoBoot when absent
    mailbox,     \* queued control ids
    online,      \* controls fanned out to live members, not handed out yet
    \* volatile host state
    gate,        \* H's gate_owner blocks live traffic with the peer
    transport,   \* TRANSPORT_GATE blocks live traffic with the peer
    present,     \* presence TTL has not run out
    hpc,         \* where H's connection task for the peer waits
    offered,     \* frame_count of the flush offer
    prepared,    \* PreparedHostFlush.envelopes
    preparedBoot,\* PreparedHostFlush.bootstrap_through
    batch,       \* packets returned by take_online_control, being sent
    \* the connection
    toMember, toHost,
    \* the member process
    mpc,         \* where the member's connection waits
    last,        \* last_applied
    applied,     \* ids in MemberReplica.controls above the bootstrap
    rboot,       \* MemberReplica.bootstrap_through (0 when absent)
    rmembers,    \* MemberReplica.members without H
    rdenied,     \* MemberReplica.denied
    \* bookkeeping
    lost,        \* ids handed out on a connection that ended before they applied
    faults

published == <<members, denied, history, log, acked, boot, mailbox, online>>
gates     == <<gate, transport>>
task      == <<hpc, offered, prepared, preparedBoot, batch>>
wire      == <<toMember, toHost>>
replica   == <<last, applied, rboot, rmembers, rdenied>>
vars      == <<published, gates, present, task, wire, mpc, replica, lost, faults>>

-----------------------------------------------------------------------------
(***************************************************************************)
(* Values                                                                  *)
(***************************************************************************)
Ids    == Nat \ {0}
NoBoot == -1

\* Add, Link, NewManifest ... are edits by an author; Kick names its target.
Updates == [kind : {"edit", "kick"}, peer : Peers \cup {Host}]
Edit(w) == [kind |-> "edit", peer |-> w]
Kick(q) == [kind |-> "kick", peer |-> q]

HostPhases   == {"none", "offered", "sent", "acknowledged", "welcomed", "live", "sending"}
MemberPhases == {"none", "joining", "flushed", "idle", "waiting"}

Downlink == [kind : {"none", "flush", "welcome", "reply"}, ids : Seq(Ids),
             boot : Nat \cup {NoBoot}, members : SUBSET Peers, denied : SUBSET Peers]
Uplink   == [kind : {"none", "flushed", "heartbeat", "submit"}, through : Nat]

Silence == [kind |-> "none", ids |-> <<>>, boot |-> NoBoot, members |-> {}, denied |-> {}]
Quiet   == [kind |-> "none", through |-> 0]
Flush(ids, b) == [Silence EXCEPT !.kind = "flush", !.ids = ids, !.boot = b]
\* VaultHost::welcome: the membership at the moment it is called.
Welcome       == [Silence EXCEPT !.kind = "welcome", !.members = members, !.denied = denied]
Reply(ids)    == [Welcome EXCEPT !.kind = "reply", !.ids = ids]
Says(k, n)    == [kind |-> k, through |-> n]

Elems(s)   == {s[i] : i \in 1 .. Len(s)}
Larger(a, b) == IF a < b THEN b ELSE a
\* The largest id of S, or d when S is empty.
Highest(S, d) == IF \E i \in S : \A j \in S : j <= i
                 THEN CHOOSE i \in S : \A j \in S : j <= i
                 ELSE d
\* Control ids in the order sort_by_key leaves them.
IdQueues   == {s \in UNION {[1 .. n -> 1 .. MaxControl] : n \in 0 .. MaxControl} :
                 \A i, j \in DOMAIN s : i < j => s[i] < s[j]}

LiveTraffic(p) == ~gate[p] /\ ~transport[p]
Fault == faults < MaxFaults /\ faults' = faults + 1

\* Bug: the floor is the highest acknowledgement instead of the lowest.
Bug_RetainAboveHighest(ids, ms, ack) == {i \in ids : \A p \in ms : ack[p] < i}
\* publish_state: a record stays in the log until every member, H included,
\* acknowledged it; H acknowledges each record as it commits it.
Retain(ids, ms, ack) == {i \in ids : \E p \in ms : ack[p] < i}

-----------------------------------------------------------------------------
(***************************************************************************)
(* A record at a replica (stage_control_mode).  Applying a set of new ids  *)
(* in ascending order succeeds when no id is below one already applied,    *)
(* every author is not denied at its record, and every kicked peer is a    *)
(* member at its record.  Authors known from the history are members from  *)
(* their record on.                                                        *)
(***************************************************************************)
EditBy(i, w)  == history[i].kind = "edit" /\ history[i].peer = w
KickOf(i, q)  == history[i].kind = "kick" /\ history[i].peer = q
Authors(S)    == {w \in Peers : \E i \in S : EditBy(i, w)}
Kicked(S)     == {q \in Peers : \E i \in S : KickOf(i, q)}
Known(p, i)   == i <= rboot[p] \/ i \in applied[p]

\* Bug: records are not compared with the last applied one.
Bug_AcceptsAnyOrder(S, old, ms, dn) ==
    /\ \A w \in Peers, i \in S : EditBy(i, w) => w \notin dn
    /\ \A q \in Peers, i \in S : KickOf(i, q) => q \in ms

Accepts(S, old, ms, dn) ==
    /\ \A i \in S, j \in old : j < i
    /\ \A w \in Peers, i \in S : EditBy(i, w) =>
          w \notin dn /\ ~\E j \in S : j < i /\ KickOf(j, w)
    /\ \A q \in Peers, i \in S : KickOf(i, q) =>
          /\ q \in ms \/ \E j \in S : j < i /\ EditBy(j, q)
          /\ ~\E j \in S : j < i /\ KickOf(j, q)

\* Bug: an applied Kick leaves its target in the member set.
Bug_KickKeepsMember(S, ms) == ms \cup Authors(S)

MembersAfter(S, ms) == (ms \cup Authors(S)) \ Kicked(S)
DeniedAfter(S, dn)  == dn \cup Kicked(S)

\* reconcile_members: the welcome must list the replica itself, and may not
\* forget a denial.
Reconciles(p, dn, m) == p \in m.members /\ m.members \cap m.denied = {} /\ dn \subseteq m.denied

-----------------------------------------------------------------------------
(***************************************************************************)
(* Committing (commit_verified_with_code and kick_with_code)               *)
(***************************************************************************)
NextControl   == Len(history) + 1
Target(u)     == IF u.kind = "kick" THEN {u.peer} ELSE {}
Live(p)       == present[p] /\ LiveTraffic(p)
Recipients(u) == members \ Target(u)

\* A live recipient keeps its online queue; for any other the undelivered
\* online controls move to the mailbox ahead of the new record.
OnlineAfter(u)  == [p \in Peers |-> CASE p \in Target(u)      -> <<>>
                                      [] p \notin Recipients(u) -> online[p]
                                      [] Live(p)              -> Append(online[p], NextControl)
                                      [] OTHER                -> <<>>]
\* Bug: undelivered online controls are not migrated.
Bug_NoMigration(u) ==
    [p \in Peers |-> CASE p \in Target(u) -> <<>>
                       [] p \in Recipients(u) /\ ~Live(p) -> Append(mailbox[p], NextControl)
                       [] OTHER -> mailbox[p]]
\* Bug: the new record is queued ahead of the migrated ones.
Bug_MigratesBehind(u) ==
    [p \in Peers |-> CASE p \in Target(u) -> <<>>
                       [] p \in Recipients(u) /\ ~Live(p) ->
                            mailbox[p] \o <<NextControl>> \o online[p]
                       [] OTHER -> mailbox[p]]
\* Bug: a kick leaves its target's mailbox.
Bug_KickKeepsMailbox(u) ==
    [p \in Peers |-> IF p \in Recipients(u) /\ ~Live(p)
                     THEN Append(mailbox[p] \o online[p], NextControl) ELSE mailbox[p]]
MailboxAfter(u) == [p \in Peers |-> CASE p \in Target(u)      -> <<>>
                                      [] p \in Recipients(u) /\ ~Live(p)
                                                              -> Append(mailbox[p] \o online[p], NextControl)
                                      [] OTHER                -> mailbox[p]]
GateAfter(u)    == [p \in Peers |-> /\ p \notin Target(u)
                                    /\ \/ gate[p]
                                       \/ mailbox[p] # <<>>
                                       \/ p \in Recipients(u) /\ ~Live(p)]
AckedAfter(u)   == [p \in Peers |-> IF p \in Target(u) THEN 0 ELSE acked[p]]

\* Everything a commit publishes except the online queues.  A kick also
\* discards the pair (its gates), the presence and the flush challenge.
CommitBody(u) ==
    /\ Len(history) < MaxControl
    /\ history' = Append(history, u)
    /\ mailbox' = MailboxAfter(u)
    /\ members' = members \ Target(u)
    /\ denied' = denied \cup Target(u)
    /\ acked' = AckedAfter(u)
    /\ boot' = [p \in Peers |-> IF p \in Target(u) THEN NoBoot ELSE boot[p]]
    /\ log' = Retain(log \cup {NextControl}, members', acked')
    /\ gate' = GateAfter(u)
    /\ transport' = [p \in Peers |-> transport[p] /\ p \notin Target(u)]

\* H commits on its own behalf, or its operator kicks a member.
Commit(u) ==
    /\ \/ u = Edit(Host)
       \/ \E q \in Kickable \cap members : u = Kick(q)
    /\ CommitBody(u)
    /\ online' = OnlineAfter(u)
    /\ present' = [p \in Peers |-> present[p] /\ p \notin Target(u)]
    /\ UNCHANGED <<task, wire, mpc, replica, lost, faults>>

\* Bug: a failed commit opens gates that a waiting mailbox still needs.
Bug_FailureOpensGates ==
    /\ Fault
    /\ \E reached \in SUBSET {p \in members : ~Live(p)} :
          gate' = [p \in Peers |-> gate[p] /\ p \notin reached]
    /\ UNCHANGED <<published, transport, present, task, wire, mpc, replica, lost>>

\* Sealing or the durable write fails: nothing is published, and the gates of
\* the recipients reached so far open again where no mailbox needs them.
CommitFails ==
    /\ Fault
    /\ \E reached \in SUBSET {p \in members : ~Live(p)} :
          gate' = [p \in Peers |-> mailbox[p] # <<>> \/ (gate[p] /\ p \notin reached)]
    /\ UNCHANGED <<published, transport, present, task, wire, mpc, replica, lost>>

-----------------------------------------------------------------------------
(***************************************************************************)
(* Ends of a connection.  The two ends fail separately: what one end had   *)
(* already sent may still be read by the other.                            *)
(***************************************************************************)

\* The offer and the prepared flush live in the task that made them.
ForgetFlush(p) ==
    /\ offered' = [offered EXCEPT ![p] = 0]
    /\ prepared' = [prepared EXCEPT ![p] = <<>>]
    /\ preparedBoot' = [preparedBoot EXCEPT ![p] = NoBoot]

\* H's task for p ends (PeerPermit::drop): presence goes, TRANSPORT_GATE
\* stays, packets taken but not sent go with the task.
TaskEnds(p) ==
    /\ hpc' = [hpc EXCEPT ![p] = "none"]
    /\ present' = [present EXCEPT ![p] = FALSE]
    /\ batch' = [batch EXCEPT ![p] = <<>>]
    /\ toHost' = [toHost EXCEPT ![p] = Quiet]
    /\ lost' = [lost EXCEPT ![p] = @ \cup Elems(batch[p])]
    /\ ForgetFlush(p)

\* The member's connection ends with `ids' of the current reply unapplied.
LinkEnds(p, ids) ==
    /\ mpc' = [mpc EXCEPT ![p] = "none"]
    /\ toMember' = [toMember EXCEPT ![p] = Silence]
    /\ lost' = [lost EXCEPT ![p] = @ \cup ids]

Unread(p) == IF toMember[p].kind = "reply" THEN Elems(toMember[p].ids) ELSE {}

HostDrop(p) ==
    /\ hpc[p] # "none"
    /\ Fault
    /\ TaskEnds(p)
    /\ UNCHANGED <<published, gates, toMember, mpc, replica>>

\* H's task notices that the member is gone, or was kicked while it waited.
HostNotices(p) ==
    /\ hpc[p] # "none"
    /\ mpc[p] = "none" \/ p \notin members
    /\ TaskEnds(p)
    /\ UNCHANGED <<published, gates, toMember, mpc, replica, faults>>

\* The member loses the connection or its process stops; the replica is durable.
MemberDrop(p) ==
    /\ mpc[p] # "none"
    /\ Fault
    /\ LinkEnds(p, Unread(p))
    /\ UNCHANGED <<published, gates, present, task, toHost, replica>>

MemberNotices(p) ==
    /\ mpc[p] # "none"
    /\ hpc[p] = "none"
    /\ LinkEnds(p, Unread(p))
    /\ UNCHANGED <<published, gates, present, task, toHost, replica, faults>>

\* No heartbeat for IDLE_TIMEOUT while the connection is still up.
PresenceExpires(p) ==
    /\ present[p]
    /\ Fault
    /\ present' = [present EXCEPT ![p] = FALSE]
    /\ UNCHANGED <<published, gates, task, wire, mpc, replica, lost>>

\* The daemon restarts from the last snapshot.  HostState::metadata wrote each
\* mailbox merged with every logged id the member has neither acknowledged nor
\* will receive through its bootstrap; only nonempty mailboxes close a gate.
Covered(p) == Larger(acked[p], boot[p])
Recovered(p) == Elems(mailbox[p]) \cup
                (IF p \in members THEN {i \in log : i > Covered(p)} ELSE {})
HostRestart ==
    /\ Fault
    /\ mailbox' \in [Peers -> IdQueues]
    /\ \A p \in Peers : Elems(mailbox'[p]) = Recovered(p)
    /\ online' = [p \in Peers |-> <<>>]
    /\ gate' = [p \in Peers |-> mailbox'[p] # <<>>]
    /\ transport' = [p \in Peers |-> FALSE]
    /\ present' = [p \in Peers |-> FALSE]
    /\ hpc' = [p \in Peers |-> "none"]
    /\ batch' = [p \in Peers |-> <<>>]
    /\ offered' = [p \in Peers |-> 0]
    /\ prepared' = [p \in Peers |-> <<>>]
    /\ preparedBoot' = [p \in Peers |-> NoBoot]
    /\ toHost' = [p \in Peers |-> Quiet]
    /\ UNCHANGED <<members, denied, history, log, acked, boot, toMember, mpc, replica, lost>>

-----------------------------------------------------------------------------
(***************************************************************************)
(* Admission and the mailbox flush (serve_host, flush_to_peer, join_host,  *)
(* receive_flush)                                                          *)
(***************************************************************************)

\* Bug: an empty vault still sends a closing snapshot record.
Bug_SnapshotOfNothing(through) == <<through>>

\* add_member: the snapshot a fresh member receives covers every id so far.
\* Its records carry ids up to `through'; one of them stands for all.
Snapshot(through) == IF through = 0 THEN <<>> ELSE <<through>>

Connect(p) ==
    /\ mpc[p] = "none" /\ hpc[p] = "none"
    /\ p \notin denied
    /\ LET through == Len(history)
           queue   == IF p \in members THEN mailbox[p] ELSE Snapshot(through)
       IN  /\ mailbox' = [mailbox EXCEPT ![p] = queue]
           /\ boot' = [boot EXCEPT ![p] = IF p \in members THEN @ ELSE through]
           /\ gate' = [q \in Peers |-> gate[q] \/ mailbox[q] # <<>> \/ (q = p /\ p \notin members)]
           /\ offered' = [offered EXCEPT ![p] = Len(queue)]
    /\ members' = members \cup {p}
    /\ log' = IF p \in members THEN log ELSE Retain(log, members', acked)
    /\ transport' = [transport EXCEPT ![p] = TRUE]
    /\ hpc' = [hpc EXCEPT ![p] = "offered"]
    /\ mpc' = [mpc EXCEPT ![p] = "joining"]
    /\ toMember' = [toMember EXCEPT ![p] = Silence]
    /\ toHost' = [toHost EXCEPT ![p] = Quiet]
    /\ lost' = [lost EXCEPT ![p] = @ \cup Unread(p)]
    /\ UNCHANGED <<denied, history, acked, online, present, prepared, preparedBoot, batch,
                   replica, faults>>

\* prepare_flush after the member signed the challenge; the offer must still
\* describe the mailbox.
SendFlush(p) ==
    /\ prepared' = [prepared EXCEPT ![p] = mailbox[p]]
    /\ preparedBoot' = [preparedBoot EXCEPT ![p] = boot[p]]
    /\ toMember' = [toMember EXCEPT ![p] = Flush(mailbox[p], boot[p])]
    /\ hpc' = [hpc EXCEPT ![p] = "sent"]
    /\ UNCHANGED <<present, offered, batch, toHost, lost>>
PrepareFlush(p) ==
    /\ hpc[p] = "offered" /\ mpc[p] = "joining" /\ p \in members
    /\ gate' = [gate EXCEPT ![p] = TRUE]
    /\ \/ Len(mailbox[p]) = offered[p] /\ SendFlush(p)
       \/ Len(mailbox[p]) # offered[p] /\ TaskEnds(p) /\ UNCHANGED toMember
    /\ UNCHANGED <<published, transport, mpc, replica, faults>>

\* prepare_mailbox_for_session and commit_prepared.  A snapshot is installed
\* only over an empty replica; ids it covers and ids already applied are
\* skipped; the batch applies as a whole or not at all.
Installs(p)     == toMember[p].boot > rboot[p]
FlushBase(p)    == Larger(rboot[p], toMember[p].boot)
\* Bug: a redelivered record is not recognised.
Bug_FlushRepeats(p) == {i \in Elems(toMember[p].ids) : i > FlushBase(p)}
FlushNew(p)     == {i \in Elems(toMember[p].ids) : i > FlushBase(p) /\ i \notin applied[p]}
FlushAccepts(p) ==
    /\ Installs(p) => last[p] = 0
    /\ toMember[p].boot = NoBoot \/ Installs(p) \/ toMember[p].boot = rboot[p]
    /\ Accepts(FlushNew(p), applied[p], rmembers[p], rdenied[p])

MemberFlush(p) ==
    /\ mpc[p] = "joining" /\ toMember[p].kind = "flush"
    /\ FlushAccepts(p)
    /\ LET new == FlushNew(p)
       IN  /\ last' = [last EXCEPT ![p] = Highest(new, Larger(last[p], FlushBase(p)))]
           /\ applied' = [applied EXCEPT ![p] = @ \cup new]
           /\ rboot' = [rboot EXCEPT ![p] = FlushBase(p)]
           /\ rmembers' = [rmembers EXCEPT ![p] = MembersAfter(new, @)]
           /\ rdenied' = [rdenied EXCEPT ![p] = DeniedAfter(new, @)]
    /\ mpc' = [mpc EXCEPT ![p] = "flushed"]
    /\ toMember' = [toMember EXCEPT ![p] = Silence]
    /\ toHost' = [toHost EXCEPT ![p] = Says("flushed", 0)]
    /\ UNCHANGED <<published, gates, present, task, lost, faults>>

MemberRejectsFlush(p) ==
    /\ mpc[p] = "joining" /\ toMember[p].kind = "flush"
    /\ ~FlushAccepts(p)
    /\ LinkEnds(p, {})
    /\ UNCHANGED <<published, gates, present, task, toHost, replica, faults>>

\* Bug: a mailbox that grew during the flush is acknowledged and cleared.
Bug_AnyMailboxWillDo(p) == p \in members /\ boot[p] = preparedBoot[p]

\* acknowledge_flush: the mailbox must be the one that was prepared.  A kick
\* has removed the challenge.
FlushUnchanged(p) == /\ p \in members
                     /\ boot[p] = preparedBoot[p]
                     /\ mailbox[p] = prepared[p]
FlushedThrough(p) == Larger(boot[p], Highest(Elems(mailbox[p]), 0))
ClearMailbox(p) ==
    /\ acked' = [acked EXCEPT ![p] = Larger(@, FlushedThrough(p))]
    /\ log' = Retain(log, members, acked')
    /\ mailbox' = [mailbox EXCEPT ![p] = <<>>]
    /\ boot' = [boot EXCEPT ![p] = NoBoot]
    /\ gate' = [gate EXCEPT ![p] = FALSE]
    /\ hpc' = [hpc EXCEPT ![p] = "acknowledged"]
    /\ toHost' = [toHost EXCEPT ![p] = Quiet]
    /\ ForgetFlush(p)
    /\ UNCHANGED <<present, batch, lost>>
AcknowledgeFlush(p) ==
    /\ hpc[p] = "sent" /\ toHost[p].kind = "flushed"
    /\ \/ FlushUnchanged(p) /\ ClearMailbox(p)
       \/ ~FlushUnchanged(p) /\ TaskEnds(p) /\ UNCHANGED <<acked, log, mailbox, boot, gate>>
    /\ UNCHANGED <<members, denied, history, online, transport, toMember, mpc, replica, faults>>

\* Ready has been sent; the welcome is computed after that await.
SendWelcome(p) ==
    /\ hpc[p] = "acknowledged" /\ p \in members
    /\ toMember' = [toMember EXCEPT ![p] = Welcome]
    /\ hpc' = [hpc EXCEPT ![p] = "welcomed"]
    /\ UNCHANGED <<published, gates, present, offered, prepared, preparedBoot, batch, toHost,
                   mpc, replica, lost, faults>>

\* The welcome has been sent: TRANSPORT_GATE opens, presence starts, and
\* serve_live refuses a pair another commit has gated meanwhile.
GoLive(p) ==
    /\ hpc[p] = "welcomed" /\ p \in members
    /\ transport' = [transport EXCEPT ![p] = FALSE]
    /\ \/ /\ ~gate[p]
          /\ present' = [present EXCEPT ![p] = TRUE]
          /\ hpc' = [hpc EXCEPT ![p] = "live"]
          /\ UNCHANGED <<offered, prepared, preparedBoot, batch, toHost, lost>>
       \/ gate[p] /\ TaskEnds(p)
    /\ UNCHANGED <<published, gate, toMember, mpc, replica, faults>>

MemberWelcome(p) ==
    /\ mpc[p] = "flushed" /\ toMember[p].kind = "welcome"
    /\ \/ /\ Reconciles(p, rdenied[p], toMember[p])
          /\ rmembers' = [rmembers EXCEPT ![p] = toMember[p].members]
          /\ rdenied' = [rdenied EXCEPT ![p] = toMember[p].denied]
          /\ mpc' = [mpc EXCEPT ![p] = "idle"]
          /\ toMember' = [toMember EXCEPT ![p] = Silence]
          /\ UNCHANGED lost
       \/ /\ ~Reconciles(p, rdenied[p], toMember[p])
          /\ LinkEnds(p, {})
          /\ UNCHANGED <<rmembers, rdenied>>
    /\ UNCHANGED <<published, gates, present, task, toHost, last, applied, rboot, faults>>

-----------------------------------------------------------------------------
(***************************************************************************)
(* Live traffic (heartbeat_once, serve_live, send_member_state,            *)
(* apply_member_identities)                                                *)
(***************************************************************************)
\* Bug: the heartbeat does not carry the applied watermark.
Bug_BareHeartbeat(p) ==
    /\ mpc[p] = "idle"
    /\ toHost' = [toHost EXCEPT ![p] = Says("heartbeat", 0)]
    /\ mpc' = [mpc EXCEPT ![p] = "waiting"]
    /\ UNCHANGED <<published, gates, present, task, toMember, replica, lost, faults>>

MemberHeartbeat(p) ==
    /\ mpc[p] = "idle"
    /\ toHost' = [toHost EXCEPT ![p] = Says("heartbeat", last[p])]
    /\ mpc' = [mpc EXCEPT ![p] = "waiting"]
    /\ UNCHANGED <<published, gates, present, task, toMember, replica, lost, faults>>

\* mkdir, save_file, unlink or rename of a JoinedPeer.
MemberSubmit(p) ==
    /\ mpc[p] = "idle"
    /\ Len(history) < MaxControl
    /\ toHost' = [toHost EXCEPT ![p] = Says("submit", 0)]
    /\ mpc' = [mpc EXCEPT ![p] = "waiting"]
    /\ UNCHANGED <<published, gates, present, task, toMember, replica, lost, faults>>

\* Bug: a reply carries the membership only; the queue stays where it is.
Bug_QueueStays(p, queues) ==
    /\ online' = queues
    /\ toMember' = [toMember EXCEPT ![p] = Reply(<<>>)]
    /\ UNCHANGED <<hpc, batch>>

\* take_online_control and, when it returned nothing, the membership at once.
\* Otherwise the packets are sent first and the membership is read afterwards.
TakeOnline(p, queues) ==
    /\ online' = [queues EXCEPT ![p] = <<>>]
    /\ IF queues[p] = <<>>
       THEN /\ toMember' = [toMember EXCEPT ![p] = Reply(<<>>)]
            /\ UNCHANGED <<hpc, batch>>
       ELSE /\ batch' = [batch EXCEPT ![p] = queues[p]]
            /\ hpc' = [hpc EXCEPT ![p] = "sending"]
            /\ UNCHANGED toMember

\* serve_live on a HeartbeatApplied: acknowledge_applied, presence, reply.
HeartbeatValid(p) == LiveTraffic(p) /\ toHost[p].through <= Len(history)
AnswerHeartbeat(p) ==
    /\ acked' = [acked EXCEPT ![p] = Larger(@, toHost[p].through)]
    /\ log' = Retain(log, members, acked')
    /\ present' = [present EXCEPT ![p] = TRUE]
    /\ toHost' = [toHost EXCEPT ![p] = Quiet]
    /\ TakeOnline(p, online)
    /\ UNCHANGED <<offered, prepared, preparedBoot, lost>>
ServeHeartbeat(p) ==
    /\ hpc[p] = "live" /\ toHost[p].kind = "heartbeat" /\ p \in members
    /\ \/ HeartbeatValid(p) /\ AnswerHeartbeat(p)
       \/ ~HeartbeatValid(p) /\ TaskEnds(p) /\ UNCHANGED <<acked, log, online, toMember>>
    /\ UNCHANGED <<members, denied, history, boot, mailbox, gates, mpc, replica, faults>>

\* serve_live on a submission: commit on the author's behalf, then reply.  When
\* the author's presence ran out the record lands in its own mailbox and the
\* task ends at the closed gate.
AnswerSubmit(p) ==
    \/ /\ Live(p)
       /\ toHost' = [toHost EXCEPT ![p] = Quiet]
       /\ TakeOnline(p, OnlineAfter(Edit(p)))
       /\ UNCHANGED <<present, offered, prepared, preparedBoot, lost>>
    \/ /\ ~Live(p)
       /\ online' = OnlineAfter(Edit(p))
       /\ TaskEnds(p)
       /\ UNCHANGED toMember
ServeSubmit(p) ==
    /\ hpc[p] = "live" /\ toHost[p].kind = "submit" /\ p \in members
    /\ \/ LiveTraffic(p) /\ CommitBody(Edit(p)) /\ AnswerSubmit(p)
       \/ /\ ~LiveTraffic(p) \/ Len(history) >= MaxControl
          /\ TaskEnds(p)
          /\ UNCHANGED <<published, gates, toMember>>
    /\ UNCHANGED <<mpc, replica, faults>>

\* The packets are out; welcome() is read now and closes the reply.
SendReply(p) ==
    /\ hpc[p] = "sending" /\ p \in members
    /\ toMember' = [toMember EXCEPT ![p] = Reply(batch[p])]
    /\ batch' = [batch EXCEPT ![p] = <<>>]
    /\ hpc' = [hpc EXCEPT ![p] = "live"]
    /\ UNCHANGED <<published, gates, present, offered, prepared, preparedBoot, toHost, mpc,
                   replica, lost, faults>>

\* apply_member_identities: the buffered controls apply one durable write at a
\* time, then the membership is reconciled.
ReplyNew(p, k) == {i \in Elems(SubSeq(toMember[p].ids, 1, k)) : ~Known(p, i)}
ReplyRest(p, k) == Elems(toMember[p].ids) \ Elems(SubSeq(toMember[p].ids, 1, k))
AppliesPrefix(p, k) == Accepts(ReplyNew(p, k), applied[p], rmembers[p], rdenied[p])
ApplyPrefix(p, k) ==
    /\ last' = [last EXCEPT ![p] = Highest(ReplyNew(p, k), @)]
    /\ applied' = [applied EXCEPT ![p] = @ \cup ReplyNew(p, k)]

ReplyAccepts(p) ==
    LET k == Len(toMember[p].ids)
    IN  /\ AppliesPrefix(p, k)
        /\ Reconciles(p, DeniedAfter(ReplyNew(p, k), rdenied[p]), toMember[p])

MemberReply(p) ==
    /\ mpc[p] = "waiting" /\ toMember[p].kind = "reply"
    /\ ReplyAccepts(p)
    /\ ApplyPrefix(p, Len(toMember[p].ids))
    /\ rmembers' = [rmembers EXCEPT ![p] = toMember[p].members]
    /\ rdenied' = [rdenied EXCEPT ![p] = toMember[p].denied]
    /\ mpc' = [mpc EXCEPT ![p] = "idle"]
    /\ toMember' = [toMember EXCEPT ![p] = Silence]
    /\ UNCHANGED <<published, gates, present, task, toHost, rboot, lost, faults>>

\* A record or the membership is rejected, or (a fault) the process stops
\* between two records; what applied stays.
MemberReplyStops(p) ==
    /\ mpc[p] = "waiting" /\ toMember[p].kind = "reply"
    /\ \E k \in 0 .. Len(toMember[p].ids) :
          /\ AppliesPrefix(p, k)
          /\ \/ /\ k < Len(toMember[p].ids) /\ ~AppliesPrefix(p, k + 1)
                /\ UNCHANGED faults
             \/ /\ k = Len(toMember[p].ids) /\ ~ReplyAccepts(p)
                /\ UNCHANGED faults
             \/ k > 0 /\ Fault
          /\ ApplyPrefix(p, k)
          /\ rmembers' = [rmembers EXCEPT ![p] = MembersAfter(ReplyNew(p, k), @)]
          /\ rdenied' = [rdenied EXCEPT ![p] = DeniedAfter(ReplyNew(p, k), @)]
          /\ LinkEnds(p, ReplyRest(p, k))
    /\ UNCHANGED <<published, gates, present, task, toHost, rboot>>

-----------------------------------------------------------------------------
Init ==
    /\ members = {} /\ denied = {}
    /\ history = <<>> /\ log = {}
    /\ acked = [p \in Peers |-> 0]
    /\ boot = [p \in Peers |-> NoBoot]
    /\ mailbox = [p \in Peers |-> <<>>]
    /\ online = [p \in Peers |-> <<>>]
    /\ gate = [p \in Peers |-> FALSE]
    /\ transport = [p \in Peers |-> FALSE]
    /\ present = [p \in Peers |-> FALSE]
    /\ hpc = [p \in Peers |-> "none"]
    /\ offered = [p \in Peers |-> 0]
    /\ prepared = [p \in Peers |-> <<>>]
    /\ preparedBoot = [p \in Peers |-> NoBoot]
    /\ batch = [p \in Peers |-> <<>>]
    /\ toMember = [p \in Peers |-> Silence]
    /\ toHost = [p \in Peers |-> Quiet]
    /\ mpc = [p \in Peers |-> "none"]
    /\ last = [p \in Peers |-> 0]
    /\ applied = [p \in Peers |-> {}]
    /\ rboot = [p \in Peers |-> 0]
    /\ rmembers = [p \in Peers |-> {p}]
    /\ rdenied = [p \in Peers |-> {}]
    /\ lost = [p \in Peers |-> {}]
    /\ faults = 0

\* What one peer's connection does when nothing goes wrong.
Progress(p) ==
    \/ Connect(p) \/ PrepareFlush(p) \/ MemberFlush(p) \/ MemberRejectsFlush(p)
    \/ AcknowledgeFlush(p) \/ SendWelcome(p) \/ GoLive(p) \/ MemberWelcome(p)
    \/ MemberHeartbeat(p) \/ ServeHeartbeat(p) \/ ServeSubmit(p) \/ SendReply(p)
    \/ MemberReply(p) \/ MemberReplyStops(p)
    \/ HostNotices(p) \/ MemberNotices(p)

Next ==
    \/ \E u \in Updates : Commit(u)
    \/ CommitFails
    \/ HostRestart
    \/ \E p \in Peers : \/ Progress(p)
                        \/ MemberSubmit(p)
                        \/ HostDrop(p) \/ MemberDrop(p) \/ PresenceExpires(p)

Spec == Init /\ [][Next]_vars

-----------------------------------------------------------------------------
(***************************************************************************)
(* Safety                                                                  *)
(***************************************************************************)

\* Every variable keeps its shape; members and denied identities are peers.
TypeOK ==
    /\ members \subseteq Peers /\ denied \subseteq Peers
    /\ history \in Seq(Updates)
    /\ log \subseteq Ids
    /\ acked \in [Peers -> Nat]
    /\ boot \in [Peers -> Nat \cup {NoBoot}]
    /\ mailbox \in [Peers -> Seq(Ids)] /\ online \in [Peers -> Seq(Ids)]
    /\ gate \in [Peers -> BOOLEAN] /\ transport \in [Peers -> BOOLEAN]
    /\ present \in [Peers -> BOOLEAN]
    /\ hpc \in [Peers -> HostPhases]
    /\ offered \in [Peers -> Nat]
    /\ prepared \in [Peers -> Seq(Ids)] /\ batch \in [Peers -> Seq(Ids)]
    /\ preparedBoot \in [Peers -> Nat \cup {NoBoot}]
    /\ toMember \in [Peers -> Downlink] /\ toHost \in [Peers -> Uplink]
    /\ mpc \in [Peers -> MemberPhases]
    /\ last \in [Peers -> Nat] /\ rboot \in [Peers -> Nat]
    /\ applied \in [Peers -> SUBSET Ids]
    /\ rmembers \in [Peers -> SUBSET Peers] /\ rdenied \in [Peers -> SUBSET Peers]
    /\ lost \in [Peers -> SUBSET Ids]
    /\ faults \in Nat

\* An acknowledgement H recorded for a member (acknowledge_flush or
\* acknowledge_applied) never runs ahead of what that replica durably applied.
AckSound == \A p \in members : acked[p] <= last[p]

\* publish_state never truncates a record some member still needs: every id a
\* member has neither acknowledged nor will get from its bootstrap snapshot is
\* still in H's log, so a restart can rebuild the member's mailbox.
LogCoversUnacked ==
    \A p \in members : \A i \in 1 .. Len(history) : i > Covered(p) => i \in log

\* Where instruction i is on its way to p: queued, handed out, or in flight.
Pending(p) == Elems(mailbox[p]) \cup Elems(online[p]) \cup Elems(batch[p])
              \cup Elems(toMember[p].ids)

\* Commits, migration to the mailbox, flushes, acknowledgements and restarts
\* together never drop an instruction: each one a member lacks is covered by
\* its snapshot, still pending, or was handed out by take_online_control on a
\* connection that ended.
NothingSilentlyDropped ==
    \A p \in members : \A i \in 1 .. Len(history) :
        Known(p, i) \/ i <= boot[p] \/ i \in Pending(p) \/ i \in lost[p]

\* A replica's instruction history has a hole only where a handed-out packet
\* was lost; mailbox and online deliveries never overtake each other.
GapsOnlyFromLostHandout ==
    \A p \in Peers : \A i \in 1 .. last[p] : Known(p, i) \/ i \in lost[p]

\* A queue never holds an instruction H already counts as acknowledged, and the
\* mailbox, the online queue and the packets in flight keep commit order.
InOrder(s) == \A i, j \in 1 .. Len(s) : i < j => s[i] < s[j]
QueuesInOrder ==
    \A p \in members :
        /\ InOrder(mailbox[p] \o online[p])
        /\ InOrder(batch[p] \o online[p])
        /\ \A i \in Elems(online[p]) \cup Elems(batch[p]) : acked[p] < i

\* Live traffic stays blocked while a mailbox waits (refresh, commit, restart
\* and failed commits included), so nothing overtakes a queued instruction.
MailboxGated == \A p \in Peers : mailbox[p] # <<>> => gate[p]

\* A kicked peer keeps no queue, presence or acknowledgement at H, whatever its
\* connection task was doing when the kick committed.
KickedKeepsNothing ==
    /\ members \cap denied = {}
    /\ \A p \in denied : /\ mailbox[p] = <<>> /\ online[p] = <<>>
                         /\ acked[p] = 0 /\ boot[p] = NoBoot
                         /\ ~present[p]

\* A replica denies only identities H denied, never itself, and never holds a
\* denied identity as a member, although authors, kicks and welcomes all write
\* its member set.
ReplicaDenialsSound ==
    \A p \in Peers : /\ rdenied[p] \subseteq denied
                     /\ rmembers[p] \cap rdenied[p] = {}
                     /\ p \notin rdenied[p]

\* A flush H sends is applied unless the member lost a handed-out packet before
\* (checked where nobody is kicked).
FlushApplies ==
    \A p \in Peers : toMember[p].kind = "flush" /\ mpc[p] = "joining" /\ lost[p] = {}
        => FlushAccepts(p)

(***************************************************************************)
(* What a step may never do                                                *)
(***************************************************************************)

\* Across reconnects, redelivery and restarts of either end a replica never
\* steps back: new instructions apply above its watermark only, and neither an
\* applied instruction nor a denial is ever undone.
ReplicaOnlyAdvances ==
    [][\A p \in Peers : /\ last[p] <= last'[p]
                        /\ applied[p] \subseteq applied'[p]
                        /\ \A i \in applied'[p] \ applied[p] : i > last[p]
                        /\ rdenied[p] \subseteq rdenied'[p]]_vars

\* A truncated record was acknowledged by every remaining member.
TruncatesAcknowledged ==
    [][\A i \in log \ log' : \A p \in members' : acked'[p] >= i]_vars

(***************************************************************************)
(* What the repository says of the program                                 *)
(***************************************************************************)

\* "A returned online packet is not an acknowledgment.  Keep every unacked
\* instruction recoverable even after take_online_control hands it out": an
\* instruction a member has not applied is covered by its snapshot, on its way,
\* or still in the log a restart rebuilds mailboxes from.
HandedOutRecoverable ==
    \A p \in members : \A i \in 1 .. Len(history) :
        Known(p, i) \/ i <= boot[p] \/ i \in Pending(p) \/ i \in log

\* "Offline recipients apply [Kick] behind the flush gate": a member that lost
\* nothing can apply a flush that carries a kick.
KickAppliesBehindGate ==
    \A p \in Peers :
        /\ toMember[p].kind = "flush" /\ mpc[p] = "joining" /\ lost[p] = {}
        /\ Kicked(FlushNew(p)) # {}
        => FlushAccepts(p)

-----------------------------------------------------------------------------
(***************************************************************************)
(* Refinement                                                              *)
(***************************************************************************)
Log == INSTANCE InstructionLog WITH size <- Len(history), mark <- last, ack <- acked

\* Through flushes, heartbeats, lost connections and restarts, H's log behaves
\* like the abstract instruction log; a restart is invisible to it.
ImplementsLog == Log!Spec

-----------------------------------------------------------------------------
(***************************************************************************)
(* Liveness.  A started read, write or timer of the daemon or the member   *)
(* completes; the member reconnects after every disconnect (run_member).   *)
(***************************************************************************)
Fairness ==
    \A p \in Peers :
        /\ WF_vars(Connect(p)) /\ WF_vars(PrepareFlush(p))
        /\ WF_vars(MemberFlush(p)) /\ WF_vars(MemberRejectsFlush(p))
        /\ WF_vars(AcknowledgeFlush(p)) /\ WF_vars(SendWelcome(p))
        /\ WF_vars(GoLive(p)) /\ WF_vars(MemberWelcome(p))
        /\ WF_vars(MemberHeartbeat(p)) /\ WF_vars(ServeHeartbeat(p))
        /\ WF_vars(ServeSubmit(p)) /\ WF_vars(SendReply(p))
        /\ WF_vars(MemberReply(p)) /\ WF_vars(MemberReplyStops(p))
        /\ WF_vars(HostNotices(p)) /\ WF_vars(MemberNotices(p))

FairSpec == Spec /\ Fairness

\* Once commits and faults cease, every member that lost no handed-out packet
\* holds every instruction.
CatchUp == \A p \in Peers : []<>(last[p] = Len(history) \/ lost[p] # {})

\* and H's log drains: acknowledgements arrive and unpin it.
LogDrains == []<>(log = {} \/ \E p \in Peers : lost[p] # {})
=============================================================================
