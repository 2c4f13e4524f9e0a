------------------------- MODULE HostDeliveryProofs -------------------------
(***************************************************************************)
(* Theorems about HostDelivery, for every set of peers and every bound.    *)
(***************************************************************************)
EXTENDS HostDelivery, WellFoundedInduction, TLAPS

-----------------------------------------------------------------------------
(***************************************************************************)
(* The operators the model is built from                                   *)
(***************************************************************************)

\* The elements of a queue of ids are ids.
LEMMA ElemsType ==
    ASSUME NEW S, NEW s \in Seq(S)
    PROVE  Elems(s) \subseteq S
BY SMTT(40) DEF Elems

\* Queueing behind a migrated queue adds exactly the new record.
LEMMA ElemsConcat ==
    ASSUME NEW s \in Seq(Ids), NEW t \in Seq(Ids), NEW n \in Ids
    PROVE  /\ Append(s, n) \in Seq(Ids) /\ Elems(Append(s, n)) = Elems(s) \cup {n}
           /\ s \o t \in Seq(Ids) /\ Elems(s \o t) = Elems(s) \cup Elems(t)
<1>1. s \o t \in Seq(Ids) /\ Append(s, n) \in Seq(Ids)
  OBVIOUS
<1>2. Elems(Append(s, n)) = Elems(s) \cup {n}
  <2>1. \A i \in 1 .. Len(s) : Append(s, n)[i] = s[i]
    OBVIOUS
  <2>2. Append(s, n)[Len(s) + 1] = n /\ Len(Append(s, n)) = Len(s) + 1 /\ Len(s) \in Nat
    OBVIOUS
  <2>3. 1 .. Len(Append(s, n)) = (1 .. Len(s)) \cup {Len(s) + 1}
    BY <2>2
  <2>q. QED BY <2>1, <2>2, <2>3 DEF Elems
<1>3. Elems(s \o t) = Elems(s) \cup Elems(t)
  <2>0. /\ Len(s) \in Nat /\ Len(t) \in Nat /\ Len(s \o t) = Len(s) + Len(t)
        /\ \A i \in 1 .. Len(s) : (s \o t)[i] = s[i]
        /\ \A i \in 1 .. Len(t) : (s \o t)[Len(s) + i] = t[i]
    OBVIOUS
  <2>1. ASSUME NEW x \in Elems(s \o t) PROVE x \in Elems(s) \cup Elems(t)
    <3>1. PICK k \in 1 .. Len(s \o t) : x = (s \o t)[k] BY Zenon DEF Elems
    <3>2. CASE k <= Len(s) BY <3>1, <3>2, <2>0 DEF Elems
    <3>3. CASE k > Len(s)
      <4>1. k - Len(s) \in 1 .. Len(t) /\ k = Len(s) + (k - Len(s)) BY <3>1, <3>3, <2>0
      <4>q. QED BY <3>1, <4>1, <2>0, Zenon DEF Elems
    <3>q. QED BY <3>1, <3>2, <3>3, <2>0
  <2>2. ASSUME NEW x \in Elems(s) PROVE x \in Elems(s \o t)
    BY <2>0 DEF Elems
  <2>3. ASSUME NEW x \in Elems(t) PROVE x \in Elems(s \o t)
    <3>1. PICK k \in 1 .. Len(t) : x = t[k] BY Zenon DEF Elems
    <3>2. Len(s) + k \in 1 .. Len(s \o t) BY <2>0
    <3>q. QED BY <3>1, <3>2, <2>0, Zenon DEF Elems
  <2>q. QED BY <2>1, <2>2, <2>3, Zenon
<1>q. QED BY <1>1, <1>2, <1>3, Zenon

\* A prefix of a reply is a queue and carries no id the reply does not carry.
LEMMA ElemsPrefix ==
    ASSUME NEW s \in Seq(Ids), NEW k \in 0 .. Len(s)
    PROVE  SubSeq(s, 1, k) \in Seq(Ids) /\ Elems(SubSeq(s, 1, k)) \subseteq Elems(s)
<1>1. /\ SubSeq(s, 1, k) \in Seq(Ids) /\ Len(SubSeq(s, 1, k)) = k
      /\ \A i \in 1 .. k : SubSeq(s, 1, k)[i] = s[i]
  OBVIOUS
<1>q. QED BY <1>1 DEF Elems

\* A bounded set of ids that is not empty has a largest element.
LEMMA MaximumExists ==
    ASSUME NEW S, S \subseteq Nat, S # {}, NEW b \in Nat, \A i \in S : i <= b
    PROVE  \E i \in S : \A j \in S : j <= i
<1> DEFINE T == {n \in Nat : \A i \in S : i <= n}
<1>1. T \subseteq Nat /\ T # {}
  BY Zenon
<1>2. PICK x \in T : \A y \in T : ~ (<<y, x>> \in OpToRel(<, Nat))
  <2> HIDE DEF T
  <2>q. QED BY <1>1, WFMin, NatLessThanWellFounded, Zenon
<1>3. \A y \in T : x <= y
  <2>1. \A y, z \in Nat : y < z => <<y, z>> \in OpToRel(<, Nat)
    BY Zenon DEF OpToRel
  <2>2. ASSUME NEW y \in T PROVE ~ (y < x)
    BY <1>1, <1>2, <2>1, Zenon
  <2>q. QED BY <1>1, <2>2
<1>4. x \in S
  <2>1. SUFFICES ASSUME x \notin S PROVE FALSE
    BY Zenon
  <2>2. PICK i \in S : TRUE
    BY Zenon
  <2>3. x - 1 \in T
    BY <2>1, <2>2
  <2>q. QED BY <2>3, <1>3
<1>q. QED BY <1>4, Zenon

\* Highest returns a member of a bounded set that bounds it, or the default.
LEMMA HighestProperties ==
    ASSUME NEW S, S \subseteq Nat, NEW d \in Nat
    PROVE  /\ Highest(S, d) \in Nat
           /\ Highest(S, d) \in S \cup {d}
           /\ S = {} => Highest(S, d) = d
           /\ \A b \in Nat : S # {} /\ (\A i \in S : i <= b) =>
                 Highest(S, d) \in S /\ \A i \in S : i <= Highest(S, d)
<1>1. CASE \E i \in S : \A j \in S : j <= i
  BY <1>1, Zenon DEF Highest
<1>2. CASE ~ \E i \in S : \A j \in S : j <= i
  <2>1. \A b \in Nat : S # {} => ~ \A i \in S : i <= b
    BY <1>2, MaximumExists, Zenon
  <2>q. QED BY <1>2, <2>1, Zenon DEF Highest
<1>q. QED BY <1>1, <1>2, Zenon

\* What is put on the connection is a message.
LEMMA MessageTypes ==
    ASSUME members \subseteq Peers, denied \subseteq Peers
    PROVE  /\ Silence \in Downlink /\ Welcome \in Downlink /\ Quiet \in Uplink
           /\ \A ids \in Seq(Ids) : Reply(ids) \in Downlink
           /\ \A ids \in Seq(Ids), b \in Nat \cup {NoBoot} : Flush(ids, b) \in Downlink
           /\ \A k \in {"flushed", "heartbeat", "submit"}, n \in Nat : Says(k, n) \in Uplink
<1>1. << >> \in Seq(Ids)
  OBVIOUS
<1>q. QED BY <1>1, Zenon DEF Silence, Welcome, Quiet, Reply, Flush, Says, Downlink, Uplink, NoBoot

\* What a message on the connection carries.
LEMMA MessageFields ==
    ASSUME TypeOK, NEW p \in Peers
    PROVE  /\ toMember[p].ids \in Seq(Ids)
           /\ toMember[p].boot \in Nat \cup {NoBoot}
           /\ toMember[p].members \subseteq Peers /\ toMember[p].denied \subseteq Peers
           /\ toHost[p].through \in Nat
BY Zenon DEF TypeOK, Downlink, Uplink

\* The numbers H and a replica keep for a peer.
LEMMA PeerNumbers ==
    ASSUME TypeOK, NEW p \in Peers
    PROVE  /\ acked[p] \in Nat /\ boot[p] \in Int /\ preparedBoot[p] \in Int
           /\ last[p] \in Nat /\ rboot[p] \in Nat /\ applied[p] \subseteq Nat
           /\ Len(history) \in Nat
BY SMTT(40) DEF TypeOK, NoBoot, Ids

-----------------------------------------------------------------------------
(***************************************************************************)
(* Types                                                                   *)
(***************************************************************************)

LEMMA TypeInit == Init => TypeOK
BY MessageTypes DEF Init, TypeOK, NoBoot, HostPhases, MemberPhases, Ids

\* The part of a commit that ServeSubmit shares with Commit.
LEMMA TypeCommitBody ==
    ASSUME TypeOK, NEW u \in Updates, Target(u) \subseteq Peers, CommitBody(u)
    PROVE  /\ members' \subseteq Peers /\ denied' \subseteq Peers
           /\ history' \in Seq(Updates) /\ log' \subseteq Ids
           /\ acked' \in [Peers -> Nat] /\ boot' \in [Peers -> Nat \cup {NoBoot}]
           /\ mailbox' \in [Peers -> Seq(Ids)] /\ OnlineAfter(u) \in [Peers -> Seq(Ids)]
           /\ gate' \in [Peers -> BOOLEAN] /\ transport' \in [Peers -> BOOLEAN]
<1>1. NextControl \in Ids
  BY DEF NextControl, Ids, TypeOK
<1>2. members' \subseteq Peers /\ denied' \subseteq Peers /\ history' \in Seq(Updates)
  BY DEF TypeOK, CommitBody
<1>3. log' \subseteq Ids
  BY <1>1, Zenon DEF TypeOK, CommitBody, Retain
<1>4. acked' \in [Peers -> Nat] /\ boot' \in [Peers -> Nat \cup {NoBoot}]
  BY Zenon DEF TypeOK, CommitBody, AckedAfter
<1>5. mailbox' \in [Peers -> Seq(Ids)]
  <2>1. ASSUME NEW p \in Peers PROVE MailboxAfter(u)[p] \in Seq(Ids)
    <3>1. mailbox[p] \in Seq(Ids) /\ online[p] \in Seq(Ids) BY Zenon DEF TypeOK
    <3>2. Append(mailbox[p] \o online[p], NextControl) \in Seq(Ids)
      BY <1>1, <3>1, ElemsConcat, Zenon
    <3>q. QED BY <3>1, <3>2 DEF MailboxAfter
  <2>q. QED BY <2>1, Zenon DEF CommitBody, MailboxAfter
<1>6. OnlineAfter(u) \in [Peers -> Seq(Ids)]
  <2>1. ASSUME NEW p \in Peers PROVE OnlineAfter(u)[p] \in Seq(Ids)
    <3>1. online[p] \in Seq(Ids) BY Zenon DEF TypeOK
    <3>2. Append(online[p], NextControl) \in Seq(Ids)
      BY <1>1, <3>1, ElemsConcat, Zenon
    <3>q. QED BY <3>1, <3>2 DEF OnlineAfter
  <2>q. QED BY <2>1, Zenon DEF OnlineAfter
<1>7. gate' \in [Peers -> BOOLEAN] /\ transport' \in [Peers -> BOOLEAN]
  BY Zenon DEF TypeOK, CommitBody, GateAfter
<1>q. QED BY <1>2, <1>3, <1>4, <1>5, <1>6, <1>7, Zenon

\* A task that ends leaves its variables well typed.
LEMMA TypeTaskEnds ==
    ASSUME TypeOK, NEW p \in Peers, TaskEnds(p)
    PROVE  /\ hpc' \in [Peers -> HostPhases] /\ present' \in [Peers -> BOOLEAN]
           /\ batch' \in [Peers -> Seq(Ids)] /\ toHost' \in [Peers -> Uplink]
           /\ lost' \in [Peers -> SUBSET Ids] /\ offered' \in [Peers -> Nat]
           /\ prepared' \in [Peers -> Seq(Ids)]
           /\ preparedBoot' \in [Peers -> Nat \cup {NoBoot}]
<1>1. Elems(batch[p]) \subseteq Ids /\ Quiet \in Uplink /\ members \subseteq Peers
  BY ElemsType, MessageTypes, Zenon DEF TypeOK
<1>q. QED BY <1>1, SMTT(40) DEF TypeOK, TaskEnds, ForgetFlush, HostPhases

\* So does a connection that ends.
LEMMA TypeLinkEnds ==
    ASSUME TypeOK, NEW p \in Peers, NEW ids, ids \subseteq Ids, LinkEnds(p, ids)
    PROVE  /\ mpc' \in [Peers -> MemberPhases] /\ toMember' \in [Peers -> Downlink]
           /\ lost' \in [Peers -> SUBSET Ids]
<1>1. Silence \in Downlink
  BY MessageTypes, Zenon DEF TypeOK
<1>q. QED BY <1>1, Zenon DEF TypeOK, LinkEnds, MemberPhases

LEMMA UnreadType ==
    ASSUME TypeOK, NEW p \in Peers
    PROVE  Unread(p) \subseteq Ids
BY MessageFields, ElemsType, Zenon DEF Unread

\* What serving a request does to the connection.
LEMMA TypeTakeOnline ==
    ASSUME TypeOK, NEW p \in Peers, NEW queues \in [Peers -> Seq(Ids)], TakeOnline(p, queues)
    PROVE  /\ online' \in [Peers -> Seq(Ids)] /\ toMember' \in [Peers -> Downlink]
           /\ hpc' \in [Peers -> HostPhases] /\ batch' \in [Peers -> Seq(Ids)]
<1>0. << >> \in Seq(Ids)
  OBVIOUS
<1>1. Reply(<< >>) \in Downlink
  BY <1>0, MessageTypes, Zenon DEF TypeOK
<1>2. online' \in [Peers -> Seq(Ids)]
  BY <1>0, Zenon DEF TakeOnline
<1>3. CASE queues[p] = << >>
  BY <1>1, <1>2, <1>3, Zenon DEF TypeOK, TakeOnline
<1>4. CASE queues[p] # << >>
  BY <1>2, <1>4, ZenonT(40) DEF TypeOK, TakeOnline, HostPhases
<1>q. QED BY <1>3, <1>4, Zenon

\* A replica applies ids to well-typed variables.
LEMMA TypeApply ==
    ASSUME TypeOK, NEW p \in Peers, NEW S, S \subseteq Ids, NEW d \in Nat
    PROVE  /\ [last EXCEPT ![p] = Highest(S, d)] \in [Peers -> Nat]
           /\ [applied EXCEPT ![p] = @ \cup S] \in [Peers -> SUBSET Ids]
           /\ [rmembers EXCEPT ![p] = MembersAfter(S, @)] \in [Peers -> SUBSET Peers]
           /\ [rdenied EXCEPT ![p] = DeniedAfter(S, @)] \in [Peers -> SUBSET Peers]
<1>1. Highest(S, d) \in Nat
  <2>1. S \subseteq Nat BY Zenon DEF Ids
  <2>q. QED BY <2>1, HighestProperties, Zenon
<1>2. MembersAfter(S, rmembers[p]) \subseteq Peers /\ DeniedAfter(S, rdenied[p]) \subseteq Peers
  BY Zenon DEF TypeOK, MembersAfter, DeniedAfter, Authors, Kicked
<1>q. QED BY <1>1, <1>2, Zenon DEF TypeOK

\* Every step keeps the types.
LEMMA TypeStep == TypeOK /\ [Next]_vars => TypeOK'
<1> SUFFICES ASSUME TypeOK, [Next]_vars PROVE TypeOK'
  BY Zenon
<1>e. << >> \in Seq(Ids) /\ Silence \in Downlink /\ Quiet \in Uplink /\ NoBoot \in Nat \cup {NoBoot}
  BY MessageTypes DEF TypeOK
<1>1. ASSUME NEW u \in Updates, Commit(u) PROVE TypeOK'
  <2>1. Target(u) \subseteq Peers /\ CommitBody(u)
    BY <1>1 DEF Commit, Target, Edit, Kick, TypeOK
  <2>2. online' \in [Peers -> Seq(Ids)]
    BY <1>1, <2>1, TypeCommitBody, Zenon DEF Commit
  <2>3. present' \in [Peers -> BOOLEAN]
    BY <1>1, Zenon DEF Commit, TypeOK
  <2>4. UNCHANGED <<task, wire, mpc, replica, lost, faults>>
    BY <1>1, Zenon DEF Commit
  <2>q. QED BY <2>1, <2>2, <2>3, <2>4, TypeCommitBody, Zenon DEF TypeOK, task, wire, replica
<1>2. CASE CommitFails
  BY <1>2, SMTT(40) DEF CommitFails, Fault, TypeOK, published, task, wire, replica
<1>3. CASE HostRestart
  <2>1. mailbox' \in [Peers -> Seq(Ids)]
    <3>1. IdQueues \subseteq Seq(Ids)
      BY BoundsAssumption DEF IdQueues, Ids
    <3>q. QED BY <1>3, <3>1, Zenon DEF HostRestart
  <2>2. gate' \in [Peers -> BOOLEAN]
    BY <1>3, Zenon DEF HostRestart
  <2>3. faults' \in Nat
    BY <1>3, SMTT(40) DEF HostRestart, Fault, TypeOK
  <2>4. hpc' \in [Peers -> HostPhases]
    BY <1>3, Zenon DEF HostRestart, HostPhases
  <2>q. QED BY <1>3, <1>e, <2>1, <2>2, <2>3, <2>4, Zenon DEF HostRestart, TypeOK, replica
<1>4. ASSUME NEW p \in Peers, HostDrop(p) \/ HostNotices(p) PROVE TypeOK'
  <2>1. TaskEnds(p) /\ faults' \in Nat
    BY <1>4, SMTT(40) DEF HostDrop, HostNotices, Fault, TypeOK
  <2>2. UNCHANGED <<published, gates, toMember, mpc, replica>>
    BY <1>4, Zenon DEF HostDrop, HostNotices
  <2>q. QED BY <2>1, <2>2, TypeTaskEnds, Zenon DEF TypeOK, published, gates, replica
<1>5. ASSUME NEW p \in Peers, MemberDrop(p) \/ MemberNotices(p) PROVE TypeOK'
  <2>1. LinkEnds(p, Unread(p)) /\ faults' \in Nat
    BY <1>5, SMTT(40) DEF MemberDrop, MemberNotices, Fault, TypeOK
  <2>2. UNCHANGED <<published, gates, present, task, toHost, replica>>
    BY <1>5, Zenon DEF MemberDrop, MemberNotices
  <2>q. QED BY <2>1, <2>2, UnreadType, TypeLinkEnds, Zenon
            DEF TypeOK, published, gates, task, replica
<1>6. ASSUME NEW p \in Peers, PresenceExpires(p) PROVE TypeOK'
  BY <1>6, SMTT(40) DEF PresenceExpires, Fault, TypeOK, published, gates, task, wire, replica
<1>7. ASSUME NEW p \in Peers, Connect(p) PROVE TypeOK'
  <2>1. Len(history) \in Nat
    BY DEF TypeOK
  <2>2. Snapshot(Len(history)) \in Seq(Ids)
    <3>1. \A n \in Ids : <<n>> \in Seq(Ids)
      OBVIOUS
    <3>q. QED BY <2>1, <3>1, <1>e, Zenon DEF Snapshot, Ids
  <2>3. mailbox' \in [Peers -> Seq(Ids)] /\ boot' \in [Peers -> Nat \cup {NoBoot}]
    BY <1>7, <2>1, <2>2, Zenon DEF Connect, TypeOK
  <2>4. gate' \in [Peers -> BOOLEAN] /\ transport' \in [Peers -> BOOLEAN]
    BY <1>7, Zenon DEF Connect, TypeOK
  <2>5. offered' \in [Peers -> Nat]
    BY <1>7, <2>2, SMTT(40) DEF Connect, TypeOK
  <2>6. members' \subseteq Peers /\ log' \subseteq Ids
    BY <1>7, Zenon DEF Connect, Retain, TypeOK
  <2>7. lost' \in [Peers -> SUBSET Ids]
    BY <1>7, UnreadType, Zenon DEF Connect, TypeOK
  <2>8. hpc' \in [Peers -> HostPhases] /\ mpc' \in [Peers -> MemberPhases]
    BY <1>7, Zenon DEF Connect, TypeOK, HostPhases, MemberPhases
  <2>9. toMember' \in [Peers -> Downlink] /\ toHost' \in [Peers -> Uplink]
    BY <1>7, <1>e, Zenon DEF Connect, TypeOK
  <2>10. UNCHANGED <<denied, history, acked, online, present, prepared, preparedBoot, batch,
                     replica, faults>>
    BY <1>7, Zenon DEF Connect
  <2>q. QED BY <2>3, <2>4, <2>5, <2>6, <2>7, <2>8, <2>9, <2>10, Zenon DEF TypeOK, replica
<1>8. ASSUME NEW p \in Peers, PrepareFlush(p) PROVE TypeOK'
  <2>1. gate' \in [Peers -> BOOLEAN] /\ UNCHANGED <<published, transport, mpc, replica, faults>>
    BY <1>8, Zenon DEF PrepareFlush, TypeOK
  <2>2. CASE Len(mailbox[p]) # offered[p]
    <3>1. TaskEnds(p) /\ UNCHANGED toMember
      BY <1>8, <2>2, Zenon DEF PrepareFlush
    <3>q. QED BY <2>1, <3>1, TypeTaskEnds, Zenon DEF TypeOK, published, replica
  <2>3. CASE Len(mailbox[p]) = offered[p]
    <3>1. Flush(mailbox[p], boot[p]) \in Downlink
      BY MessageTypes, Zenon DEF TypeOK
    <3>2. SendFlush(p)
      BY <1>8, <2>3, Zenon DEF PrepareFlush
    <3>q. QED BY <2>1, <3>1, <3>2, Zenon DEF SendFlush, TypeOK, HostPhases, published, replica
  <2>q. QED BY <2>2, <2>3, Zenon
<1>9. ASSUME NEW p \in Peers, MemberFlush(p) PROVE TypeOK'
  <2>1. FlushBase(p) \in Nat /\ Larger(last[p], FlushBase(p)) \in Nat
    <3>1. rboot[p] \in Nat /\ last[p] \in Nat /\ toMember[p].boot \in Int
      <4>1. toMember[p].boot \in Nat \cup {NoBoot}
        BY MessageFields, Zenon
      <4>q. QED BY <4>1, SMTT(40) DEF NoBoot, TypeOK
    <3>q. QED BY <3>1, SMTT(40) DEF FlushBase, Larger
  <2>2. FlushNew(p) \subseteq Ids
    BY MessageFields, ElemsType, Zenon DEF FlushNew
  <2>3. last' \in [Peers -> Nat] /\ applied' \in [Peers -> SUBSET Ids]
    BY <1>9, <2>1, <2>2, TypeApply, Zenon DEF MemberFlush
  <2>4. rmembers' \in [Peers -> SUBSET Peers] /\ rdenied' \in [Peers -> SUBSET Peers]
    BY <1>9, <2>1, <2>2, TypeApply, Zenon DEF MemberFlush
  <2>5. rboot' \in [Peers -> Nat]
    BY <1>9, <2>1, Zenon DEF MemberFlush, TypeOK
  <2>6. Says("flushed", 0) \in Uplink
    BY MessageTypes, Zenon DEF TypeOK
  <2>7. mpc' \in [Peers -> MemberPhases] /\ toMember' \in [Peers -> Downlink]
        /\ toHost' \in [Peers -> Uplink]
    BY <1>9, <1>e, <2>6, Zenon DEF MemberFlush, TypeOK, MemberPhases
  <2>8. UNCHANGED <<published, gates, present, task, lost, faults>>
    BY <1>9, Zenon DEF MemberFlush
  <2>q. QED BY <2>3, <2>4, <2>5, <2>7, <2>8, Zenon DEF TypeOK, published, gates, task
<1>10. ASSUME NEW p \in Peers, MemberRejectsFlush(p) PROVE TypeOK'
  BY <1>10, TypeLinkEnds, Zenon
  DEF MemberRejectsFlush, TypeOK, published, gates, task, replica
<1>11. ASSUME NEW p \in Peers, AcknowledgeFlush(p) PROVE TypeOK'
  <2>1. UNCHANGED <<members, denied, history, online, transport, toMember, mpc, replica, faults>>
    BY <1>11, Zenon DEF AcknowledgeFlush
  <2>2. CASE ~FlushUnchanged(p)
    <3>1. TaskEnds(p) /\ UNCHANGED <<acked, log, mailbox, boot, gate>>
      BY <1>11, <2>2, Zenon DEF AcknowledgeFlush
    <3>q. QED BY <2>1, <3>1, TypeTaskEnds, Zenon DEF TypeOK, replica
  <2>3. CASE FlushUnchanged(p)
    <3>1. Larger(acked[p], FlushedThrough(p)) \in Nat
      <4>1. Elems(mailbox[p]) \subseteq Nat
        BY ElemsType, Zenon DEF TypeOK, Ids
      <4>2. Highest(Elems(mailbox[p]), 0) \in Nat
        BY <4>1, HighestProperties, Zenon
      <4>q. QED BY <4>2, SMTT(40) DEF FlushedThrough, Larger, TypeOK, NoBoot
    <3>2. ClearMailbox(p)
      BY <1>11, <2>3, Zenon DEF AcknowledgeFlush
    <3>q. QED BY <1>e, <2>1, <3>1, <3>2, Zenon
              DEF ClearMailbox, ForgetFlush, Retain, TypeOK, HostPhases, replica
  <2>q. QED BY <2>2, <2>3, Zenon
<1>12. ASSUME NEW p \in Peers, SendWelcome(p) PROVE TypeOK'
  <2>1. Welcome \in Downlink
    BY MessageTypes, Zenon DEF TypeOK
  <2>q. QED BY <1>12, <2>1, Zenon
            DEF SendWelcome, TypeOK, HostPhases, published, gates, replica
<1>13. ASSUME NEW p \in Peers, GoLive(p) PROVE TypeOK'
  <2>1. transport' \in [Peers -> BOOLEAN] /\ UNCHANGED <<published, gate, toMember, mpc, replica, faults>>
    BY <1>13, Zenon DEF GoLive, TypeOK
  <2>2. CASE TaskEnds(p)
    BY <2>1, <2>2, TypeTaskEnds, Zenon DEF TypeOK, published, replica
  <2>3. CASE ~gate[p]
    <3>1. /\ present' = [present EXCEPT ![p] = TRUE] /\ hpc' = [hpc EXCEPT ![p] = "live"]
          /\ UNCHANGED <<offered, prepared, preparedBoot, batch, toHost, lost>>
      BY <1>13, <2>3, Zenon DEF GoLive
    <3>q. QED BY <2>1, <3>1, Zenon DEF TypeOK, HostPhases, published, replica
  <2>q. QED BY <1>13, <2>2, <2>3, Zenon DEF GoLive
<1>14. ASSUME NEW p \in Peers, MemberWelcome(p) PROVE TypeOK'
  <2>1. UNCHANGED <<published, gates, present, task, toHost, last, applied, rboot, faults>>
    BY <1>14, Zenon DEF MemberWelcome
  <2>2. CASE ~Reconciles(p, rdenied[p], toMember[p])
    <3>1. LinkEnds(p, {}) /\ UNCHANGED <<rmembers, rdenied>>
      BY <1>14, <2>2, Zenon DEF MemberWelcome
    <3>q. QED BY <2>1, <3>1, TypeLinkEnds, Zenon DEF TypeOK, published, gates, task
  <2>3. CASE Reconciles(p, rdenied[p], toMember[p])
    <3>1. toMember[p].members \subseteq Peers /\ toMember[p].denied \subseteq Peers
      BY MessageFields, Zenon
    <3>2. /\ rmembers' = [rmembers EXCEPT ![p] = toMember[p].members]
          /\ rdenied' = [rdenied EXCEPT ![p] = toMember[p].denied]
          /\ mpc' = [mpc EXCEPT ![p] = "idle"]
          /\ toMember' = [toMember EXCEPT ![p] = Silence]
          /\ UNCHANGED lost
      BY <1>14, <2>3, Zenon DEF MemberWelcome
    <3>q. QED BY <1>e, <2>1, <3>1, <3>2, Zenon
              DEF TypeOK, MemberPhases, published, gates, task
  <2>q. QED BY <2>2, <2>3, Zenon
<1>15. ASSUME NEW p \in Peers, MemberHeartbeat(p) \/ MemberSubmit(p) PROVE TypeOK'
  <2>1. Says("heartbeat", last[p]) \in Uplink /\ Says("submit", 0) \in Uplink
    BY MessageTypes, Zenon DEF TypeOK
  <2>2. toHost' \in [Peers -> Uplink]
    BY <1>15, <2>1, ZenonT(40) DEF MemberHeartbeat, MemberSubmit, TypeOK
  <2>3. mpc' \in [Peers -> MemberPhases]
    BY <1>15, Zenon DEF MemberHeartbeat, MemberSubmit, TypeOK, MemberPhases
  <2>4. UNCHANGED <<published, gates, present, task, toMember, replica, lost, faults>>
    BY <1>15, Zenon DEF MemberHeartbeat, MemberSubmit
  <2>q. QED BY <2>2, <2>3, <2>4, Zenon DEF TypeOK, published, gates, task, replica
<1>16. ASSUME NEW p \in Peers, ServeHeartbeat(p) PROVE TypeOK'
  <2>1. UNCHANGED <<members, denied, history, boot, mailbox, gates, mpc, replica, faults>>
    BY <1>16, Zenon DEF ServeHeartbeat
  <2>2. CASE ~HeartbeatValid(p)
    <3>1. TaskEnds(p) /\ UNCHANGED <<acked, log, online, toMember>>
      BY <1>16, <2>2, Zenon DEF ServeHeartbeat
    <3>q. QED BY <2>1, <3>1, TypeTaskEnds, Zenon DEF TypeOK, gates, replica
  <2>3. CASE HeartbeatValid(p)
    <3>1. AnswerHeartbeat(p)
      BY <1>16, <2>3, Zenon DEF ServeHeartbeat
    <3>2. /\ online' \in [Peers -> Seq(Ids)] /\ toMember' \in [Peers -> Downlink]
          /\ hpc' \in [Peers -> HostPhases] /\ batch' \in [Peers -> Seq(Ids)]
      <4>1. online \in [Peers -> Seq(Ids)] BY Zenon DEF TypeOK
      <4>q. QED BY <3>1, <4>1, TypeTakeOnline, Zenon DEF AnswerHeartbeat
    <3>3. Larger(acked[p], toHost[p].through) \in Nat
      BY MessageFields, Zenon DEF TypeOK, Larger
    <3>q. QED BY <1>e, <2>1, <3>1, <3>2, <3>3, Zenon
              DEF AnswerHeartbeat, Retain, TypeOK, gates, replica
  <2>q. QED BY <2>2, <2>3, Zenon
<1>17. ASSUME NEW p \in Peers, ServeSubmit(p) PROVE TypeOK'
  <2>1. UNCHANGED <<mpc, replica, faults>>
    BY <1>17, Zenon DEF ServeSubmit
  <2>2. CASE TaskEnds(p) /\ UNCHANGED <<published, gates, toMember>>
    BY <2>1, <2>2, TypeTaskEnds, Zenon DEF TypeOK, published, gates, replica
  <2>3. CASE CommitBody(Edit(p)) /\ AnswerSubmit(p)
    <3>1. Edit(p) \in Updates /\ Target(Edit(p)) \subseteq Peers
      BY Zenon DEF Edit, Updates, Target
    <3>2. CASE Live(p)
      <4>1. TakeOnline(p, OnlineAfter(Edit(p)))
        BY <2>3, <3>2, Zenon DEF AnswerSubmit
      <4>2. /\ online' \in [Peers -> Seq(Ids)] /\ toMember' \in [Peers -> Downlink]
            /\ hpc' \in [Peers -> HostPhases] /\ batch' \in [Peers -> Seq(Ids)]
        BY <2>3, <3>1, <4>1, TypeCommitBody, TypeTakeOnline, Zenon
      <4>3. /\ toHost' = [toHost EXCEPT ![p] = Quiet]
            /\ UNCHANGED <<present, offered, prepared, preparedBoot, lost>>
        BY <2>3, <3>2, Zenon DEF AnswerSubmit
      <4>q. QED BY <1>e, <2>1, <2>3, <3>1, <4>2, <4>3, TypeCommitBody, Zenon DEF TypeOK, replica
    <3>3. CASE ~Live(p)
      <4>1. TaskEnds(p) /\ online' = OnlineAfter(Edit(p)) /\ UNCHANGED toMember
        BY <2>3, <3>3, Zenon DEF AnswerSubmit
      <4>q. QED BY <2>1, <2>3, <3>1, <4>1, TypeCommitBody, TypeTaskEnds, Zenon DEF TypeOK, replica
    <3>q. QED BY <3>2, <3>3, Zenon
  <2>q. QED BY <1>17, <2>2, <2>3, Zenon DEF ServeSubmit
<1>18. ASSUME NEW p \in Peers, SendReply(p) PROVE TypeOK'
  <2>1. Reply(batch[p]) \in Downlink
    BY MessageTypes, Zenon DEF TypeOK
  <2>q. QED BY <1>18, <1>e, <2>1, Zenon
            DEF SendReply, TypeOK, HostPhases, published, gates, replica
<1>19. ASSUME NEW p \in Peers, MemberReply(p) PROVE TypeOK'
  <2>1. toMember[p].ids \in Seq(Ids) /\ Len(toMember[p].ids) \in 0 .. Len(toMember[p].ids)
    BY MessageFields, SMTT(40)
  <2>2. ReplyNew(p, Len(toMember[p].ids)) \subseteq Ids
    BY <2>1, ElemsPrefix, ElemsType, Zenon DEF ReplyNew
  <2>3. last' \in [Peers -> Nat] /\ applied' \in [Peers -> SUBSET Ids]
    <3>1. last[p] \in Nat BY Zenon DEF TypeOK
    <3>q. QED BY <1>19, <2>2, <3>1, TypeApply, Zenon DEF MemberReply, ApplyPrefix
  <2>4. toMember[p].members \subseteq Peers /\ toMember[p].denied \subseteq Peers
    BY MessageFields, Zenon
  <2>q. QED BY <1>19, <1>e, <2>3, <2>4, Zenon
            DEF MemberReply, TypeOK, MemberPhases, published, gates, task
<1>20. ASSUME NEW p \in Peers, MemberReplyStops(p) PROVE TypeOK'
  <2>0. toMember[p].ids \in Seq(Ids)
    BY MessageFields, Zenon
  <2>1. PICK k \in 0 .. Len(toMember[p].ids) :
           /\ ApplyPrefix(p, k)
           /\ rmembers' = [rmembers EXCEPT ![p] = MembersAfter(ReplyNew(p, k), @)]
           /\ rdenied' = [rdenied EXCEPT ![p] = DeniedAfter(ReplyNew(p, k), @)]
           /\ LinkEnds(p, ReplyRest(p, k))
           /\ UNCHANGED faults \/ Fault
    BY <1>20, Zenon DEF MemberReplyStops
  <2>2. ReplyNew(p, k) \subseteq Ids /\ ReplyRest(p, k) \subseteq Ids
    BY <2>0, ElemsPrefix, ElemsType DEF ReplyNew, ReplyRest
  <2>3. /\ last' \in [Peers -> Nat] /\ applied' \in [Peers -> SUBSET Ids]
        /\ rmembers' \in [Peers -> SUBSET Peers] /\ rdenied' \in [Peers -> SUBSET Peers]
    <3>1. last[p] \in Nat BY Zenon DEF TypeOK
    <3>q. QED BY <2>1, <2>2, <3>1, TypeApply, Zenon DEF ApplyPrefix
  <2>4. /\ mpc' \in [Peers -> MemberPhases] /\ toMember' \in [Peers -> Downlink]
        /\ lost' \in [Peers -> SUBSET Ids]
    BY <2>1, <2>2, TypeLinkEnds, Zenon
  <2>5. faults' \in Nat
    BY <2>1, SMTT(40) DEF Fault, TypeOK
  <2>6. UNCHANGED <<published, gates, present, task, toHost, rboot>>
    BY <1>20, Zenon DEF MemberReplyStops
  <2>q. QED BY <2>3, <2>4, <2>5, <2>6, Zenon DEF TypeOK, published, gates, task
<1>21. CASE UNCHANGED vars
  BY <1>21, Zenon DEF TypeOK, vars, published, gates, task, wire, replica
<1>q. QED
  BY <1>1, <1>2, <1>3, <1>4, <1>5, <1>6, <1>7, <1>8, <1>9, <1>10, <1>11, <1>12, <1>13, <1>14,
     <1>15, <1>16, <1>17, <1>18, <1>19, <1>20, <1>21, Zenon
  DEF Next, Progress

\* Types: through every commit, flush, live exchange, lost connection and
\* restart each variable keeps its shape.
THEOREM TypeCorrect == Spec => []TypeOK
BY TypeInit, TypeStep, PTL DEF Spec

-----------------------------------------------------------------------------
(***************************************************************************)
(* The log.  Five kinds of steps touch what the log promises; every other  *)
(* step leaves it alone.                                                   *)
(***************************************************************************)

\* Commits, admissions, flush acknowledgements and heartbeats are the only
\* steps that touch members, history, log, acked or boot.
LEMMA LogSteps ==
    ASSUME Next
    PROVE  \/ UNCHANGED <<members, history, log, acked, boot>>
           \/ \E u \in Updates : CommitBody(u)
           \/ \E p \in Peers : Connect(p)
           \/ \E p \in Peers : /\ FlushUnchanged(p) /\ ClearMailbox(p) /\ AcknowledgeFlush(p)
           \/ \E p \in Peers : AnswerHeartbeat(p) /\ ServeHeartbeat(p)
<1> DEFINE Quietly == UNCHANGED <<members, history, log, acked, boot>>
<1>1. ASSUME NEW u \in Updates, Commit(u) PROVE CommitBody(u)
  BY <1>1, Zenon DEF Commit
<1>2. CommitFails \/ HostRestart => Quietly
  BY Zenon DEF CommitFails, HostRestart, published
<1>3. ASSUME NEW p \in Peers PROVE AcknowledgeFlush(p) => Quietly \/ (FlushUnchanged(p) /\ ClearMailbox(p))
  BY Zenon DEF AcknowledgeFlush
<1>4. ASSUME NEW p \in Peers PROVE ServeHeartbeat(p) => Quietly \/ AnswerHeartbeat(p)
  BY Zenon DEF ServeHeartbeat
<1>5. ASSUME NEW p \in Peers PROVE ServeSubmit(p) => Quietly \/ CommitBody(Edit(p))
  BY Zenon DEF ServeSubmit, published
<1>6. \A p \in Peers : Edit(p) \in Updates
  BY Zenon DEF Edit, Updates
<1>7. ASSUME NEW p \in Peers
      PROVE  \/ PrepareFlush(p) \/ MemberFlush(p) \/ MemberRejectsFlush(p) \/ SendWelcome(p)
             \/ GoLive(p) \/ MemberWelcome(p) \/ MemberHeartbeat(p) \/ MemberSubmit(p)
             \/ SendReply(p) \/ MemberReply(p) \/ MemberReplyStops(p) \/ HostNotices(p)
             \/ MemberNotices(p) \/ HostDrop(p) \/ MemberDrop(p) \/ PresenceExpires(p)
             => Quietly
  BY Zenon DEF PrepareFlush, MemberFlush, MemberRejectsFlush, SendWelcome, GoLive, MemberWelcome,
         MemberHeartbeat, MemberSubmit, SendReply, MemberReply, MemberReplyStops, HostNotices,
         MemberNotices, HostDrop, MemberDrop, PresenceExpires, published
<1>q. QED
  <2> HIDE DEF Quietly
  <2>1. Quietly \/ (\E u \in Updates : CommitBody(u)) \/ (\E p \in Peers : Connect(p))
        \/ (\E p \in Peers : /\ FlushUnchanged(p) /\ ClearMailbox(p) /\ AcknowledgeFlush(p))
        \/ (\E p \in Peers : AnswerHeartbeat(p) /\ ServeHeartbeat(p))
    BY <1>1, <1>2, <1>3, <1>4, <1>5, <1>6, <1>7, Zenon DEF Next, Progress
  <2>q. QED BY <2>1, Zenon DEF Quietly

\* The log keeps covering what members have not acknowledged.
LEMMA LogCoversStep == TypeOK /\ LogCoversUnacked /\ [Next]_vars => LogCoversUnacked'
<1> SUFFICES ASSUME TypeOK, LogCoversUnacked, [Next]_vars PROVE LogCoversUnacked'
  BY Zenon
<1>1. CASE UNCHANGED <<members, history, log, acked, boot>>
  BY <1>1, Zenon DEF LogCoversUnacked, Covered
<1>2. ASSUME NEW u \in Updates, CommitBody(u) PROVE LogCoversUnacked'
  <2>1. SUFFICES ASSUME NEW p \in members', NEW i \in 1 .. Len(history'), i > Covered(p)'
                 PROVE  i \in log'
    BY Zenon DEF LogCoversUnacked
  <2>2. p \in members /\ p \notin Target(u) /\ p \in Peers
    BY <1>2, Zenon DEF CommitBody, TypeOK
  <2>3. acked'[p] = acked[p] /\ boot'[p] = boot[p]
    BY <1>2, <2>2, Zenon DEF CommitBody, AckedAfter
  <2>4. acked[p] \in Nat /\ boot[p] \in Int
    BY <2>2, PeerNumbers, Zenon
  <2>5. i > Covered(p) /\ acked'[p] < i
    BY <2>3, <2>4, <2>1 DEF Covered, Larger
  <2>6. Len(history') = Len(history) + 1 /\ Len(history) \in Nat
    BY <1>2, SMTT(40) DEF CommitBody, TypeOK
  <2>7. i \in log \cup {NextControl}
    BY <2>2, <2>5, <2>6 DEF LogCoversUnacked, NextControl
  <2>q. QED BY <1>2, <2>1, <2>5, <2>7, Zenon DEF CommitBody, Retain
<1>3. ASSUME NEW q \in Peers, Connect(q) PROVE LogCoversUnacked'
  <2>1. SUFFICES ASSUME NEW p \in members', NEW i \in 1 .. Len(history'), i > Covered(p)'
                 PROVE  i \in log'
    BY Zenon DEF LogCoversUnacked
  <2>2. p \in Peers /\ acked' = acked /\ history' = history /\ Len(history) \in Nat
    BY <1>3, SMTT(40) DEF Connect, TypeOK
  <2>3. acked[p] \in Nat
    BY <2>2, Zenon DEF TypeOK
  <2>4. p \in members
    <3>1. SUFFICES ASSUME p \notin members PROVE FALSE
      BY Zenon
    <3>2. p = q /\ boot'[p] = Len(history)
      BY <1>3, <2>1, <3>1, SMTT(40) DEF Connect, TypeOK
    <3>q. QED BY <2>1, <2>2, <2>3, <3>2, SMTT(40) DEF Covered, Larger
  <2>5. boot'[p] = boot[p]
    BY <1>3, <2>2, <2>4, Zenon DEF Connect, TypeOK
  <2>6. i \in log /\ acked'[p] < i
    <3>1. boot[p] \in Int BY <2>2, SMTT(40) DEF TypeOK, NoBoot
    <3>q. QED BY <2>1, <2>2, <2>3, <2>4, <2>5, <3>1, SMTT(40) DEF LogCoversUnacked, Covered, Larger
  <2>q. QED BY <1>3, <2>1, <2>6, Zenon DEF Connect, Retain
<1>4. ASSUME NEW q \in Peers, ClearMailbox(q), AcknowledgeFlush(q) PROVE LogCoversUnacked'
  <2>1. SUFFICES ASSUME NEW p \in members', NEW i \in 1 .. Len(history'), i > Covered(p)'
                 PROVE  i \in log'
    BY Zenon DEF LogCoversUnacked
  <2>2. p \in members /\ p \in Peers /\ members' = members /\ history' = history
    BY <1>4, Zenon DEF AcknowledgeFlush, TypeOK
  <2>3. FlushedThrough(q) \in Int /\ boot[q] <= FlushedThrough(q)
    <3>1. Elems(mailbox[q]) \subseteq Nat
      BY ElemsType, Zenon DEF TypeOK, Ids
    <3>2. Highest(Elems(mailbox[q]), 0) \in Nat
      BY <3>1, HighestProperties, Zenon
    <3>3. boot[q] \in Int
      BY SMTT(40) DEF TypeOK, NoBoot
    <3>q. QED BY <3>2, <3>3, SMTT(40) DEF FlushedThrough, Larger
  <2>4. acked[p] \in Nat /\ boot[p] \in Int
    BY <2>2, PeerNumbers, Zenon
  <2>5. i > Covered(p) /\ acked'[p] < i
    <3>1. CASE p = q
      <4>1. acked'[p] = Larger(acked[p], FlushedThrough(p)) /\ boot'[p] = NoBoot
        BY <1>4, <3>1, Zenon DEF ClearMailbox, TypeOK
      <4>q. QED BY <2>1, <2>3, <2>4, <3>1, <4>1, SMTT(40) DEF Covered, Larger, NoBoot
    <3>2. CASE p # q
      <4>1. acked'[p] = acked[p] /\ boot'[p] = boot[p]
        BY <1>4, <2>2, <3>2, Zenon DEF ClearMailbox, TypeOK
      <4>q. QED BY <2>1, <2>4, <4>1, SMTT(40) DEF Covered, Larger
    <3>q. QED BY <3>1, <3>2, Zenon
  <2>6. i \in log
    BY <2>2, <2>5, Zenon DEF LogCoversUnacked
  <2>q. QED BY <1>4, <2>2, <2>5, <2>6, Zenon DEF ClearMailbox, Retain
<1>5. ASSUME NEW q \in Peers, AnswerHeartbeat(q), ServeHeartbeat(q) PROVE LogCoversUnacked'
  <2>1. SUFFICES ASSUME NEW p \in members', NEW i \in 1 .. Len(history'), i > Covered(p)'
                 PROVE  i \in log'
    BY Zenon DEF LogCoversUnacked
  <2>2. p \in members /\ p \in Peers /\ members' = members /\ history' = history /\ boot' = boot
    BY <1>5, Zenon DEF ServeHeartbeat, TypeOK
  <2>3. acked[p] \in Nat /\ boot[p] \in Int /\ toHost[q].through \in Nat
    <3>1. toHost[q].through \in Nat BY MessageFields, Zenon
    <3>2. acked[p] \in Nat /\ boot[p] \in Int BY <2>2, PeerNumbers, Zenon
    <3>q. QED BY <3>1, <3>2, Zenon
  <2>4. acked[p] <= acked'[p] /\ acked'[p] \in Nat
    <3>1. acked'[p] = IF p = q THEN Larger(acked[p], toHost[q].through) ELSE acked[p]
      BY <1>5, <2>2, Zenon DEF AnswerHeartbeat, TypeOK
    <3>q. QED BY <2>3, <3>1, SMTT(40) DEF Larger
  <2>5. i > Covered(p) /\ acked'[p] < i
    BY <2>1, <2>2, <2>3, <2>4, SMTT(40) DEF Covered, Larger
  <2>6. i \in log
    BY <2>2, <2>5, Zenon DEF LogCoversUnacked
  <2>q. QED BY <1>5, <2>2, <2>5, <2>6, Zenon DEF AnswerHeartbeat, Retain
<1>6. CASE UNCHANGED vars
  BY <1>6, <1>1, Zenon DEF vars, published
<1>q. QED BY <1>1, <1>2, <1>3, <1>4, <1>5, <1>6, LogSteps, Zenon

\* publish_state never truncates a record some member still needs, for any
\* number of members and instructions: a restart can rebuild every mailbox.
THEOREM LogCovers == Spec => []LogCoversUnacked
<1>1. Init => LogCoversUnacked
  BY Zenon DEF Init, LogCoversUnacked
<1>q. QED BY <1>1, LogCoversStep, TypeCorrect, PTL DEF Spec

\* Only records that every remaining member acknowledged leave the log.
THEOREM TruncationSafe == Spec => TruncatesAcknowledged
<1>1. ASSUME NEW ids, NEW ms, ms \subseteq Peers, NEW ack \in [Peers -> Nat], ids \subseteq Ids
      PROVE  \A i \in ids \ Retain(ids, ms, ack) : \A p \in ms : ack[p] >= i
  BY <1>1 DEF Retain, Ids
<1>2. TypeOK /\ TypeOK' /\ [Next]_vars =>
        [\A i \in log \ log' : \A p \in members' : acked'[p] >= i]_vars
  <2> SUFFICES ASSUME TypeOK, TypeOK', Next
               PROVE  \A i \in log \ log' : \A p \in members' : acked'[p] >= i
    BY Zenon
  <2>1. CASE UNCHANGED <<members, history, log, acked, boot>>
    BY <2>1, Zenon
  <2>t. log \subseteq Ids /\ members' \subseteq Peers /\ acked' \in [Peers -> Nat]
    BY Zenon DEF TypeOK
  <2>2. ASSUME NEW u \in Updates, CommitBody(u)
        PROVE  \A i \in log \ log' : \A p \in members' : acked'[p] >= i
    <3>1. NextControl \in Ids BY SMTT(40) DEF NextControl, TypeOK, Ids
    <3>q. QED BY <2>t, <2>2, <3>1, <1>1, SMTT(40) DEF CommitBody
  <2>3. ASSUME NEW q \in Peers, Connect(q)
        PROVE  \A i \in log \ log' : \A p \in members' : acked'[p] >= i
    <3>1. acked' = acked /\ (log' = log \/ log' = Retain(log, members', acked))
      BY <2>3, Zenon DEF Connect
    <3>q. QED BY <2>t, <3>1, <1>1, Zenon
  <2>4. ASSUME NEW q \in Peers, ClearMailbox(q), AcknowledgeFlush(q)
        PROVE  \A i \in log \ log' : \A p \in members' : acked'[p] >= i
    <3>1. members' = members /\ log' = Retain(log, members', acked')
      BY <2>4, Zenon DEF ClearMailbox, AcknowledgeFlush
    <3>q. QED BY <2>t, <3>1, <1>1, Zenon
  <2>5. ASSUME NEW q \in Peers, AnswerHeartbeat(q), ServeHeartbeat(q)
        PROVE  \A i \in log \ log' : \A p \in members' : acked'[p] >= i
    <3>1. members' = members /\ log' = Retain(log, members', acked')
      BY <2>5, Zenon DEF AnswerHeartbeat, ServeHeartbeat
    <3>q. QED BY <2>t, <3>1, <1>1, Zenon
  <2>q. QED BY <2>1, <2>2, <2>3, <2>4, <2>5, LogSteps, Zenon
<1>q. QED BY <1>2, TypeCorrect, PTL DEF Spec, TruncatesAcknowledged
=============================================================================
