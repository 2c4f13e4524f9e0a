------------------------ MODULE HostDeliveryAckProofs -----------------------
(***************************************************************************)
(* Acknowledgements.  AckSound is not inductive: what H records depends on *)
(* the heartbeat or the flush it is answering, and those on what the       *)
(* replica did.  Three facts close the gap: ids in flight were committed,  *)
(* a replica's watermark is its highest known id, and the flush H waits to *)
(* have confirmed is the one the member applied.                           *)
(***************************************************************************)
EXTENDS HostDeliveryProofs

Committed(n) == n <= Len(history)

\* Queued and sent ids, snapshots and watermarks refer to committed records.
InFlightCommitted ==
    /\ \A i \in log : Committed(i)
    /\ \A p \in Peers : /\ \A i \in Pending(p) : Committed(i)
                        /\ Committed(boot[p]) /\ Committed(toMember[p].boot) /\ Committed(last[p])

\* last_applied bounds what a replica knows, and is one of the ids it knows.
WatermarkExact ==
    \A p \in Peers : /\ rboot[p] <= last[p]
                     /\ \A i \in applied[p] : i <= last[p]
                     /\ last[p] \in applied[p] \cup {rboot[p]}

\* While H waits for a flush to be confirmed the message on the wire is what it
\* prepared, and a confirmation means the replica applied that.
FlushTracked ==
    \A p \in Peers :
        /\ hpc[p] = "offered" => toMember[p].kind # "flush" /\ toHost[p].kind # "flushed"
        /\ hpc[p] = "sent" /\ toMember[p].kind = "flush" =>
              toMember[p].ids = prepared[p] /\ toMember[p].boot = preparedBoot[p]
        /\ hpc[p] = "sent" /\ toHost[p].kind = "flushed" =>
              preparedBoot[p] <= last[p] /\ \A i \in Elems(prepared[p]) : i <= last[p]

\* What H has recorded, or is about to, never passes the replica's watermark.
AckTracked ==
    \A p \in Peers : /\ acked[p] <= last[p]
                     /\ toHost[p].kind = "heartbeat" => toHost[p].through <= last[p]

AckInv == InFlightCommitted /\ WatermarkExact /\ FlushTracked /\ AckTracked

\* Applying new ids above a base raises the watermark to the highest of them.
LEMMA ApplyNew ==
    ASSUME TypeOK, WatermarkExact, InFlightCommitted, NEW p \in Peers,
           NEW S, S \subseteq Ids, \A i \in S : Committed(i),
           NEW base \in Nat, rboot[p] <= base, Committed(base),
           \A i \in S : base < i /\ \A j \in applied[p] : j < i
    PROVE  LET w == Highest(S, Larger(last[p], base))
           IN  /\ w \in Nat /\ last[p] <= w /\ base <= w /\ Committed(w)
               /\ \A i \in S : last[p] < i /\ i <= w
               /\ w \in (applied[p] \cup S) \cup {base}
<1> DEFINE d == Larger(last[p], base)
           w == Highest(S, d)
<1>1. /\ last[p] \in Nat /\ rboot[p] \in Nat /\ applied[p] \subseteq Nat /\ S \subseteq Nat
      /\ Len(history) \in Nat
  BY SMTT(40) DEF TypeOK, Ids
<1>2. /\ rboot[p] <= last[p] /\ last[p] \in applied[p] \cup {rboot[p]} /\ last[p] <= Len(history)
  BY Zenon DEF WatermarkExact, InFlightCommitted, Committed
<1>3. /\ d \in Nat /\ last[p] <= d /\ base <= d /\ d <= Len(history) /\ d \in applied[p] \cup {base}
  BY <1>1, <1>2 DEF Larger, Committed
<1>4. ASSUME NEW i \in S PROVE last[p] < i
  <2>1. base < i /\ \A j \in applied[p] : j < i /\ i \in Nat
    BY <1>1, Zenon
  <2>2. CASE last[p] \in applied[p] BY <2>1, <2>2, Zenon
  <2>3. CASE last[p] = rboot[p] BY <1>1, <2>1, <2>3
  <2>q. QED BY <1>2, <2>2, <2>3, Zenon
<1>5. CASE S = {}
  <2>1. w = d
    BY <1>3, <1>5, HighestProperties, Zenon
  <2>q. QED BY <1>3, <1>5, <2>1, Zenon DEF Committed
<1>6. CASE S # {}
  <2>1. w \in S /\ \A i \in S : i <= w
    <3>1. \A i \in S : i <= Len(history) BY Zenon DEF Committed
    <3>2. \A b \in Nat : S # {} /\ (\A i \in S : i <= b) => w \in S /\ \A i \in S : i <= w
      <4> HIDE DEF d
      <4>q. QED BY <1>1, <1>3, HighestProperties, Zenon
    <3>q. QED BY <1>1, <1>6, <3>1, <3>2, Zenon
  <2> HIDE DEF w
  <2>2. w \in Nat /\ last[p] <= w /\ base <= w /\ Committed(w)
    BY <1>1, <1>4, <2>1
  <2>3. \A i \in S : last[p] < i /\ i <= w
    BY <1>4, <2>1, Zenon
  <2>4. w \in (applied[p] \cup S) \cup {base}
    BY <2>1, Zenon
  <2>q. QED BY <2>2, <2>3, <2>4, Zenon DEF w
<1>q. QED BY <1>5, <1>6, Zenon

\* What a step may do to a replica: its watermark stays exact and only rises.
Advances(p) ==
    /\ last[p] <= last'[p] /\ Committed(last'[p])
    /\ rboot'[p] <= last'[p]
    /\ \A i \in applied'[p] : i <= last'[p]
    /\ last'[p] \in applied'[p] \cup {rboot'[p]}
    /\ applied[p] \subseteq applied'[p]
    /\ \A i \in applied'[p] \ applied[p] : last[p] < i

\* A flush that applies covers everything it carried.
LEMMA FlushAdvances ==
    ASSUME TypeOK, WatermarkExact, InFlightCommitted, NEW p \in Peers, MemberFlush(p)
    PROVE  /\ Advances(p)
           /\ toMember[p].boot <= last'[p]
           /\ \A i \in Elems(toMember[p].ids) : i <= last'[p]
<1> DEFINE S == FlushNew(p)
           base == FlushBase(p)
<1>1. /\ last[p] \in Nat /\ rboot[p] \in Nat /\ applied[p] \subseteq Nat /\ Len(history) \in Nat
  BY SMTT(40) DEF TypeOK, Ids
<1>2. toMember[p].boot \in Int /\ Elems(toMember[p].ids) \subseteq Ids
  BY MessageFields, ElemsType DEF NoBoot
<1>3. /\ rboot[p] <= last[p] /\ last[p] <= Len(history) /\ toMember[p].boot <= Len(history)
      /\ \A i \in applied[p] : i <= last[p]
  BY Zenon DEF WatermarkExact, InFlightCommitted, Committed
<1>4. base \in Nat /\ rboot[p] <= base /\ toMember[p].boot <= base /\ Committed(base)
  BY <1>1, <1>2, <1>3 DEF FlushBase, Larger, Committed
<1>5. S \subseteq Ids /\ \A i \in S : Committed(i)
  BY <1>2, Zenon DEF FlushNew, InFlightCommitted, Pending
<1>6. \A i \in S : base < i /\ \A j \in applied[p] : j < i
  <2>1. \A i \in S : base < i
    BY <1>2, <1>4, Zenon DEF FlushNew, Ids
  <2>2. Accepts(S, applied[p], rmembers[p], rdenied[p])
    BY Zenon DEF MemberFlush, FlushAccepts
  <2>q. QED BY <2>1, <2>2, Zenon DEF Accepts
<1>7. /\ last'[p] = Highest(S, Larger(last[p], base))
      /\ applied'[p] = applied[p] \cup S /\ rboot'[p] = base
  BY Zenon DEF MemberFlush, TypeOK
<1>8. \A i \in Elems(toMember[p].ids) : i \in S \/ i <= base \/ i \in applied[p]
  BY <1>2, <1>4 DEF FlushNew, Ids
<1> HIDE DEF S, base
<1>9. /\ last'[p] \in Nat /\ last[p] <= last'[p] /\ base <= last'[p] /\ Committed(last'[p])
      /\ \A i \in S : last[p] < i /\ i <= last'[p]
      /\ last'[p] \in (applied[p] \cup S) \cup {base}
  BY <1>4, <1>5, <1>6, <1>7, ApplyNew
<1>10. Advances(p)
  BY <1>1, <1>3, <1>7, <1>9 DEF Advances
<1>q. QED BY <1>1, <1>2, <1>3, <1>4, <1>8, <1>9, <1>10, SMTT(40) DEF Ids

\* So does an applied prefix of a live reply.
LEMMA ReplyAdvances ==
    ASSUME TypeOK, WatermarkExact, InFlightCommitted, NEW p \in Peers,
           NEW k \in 0 .. Len(toMember[p].ids),
           AppliesPrefix(p, k), ApplyPrefix(p, k), rboot' = rboot
    PROVE  Advances(p)
<1> DEFINE S == ReplyNew(p, k)
<1>1. /\ last[p] \in Nat /\ rboot[p] \in Nat /\ applied[p] \subseteq Nat /\ Len(history) \in Nat
  BY SMTT(40) DEF TypeOK, Ids
<1>2. /\ toMember[p].ids \in Seq(Ids) /\ Elems(SubSeq(toMember[p].ids, 1, k)) \subseteq Elems(toMember[p].ids)
      /\ Elems(toMember[p].ids) \subseteq Ids
  BY MessageFields, ElemsPrefix, ElemsType, Zenon
<1>3. /\ rboot[p] <= last[p] /\ last[p] <= Len(history)
      /\ \A i \in applied[p] : i <= last[p]
  BY Zenon DEF WatermarkExact, InFlightCommitted, Committed
<1>4. S \subseteq Ids /\ \A i \in S : Committed(i)
  BY <1>2, Zenon DEF ReplyNew, InFlightCommitted, Pending
<1>5. \A i \in S : rboot[p] < i /\ \A j \in applied[p] : j < i
  <2>1. \A i \in S : rboot[p] < i
    BY <1>1, <1>4, SMTT(40) DEF ReplyNew, Known, Ids
  <2>q. QED BY <2>1, Zenon DEF AppliesPrefix, Accepts
<1>6. Larger(last[p], rboot[p]) = last[p] /\ Committed(rboot[p])
  BY <1>1, <1>3 DEF Larger, Committed
<1>7. /\ last'[p] = Highest(S, last[p]) /\ applied'[p] = applied[p] \cup S /\ rboot'[p] = rboot[p]
  BY Zenon DEF ApplyPrefix, TypeOK
<1> HIDE DEF S
<1>8. /\ last'[p] \in Nat /\ last[p] <= last'[p] /\ Committed(last'[p])
      /\ \A i \in S : last[p] < i /\ i <= last'[p]
      /\ last'[p] \in (applied[p] \cup S) \cup {rboot[p]}
  <2> DEFINE w == Highest(S, Larger(last[p], rboot[p]))
  <2>1. rboot[p] \in Nat /\ rboot[p] <= rboot[p]
    BY <1>1
  <2>2. /\ w \in Nat /\ last[p] <= w /\ rboot[p] <= w /\ Committed(w)
        /\ \A i \in S : last[p] < i /\ i <= w
        /\ w \in (applied[p] \cup S) \cup {rboot[p]}
    BY <1>4, <1>5, <1>6, <2>1, ApplyNew, Zenon
  <2>3. w = last'[p]
    BY <1>6, <1>7, Zenon
  <2> HIDE DEF w
  <2>q. QED BY <2>2, <2>3, Zenon
<1>q. QED BY <1>1, <1>3, <1>7, <1>8, SMTT(40) DEF Advances

\* Only an applied flush or reply changes a replica's records.
LEMMA ReplicaSteps ==
    ASSUME TypeOK, WatermarkExact, InFlightCommitted, [Next]_vars, NEW p \in Peers
    PROVE  Advances(p)
<1>1. CASE last'[p] = last[p] /\ applied'[p] = applied[p] /\ rboot'[p] = rboot[p]
  BY <1>1, PeerNumbers, Zenon DEF Advances, WatermarkExact, InFlightCommitted
<1>2. ASSUME NEW q \in Peers, MemberFlush(q) PROVE Advances(p)
  <2>1. CASE q = p BY <1>2, <2>1, FlushAdvances, Zenon
  <2>2. CASE q # p
    BY <1>1, <1>2, <2>2, Zenon DEF MemberFlush, TypeOK
  <2>q. QED BY <2>1, <2>2, Zenon
<1>3. ASSUME NEW q \in Peers, MemberReply(q) \/ MemberReplyStops(q) PROVE Advances(p)
  <2>0. toMember[q].ids \in Seq(Ids)
    BY MessageFields, Zenon
  <2>1. PICK k \in 0 .. Len(toMember[q].ids) : AppliesPrefix(q, k) /\ ApplyPrefix(q, k)
    BY <1>3, <2>0, SMTT(40) DEF MemberReply, ReplyAccepts, MemberReplyStops
  <2>2. rboot' = rboot
    BY <1>3, Zenon DEF MemberReply, MemberReplyStops
  <2>3. CASE q = p BY <2>1, <2>2, <2>3, ReplyAdvances, Zenon
  <2>4. CASE q # p BY <1>1, <2>1, <2>2, <2>4, Zenon DEF ApplyPrefix, TypeOK
  <2>q. QED BY <2>3, <2>4, Zenon
<1>4. CASE UNCHANGED <<last, applied, rboot>>
  BY <1>1, <1>4, Zenon
<1>5. (\E u \in Updates : Commit(u)) \/ CommitFails \/ HostRestart \/ UNCHANGED vars
      => UNCHANGED <<last, applied, rboot>>
  BY Zenon DEF Commit, CommitFails, HostRestart, vars, replica
<1>6. ASSUME NEW q \in Peers
      PROVE  \/ Connect(q) \/ PrepareFlush(q) \/ MemberRejectsFlush(q) \/ AcknowledgeFlush(q)
             \/ SendWelcome(q) \/ GoLive(q) \/ MemberWelcome(q) \/ MemberHeartbeat(q)
             \/ MemberSubmit(q) \/ ServeHeartbeat(q) \/ ServeSubmit(q) \/ SendReply(q)
             \/ HostNotices(q) \/ MemberNotices(q) \/ HostDrop(q) \/ MemberDrop(q)
             \/ PresenceExpires(q)
             => UNCHANGED <<last, applied, rboot>>
  BY Zenon DEF Connect, PrepareFlush, MemberRejectsFlush, AcknowledgeFlush, SendWelcome, GoLive,
         MemberWelcome, MemberHeartbeat, MemberSubmit, ServeHeartbeat, ServeSubmit, SendReply,
         HostNotices, MemberNotices, HostDrop, MemberDrop, PresenceExpires, replica
<1>q. QED BY <1>2, <1>3, <1>4, <1>5, <1>6, Zenon DEF Next, Progress

\* What the messages H sends carry.
LEMMA MessageContents ==
    /\ Elems(<< >>) = {}
    /\ Silence.kind = "none" /\ Silence.ids = << >> /\ Silence.boot = NoBoot
    /\ Welcome.kind = "welcome" /\ Welcome.ids = << >> /\ Welcome.boot = NoBoot
    /\ \A ids : Reply(ids).kind = "reply" /\ Reply(ids).ids = ids /\ Reply(ids).boot = NoBoot
    /\ \A ids, b : Flush(ids, b).kind = "flush" /\ Flush(ids, b).ids = ids /\ Flush(ids, b).boot = b
    /\ Quiet.kind = "none" /\ Quiet.through = 0
    /\ \A k, n : Says(k, n).kind = k /\ Says(k, n).through = n
<1>1. Elems(<< >>) = {} BY DEF Elems
<1>2. Silence.kind = "none" /\ Silence.ids = << >> /\ Silence.boot = NoBoot BY Zenon DEF Silence
<1>3. Welcome.kind = "welcome" /\ Welcome.ids = << >> /\ Welcome.boot = NoBoot
  BY Zenon DEF Welcome, Silence
<1>4. \A ids : Reply(ids).kind = "reply" /\ Reply(ids).ids = ids /\ Reply(ids).boot = NoBoot
  BY Zenon DEF Reply, Welcome, Silence
<1>5. \A ids, b : Flush(ids, b).kind = "flush" /\ Flush(ids, b).ids = ids /\ Flush(ids, b).boot = b
  BY Zenon DEF Flush, Silence
<1>6. /\ Quiet.kind = "none" /\ Quiet.through = 0
      /\ \A k, n : Says(k, n).kind = k /\ Says(k, n).through = n
  BY Zenon DEF Quiet, Says
<1>q. QED BY <1>1, <1>2, <1>3, <1>4, <1>5, <1>6

\* The history never shrinks.
LEMMA HistoryGrows ==
    ASSUME TypeOK, [Next]_vars
    PROVE  Len(history) \in Nat /\ Len(history') \in Nat /\ Len(history) <= Len(history')
<1>1. Len(history) \in Nat BY DEF TypeOK
<1>2. CASE UNCHANGED history BY <1>1, <1>2
<1>3. ASSUME NEW u \in Updates, CommitBody(u)
      PROVE  Len(history') = Len(history) + 1
  BY <1>3, SMTT(40) DEF CommitBody, TypeOK
<1>4. ASSUME NEW p \in Peers, Connect(p) \/ AcknowledgeFlush(p) \/ ServeHeartbeat(p)
      PROVE  UNCHANGED history
  BY <1>4, Zenon DEF Connect, AcknowledgeFlush, ServeHeartbeat
<1>q. QED BY <1>1, <1>2, <1>3, <1>4, LogSteps DEF vars, published

\* Nothing uncommitted is ever logged.
LEMMA LogCommitted ==
    ASSUME TypeOK, InFlightCommitted, [Next]_vars
    PROVE  \A i \in log' : Committed(i)'
<1>1. /\ Len(history) \in Nat /\ Len(history') \in Nat /\ Len(history) <= Len(history')
      /\ log \subseteq Nat
  BY HistoryGrows, Zenon DEF TypeOK, Ids
<1>2. CASE log' \subseteq log
  BY <1>1, <1>2 DEF InFlightCommitted, Committed
<1>3. ASSUME NEW u \in Updates, CommitBody(u)
      PROVE  \A i \in log' : Committed(i)'
  <2>1. Len(history') = Len(history) + 1
    BY <1>3, SMTT(40) DEF CommitBody, TypeOK
  <2>2. log' \subseteq log \cup {Len(history) + 1}
    BY <1>3, Zenon DEF CommitBody, Retain, NextControl
  <2>q. QED BY <1>1, <2>1, <2>2 DEF InFlightCommitted, Committed
<1>4. ASSUME NEW p \in Peers, Connect(p) \/ ClearMailbox(p) \/ AnswerHeartbeat(p)
      PROVE  log' \subseteq log
  BY <1>4, Zenon DEF Connect, ClearMailbox, AnswerHeartbeat, Retain
<1>q. QED BY <1>2, <1>3, <1>4, LogSteps, Zenon DEF vars, published

\* What is queued, sent or snapshotted for one peer is committed.
PeerCommitted(p) == /\ \A i \in Pending(p) : Committed(i)
                    /\ Committed(boot[p]) /\ Committed(toMember[p].boot)

\* A commit queues its own record and nothing else that is new.
LEMMA CommitQueues ==
    ASSUME TypeOK, NEW u \in Updates, NEW p \in Peers, CommitBody(u)
    PROVE  /\ Elems(MailboxAfter(u)[p]) \subseteq Pending(p) \cup {NextControl}
           /\ Elems(OnlineAfter(u)[p]) \subseteq Elems(online[p]) \cup {NextControl}
           /\ MailboxAfter(u)[p] \in Seq(Ids) /\ OnlineAfter(u)[p] \in Seq(Ids)
<1>1. NextControl \in Ids /\ mailbox[p] \in Seq(Ids) /\ online[p] \in Seq(Ids)
  BY SMTT(40) DEF NextControl, Ids, TypeOK
<1>2. Elems(<< >>) = {} /\ << >> \in Seq(Ids)
  BY MessageContents, SMTT(40)
<1>3. /\ mailbox[p] \o online[p] \in Seq(Ids)
      /\ Elems(mailbox[p] \o online[p]) = Elems(mailbox[p]) \cup Elems(online[p])
      /\ Append(online[p], NextControl) \in Seq(Ids)
      /\ Elems(Append(online[p], NextControl)) = Elems(online[p]) \cup {NextControl}
  BY <1>1, ElemsConcat, Zenon
<1>4. /\ Append(mailbox[p] \o online[p], NextControl) \in Seq(Ids)
      /\ Elems(Append(mailbox[p] \o online[p], NextControl))
           = Elems(mailbox[p]) \cup Elems(online[p]) \cup {NextControl}
  <2> DEFINE q == mailbox[p] \o online[p]
  <2>1. q \in Seq(Ids) /\ Elems(q) = Elems(mailbox[p]) \cup Elems(online[p])
    BY <1>3, Zenon
  <2> HIDE DEF q
  <2>2. Append(q, NextControl) \in Seq(Ids) /\ Elems(Append(q, NextControl)) = Elems(q) \cup {NextControl}
    BY <1>1, <2>1, ElemsConcat, Zenon
  <2>q. QED BY <2>1, <2>2, Zenon DEF q
<1>5. \/ MailboxAfter(u)[p] = << >> \/ MailboxAfter(u)[p] = mailbox[p]
      \/ MailboxAfter(u)[p] = Append(mailbox[p] \o online[p], NextControl)
  <2>1. CASE p \in Target(u) BY <2>1, Zenon DEF MailboxAfter, Recipients
  <2>2. CASE p \notin Target(u) /\ p \in Recipients(u) /\ ~Live(p) BY <2>2, Zenon DEF MailboxAfter
  <2>3. CASE p \notin Target(u) /\ ~(p \in Recipients(u) /\ ~Live(p)) BY <2>3, Zenon DEF MailboxAfter
  <2>q. QED BY <2>1, <2>2, <2>3, Zenon
<1>6. \/ OnlineAfter(u)[p] = << >> \/ OnlineAfter(u)[p] = online[p]
      \/ OnlineAfter(u)[p] = Append(online[p], NextControl)
  BY DEF OnlineAfter
<1>7. Elems(mailbox[p]) \subseteq Pending(p) /\ Elems(online[p]) \subseteq Pending(p)
  BY Zenon DEF Pending
<1>q. QED BY <1>1, <1>2, <1>3, <1>4, <1>5, <1>6, <1>7, Zenon

\* A step that queues only pending, logged or newly committed ids, and
\* snapshots no later than the end of the history, keeps a peer committed.
LEMMA KeepsCommitted ==
    ASSUME TypeOK, TypeOK', InFlightCommitted, [Next]_vars, NEW q \in Peers,
           \A i \in Pending(q)' : i \in Pending(q) \/ i \in log \/ i <= Len(history'),
           boot'[q] \in {boot[q], NoBoot, Len(history)},
           toMember'[q].boot \in {toMember[q].boot, boot[q], NoBoot}
    PROVE  PeerCommitted(q)'
<1>1. /\ Len(history) \in Nat /\ Len(history') \in Nat /\ Len(history) <= Len(history')
      /\ boot[q] \in Int /\ log \subseteq Nat
  BY HistoryGrows, PeerNumbers, Zenon DEF TypeOK, Ids
<1>2. toMember[q].boot \in Int
  BY MessageFields, SMTT(40) DEF NoBoot
<1>3. Pending(q) \subseteq Nat
  <2>1. toMember[q].ids \in Seq(Ids) BY MessageFields, Zenon
  <2>2. mailbox[q] \in Seq(Ids) /\ online[q] \in Seq(Ids) /\ batch[q] \in Seq(Ids) BY Zenon DEF TypeOK
  <2>q. QED BY <2>1, <2>2, ElemsType, Zenon DEF Pending, Ids
<1>4. /\ \A i \in log : i <= Len(history)
      /\ \A i \in Pending(q) : i <= Len(history)
      /\ boot[q] <= Len(history) /\ toMember[q].boot <= Len(history)
  BY Zenon DEF InFlightCommitted, Committed
<1>5. ASSUME NEW i \in Pending(q)' PROVE i <= Len(history')
  <2>1. CASE i \in Pending(q) BY <1>1, <1>3, <1>4, <2>1, SMTT(40)
  <2>2. CASE i \in log BY <1>1, <1>4, <2>2
  <2>q. QED BY <2>1, <2>2, Zenon
<1>6. boot'[q] <= Len(history') /\ toMember'[q].boot <= Len(history')
  BY <1>1, <1>2, <1>4, SMTT(40) DEF NoBoot
<1>q. QED BY <1>5, <1>6, Zenon DEF PeerCommitted, Committed

\* Queues, messages and snapshots refer to committed records only.
LEMMA InFlightStep ==
    ASSUME TypeOK, InFlightCommitted, WatermarkExact, [Next]_vars
    PROVE  InFlightCommitted'
<1>t. TypeOK' /\ Len(history') \in Nat /\ Len(history) \in Nat
  BY TypeStep, HistoryGrows, Zenon
<1>1. SUFFICES ASSUME NEW q \in Peers PROVE PeerCommitted(q)'
  <2>1. ASSUME NEW q \in Peers PROVE Committed(last[q])'
    <3>1. last'[q] <= Len(history) BY ReplicaSteps, Zenon DEF Advances, Committed
    <3>2. last'[q] \in Nat BY <1>t, Zenon DEF TypeOK
    <3>q. QED BY <1>t, <3>1, <3>2, HistoryGrows DEF Committed
  <2>q. QED BY <1>1, <2>1, LogCommitted, Zenon DEF InFlightCommitted, PeerCommitted
<1>e. /\ Elems(<< >>) = {} /\ Silence.ids = << >> /\ Silence.boot = NoBoot
  BY MessageContents, Zenon
<1>2. ASSUME UNCHANGED <<mailbox, boot>>, online'[q] = online[q] \/ online'[q] = << >>,
             batch'[q] \in {batch[q], << >>}, toMember'[q] \in {toMember[q], Silence}
      PROVE  PeerCommitted(q)'
  BY <1>e, <1>t, <1>2, KeepsCommitted, Zenon DEF Pending
<1>3. ASSUME NEW u \in Updates, Commit(u) PROVE PeerCommitted(q)'
  <2>1. /\ CommitBody(u) /\ mailbox'[q] = MailboxAfter(u)[q] /\ online'[q] = OnlineAfter(u)[q]
        /\ batch' = batch /\ toMember' = toMember
        /\ Len(history') = NextControl /\ boot'[q] \in {boot[q], NoBoot}
    <3>1. CommitBody(u) /\ online' = OnlineAfter(u) /\ batch' = batch /\ toMember' = toMember
      BY <1>3, Zenon DEF Commit, task, wire
    <3>2. mailbox' = MailboxAfter(u) /\ boot'[q] \in {boot[q], NoBoot}
      BY <3>1, Zenon DEF CommitBody
    <3>3. Len(history') = NextControl
      BY <3>1, SMTT(40) DEF CommitBody, NextControl, TypeOK
    <3>q. QED BY <3>1, <3>2, <3>3, Zenon
  <2>2. \A i \in Pending(q)' : i \in Pending(q) \cup {NextControl}
    BY <2>1, CommitQueues, Zenon DEF Pending
  <2>q. QED BY <1>t, <2>1, <2>2, KeepsCommitted, SMTT(40)
<1>4. CASE HostRestart
  <2>1. Elems(mailbox'[q]) = Recovered(q) /\ online'[q] = << >> /\ batch'[q] = << >>
        /\ toMember' = toMember /\ boot' = boot
    BY <1>4, Zenon DEF HostRestart
  <2>2. \A i \in Pending(q)' : i \in Pending(q) \/ i \in log
    BY <1>e, <2>1, Zenon DEF Pending, Recovered
  <2>q. QED BY <1>t, <2>1, <2>2, KeepsCommitted, Zenon
<1>5. ASSUME NEW p \in Peers, Connect(p) PROVE PeerCommitted(q)'
  <2>1. /\ online' = online /\ batch' = batch /\ toMember'[q] \in {toMember[q], Silence}
        /\ boot'[q] \in {boot[q], Len(history)} /\ history' = history
    BY <1>5, Zenon DEF Connect, TypeOK
  <2>2. mailbox'[q] \in {mailbox[q], << >>, <<Len(history)>>}
    BY <1>5, Zenon DEF Connect, TypeOK, Snapshot
  <2>3. Elems(<<Len(history)>>) = {Len(history)}
    BY DEF Elems
  <2>4. \A i \in Pending(q)' : i \in Pending(q) \/ i = Len(history)
    BY <1>e, <2>1, <2>2, <2>3, Zenon DEF Pending
  <2>q. QED BY <1>e, <1>t, <2>1, <2>4, KeepsCommitted, SMTT(40)
<1>6. ASSUME NEW p \in Peers, PrepareFlush(p) PROVE PeerCommitted(q)'
  <2>1. UNCHANGED <<mailbox, boot, online>>
    BY <1>6, Zenon DEF PrepareFlush, published
  <2>2. CASE TaskEnds(p) /\ UNCHANGED toMember
    BY <1>2, <2>1, <2>2, Zenon DEF TaskEnds, TypeOK
  <2>3. CASE SendFlush(p)
    <3>1. /\ batch' = batch
          /\ toMember'[q] = IF q = p THEN Flush(mailbox[p], boot[p]) ELSE toMember[q]
      BY <2>3, Zenon DEF SendFlush, TypeOK
    <3>2. Flush(mailbox[p], boot[p]).ids = mailbox[p] /\ Flush(mailbox[p], boot[p]).boot = boot[p]
      BY MessageContents, SMTT(40)
    <3>3. \A i \in Pending(q)' : i \in Pending(q)
      BY <2>1, <3>1, <3>2, Zenon DEF Pending
    <3>q. QED BY <1>t, <2>1, <3>1, <3>2, <3>3, KeepsCommitted, Zenon
  <2>q. QED BY <1>6, <2>2, <2>3, Zenon DEF PrepareFlush
<1>7. ASSUME NEW p \in Peers, AcknowledgeFlush(p) PROVE PeerCommitted(q)'
  <2>1. CASE TaskEnds(p) /\ UNCHANGED <<acked, log, mailbox, boot, gate>>
    BY <1>2, <1>7, <2>1, Zenon DEF AcknowledgeFlush, TaskEnds, TypeOK
  <2>2. CASE ClearMailbox(p)
    <3>1. mailbox'[q] \in {mailbox[q], << >>} /\ boot'[q] \in {boot[q], NoBoot}
          /\ batch' = batch /\ online' = online /\ toMember' = toMember
      BY <1>7, <2>2, Zenon DEF AcknowledgeFlush, ClearMailbox, TypeOK
    <3>2. \A i \in Pending(q)' : i \in Pending(q)
      BY <1>e, <3>1, Zenon DEF Pending
    <3>q. QED BY <1>t, <3>1, <3>2, KeepsCommitted, Zenon
  <2>q. QED BY <1>7, <2>1, <2>2, Zenon DEF AcknowledgeFlush
<1>8. ASSUME NEW p \in Peers, SendWelcome(p) PROVE PeerCommitted(q)'
  <2>1. /\ UNCHANGED <<mailbox, boot, online, batch>>
        /\ toMember'[q] = IF q = p THEN Welcome ELSE toMember[q]
    BY <1>8, Zenon DEF SendWelcome, TypeOK, published
  <2>2. Welcome.ids = << >> /\ Welcome.boot = NoBoot
    BY MessageContents, Zenon
  <2>3. \A i \in Pending(q)' : i \in Pending(q)
    BY <1>e, <2>1, <2>2, Zenon DEF Pending
  <2>q. QED BY <1>t, <2>1, <2>2, <2>3, KeepsCommitted, Zenon
<1>9. ASSUME NEW p \in Peers, NEW queues \in [Peers -> Seq(Ids)], TakeOnline(p, queues),
             boot'[q] \in {boot[q], NoBoot},
             \A i \in Elems(queues[q]) : i \in Pending(q) \/ i <= Len(history'),
             \A i \in Elems(mailbox'[q]) : i \in Pending(q) \/ i <= Len(history')
      PROVE  PeerCommitted(q)'
  <2>1. Reply(<< >>).ids = << >> /\ Reply(<< >>).boot = NoBoot
    BY MessageContents, Zenon
  <2>2. online'[q] = IF q = p THEN << >> ELSE queues[q]
    BY <1>9, Zenon DEF TakeOnline
  <2>3. /\ batch'[q] = batch[q] \/ batch'[q] = queues[q]
        /\ toMember'[q] = toMember[q] \/ toMember'[q] = Reply(<< >>)
    <3>1. CASE queues[p] = << >> BY <1>9, <3>1, SMTT(40) DEF TakeOnline, TypeOK
    <3>2. CASE queues[p] # << >>
      <4>1. batch' = [batch EXCEPT ![p] = queues[p]] /\ UNCHANGED toMember
        BY <1>9, <3>2, Zenon DEF TakeOnline
      <4>q. QED BY <4>1, Zenon DEF TypeOK
    <3>q. QED BY <3>1, <3>2, Zenon
  <2>4. \A i \in Pending(q)' : i \in Pending(q) \/ i <= Len(history')
    BY <1>e, <1>9, <2>1, <2>2, <2>3, Zenon DEF Pending
  <2>q. QED BY <1>t, <1>9, <2>1, <2>3, <2>4, KeepsCommitted, Zenon
<1>10. ASSUME NEW p \in Peers, ServeHeartbeat(p) PROVE PeerCommitted(q)'
  <2>1. UNCHANGED <<mailbox, boot>> BY <1>10, Zenon DEF ServeHeartbeat
  <2>2. CASE TaskEnds(p) /\ UNCHANGED <<online, toMember>>
    BY <1>2, <2>1, <2>2, Zenon DEF TaskEnds, TypeOK
  <2>3. CASE AnswerHeartbeat(p)
    <3>1. TakeOnline(p, online) BY <2>3, Zenon DEF AnswerHeartbeat
    <3>2. online \in [Peers -> Seq(Ids)] BY Zenon DEF TypeOK
    <3>q. QED BY <1>9, <2>1, <3>1, <3>2, Zenon DEF Pending
  <2>q. QED BY <1>10, <2>2, <2>3, Zenon DEF ServeHeartbeat
<1>11. ASSUME NEW p \in Peers, ServeSubmit(p) PROVE PeerCommitted(q)'
  <2>1. CASE TaskEnds(p) /\ UNCHANGED <<published, gates, toMember>>
    BY <1>2, <2>1, Zenon DEF TaskEnds, TypeOK, published
  <2>2. CASE CommitBody(Edit(p)) /\ AnswerSubmit(p)
    <3>1. Edit(p) \in Updates /\ Target(Edit(p)) \subseteq Peers
      BY Zenon DEF Edit, Updates, Target
    <3>2. /\ mailbox'[q] = MailboxAfter(Edit(p))[q] /\ NextControl = Len(history')
          /\ boot'[q] \in {boot[q], NoBoot}
      BY <2>2, SMTT(40) DEF CommitBody, NextControl, TypeOK
    <3>3. /\ \A i \in Elems(mailbox'[q]) : i \in Pending(q) \/ i <= Len(history')
          /\ \A i \in Elems(OnlineAfter(Edit(p))[q]) : i \in Pending(q) \/ i <= Len(history')
      <4>1. NextControl <= Len(history') BY <1>t, <3>2
      <4>2. Elems(online[q]) \subseteq Pending(q) BY Zenon DEF Pending
      <4>q. QED BY <2>2, <3>1, <3>2, <4>1, <4>2, CommitQueues, Zenon
    <3>4. CASE TakeOnline(p, OnlineAfter(Edit(p)))
      <4>1. OnlineAfter(Edit(p)) \in [Peers -> Seq(Ids)]
        BY <2>2, <3>1, TypeCommitBody, Zenon
      <4>q. QED BY <1>9, <1>t, <3>2, <3>3, <3>4, <4>1, Zenon
    <3>5. CASE TaskEnds(p) /\ online' = OnlineAfter(Edit(p)) /\ UNCHANGED toMember
      <4>1. batch'[q] \in {batch[q], << >>}
        BY <3>5, Zenon DEF TaskEnds, TypeOK
      <4>2. \A i \in Pending(q)' : i \in Pending(q) \/ i <= Len(history')
        BY <1>e, <1>t, <3>3, <3>5, <4>1, Zenon DEF Pending
      <4>q. QED BY <1>t, <3>2, <3>5, <4>2, KeepsCommitted, Zenon
    <3>q. QED BY <2>2, <3>4, <3>5, Zenon DEF AnswerSubmit
  <2>q. QED BY <1>11, <2>1, <2>2, Zenon DEF ServeSubmit
<1>12. ASSUME NEW p \in Peers, SendReply(p) PROVE PeerCommitted(q)'
  <2>1. /\ UNCHANGED <<mailbox, boot, online>>
        /\ toMember'[q] = IF q = p THEN Reply(batch[p]) ELSE toMember[q]
        /\ batch'[q] = IF q = p THEN << >> ELSE batch[q]
    BY <1>12, Zenon DEF SendReply, TypeOK, published
  <2>2. Reply(batch[p]).ids = batch[p] /\ Reply(batch[p]).boot = NoBoot
    BY MessageContents, Zenon
  <2>3. \A i \in Pending(q)' : i \in Pending(q)
    BY <1>e, <2>1, <2>2, Zenon DEF Pending
  <2>q. QED BY <1>t, <2>1, <2>2, <2>3, KeepsCommitted, Zenon
<1>13. ASSUME NEW p \in Peers,
              HostDrop(p) \/ HostNotices(p) \/ MemberDrop(p) \/ MemberNotices(p) \/ MemberRejectsFlush(p)
       PROVE  PeerCommitted(q)'
  <2>1. UNCHANGED published
    BY <1>13, Zenon DEF HostDrop, HostNotices, MemberDrop, MemberNotices, MemberRejectsFlush
  <2>2. \/ TaskEnds(p) /\ UNCHANGED toMember
        \/ toMember' = [toMember EXCEPT ![p] = Silence] /\ UNCHANGED batch
    BY <1>13, Zenon DEF HostDrop, HostNotices, MemberDrop, MemberNotices, MemberRejectsFlush, LinkEnds, task
  <2>q. QED BY <1>2, <2>1, <2>2 DEF TaskEnds, TypeOK, published
<1>14. ASSUME NEW p \in Peers, GoLive(p) PROVE PeerCommitted(q)'
  <2>1. UNCHANGED <<published, toMember>> /\ batch'[q] \in {batch[q], << >>}
    BY <1>14, SMTT(40) DEF GoLive, TaskEnds, TypeOK
  <2>q. QED BY <1>2, <2>1, Zenon DEF published
<1>15. ASSUME NEW p \in Peers,
              MemberFlush(p) \/ MemberWelcome(p) \/ MemberReply(p) \/ MemberReplyStops(p)
       PROVE  PeerCommitted(q)'
  <2>1. UNCHANGED <<published, batch>>
    BY <1>15, Zenon DEF MemberFlush, MemberWelcome, MemberReply, MemberReplyStops, task
  <2>2. toMember' = [toMember EXCEPT ![p] = Silence]
    BY <1>15, Zenon DEF MemberFlush, MemberWelcome, MemberReply, MemberReplyStops, LinkEnds
  <2>q. QED BY <1>2, <2>1, <2>2, Zenon DEF TypeOK, published
<1>16. ASSUME NEW p \in Peers, MemberHeartbeat(p) \/ MemberSubmit(p) \/ PresenceExpires(p)
       PROVE  PeerCommitted(q)'
  <2>1. UNCHANGED <<published, batch, toMember>>
    BY <1>16, Zenon DEF MemberHeartbeat, MemberSubmit, PresenceExpires, task, wire
  <2>q. QED BY <1>2, <2>1, Zenon DEF published
<1>17. CASE CommitFails \/ UNCHANGED vars
  <2>1. UNCHANGED <<published, batch, toMember>>
    BY <1>17, Zenon DEF CommitFails, task, wire, vars
  <2>q. QED BY <1>2, <2>1, Zenon DEF published
<1>q. QED
  BY <1>3, <1>4, <1>5, <1>6, <1>7, <1>8, <1>10, <1>11, <1>12, <1>13, <1>14, <1>15, <1>16, <1>17, Zenon
  DEF Next, Progress

-----------------------------------------------------------------------------
(***************************************************************************)
(* The flush in progress and the acknowledgements                          *)
(***************************************************************************)
FlushTrackedFor(p) ==
    /\ hpc[p] = "offered" => toMember[p].kind # "flush" /\ toHost[p].kind # "flushed"
    /\ hpc[p] = "sent" /\ toMember[p].kind = "flush" =>
          toMember[p].ids = prepared[p] /\ toMember[p].boot = preparedBoot[p]
    /\ hpc[p] = "sent" /\ toHost[p].kind = "flushed" =>
          preparedBoot[p] <= last[p] /\ \A i \in Elems(prepared[p]) : i <= last[p]

\* A step that leaves the task alone and sends no flush and no confirmation.
LEMMA FlushKept ==
    ASSUME TypeOK, TypeOK', FlushTracked, NEW p \in Peers, last[p] <= last'[p],
           hpc'[p] = hpc[p] \/ hpc'[p] \notin {"offered", "sent"},
           hpc'[p] = "sent" => prepared'[p] = prepared[p] /\ preparedBoot'[p] = preparedBoot[p],
           toMember'[p] = toMember[p] \/ toMember'[p].kind # "flush",
           toHost'[p] = toHost[p] \/ toHost'[p].kind # "flushed"
    PROVE  FlushTrackedFor(p)'
<1>1. /\ preparedBoot[p] \in Int /\ last[p] \in Nat /\ last'[p] \in Nat
      /\ Elems(prepared[p]) \subseteq Nat
  BY PeerNumbers, ElemsType, Zenon DEF TypeOK, Ids
<1>2. FlushTrackedFor(p)
  BY Zenon DEF FlushTracked, FlushTrackedFor
<1>3. hpc'[p] = "offered" => toMember'[p].kind # "flush" /\ toHost'[p].kind # "flushed"
  BY <1>2, Zenon DEF FlushTrackedFor
<1>4. hpc'[p] = "sent" /\ toMember'[p].kind = "flush" =>
        toMember'[p].ids = prepared'[p] /\ toMember'[p].boot = preparedBoot'[p]
  BY <1>2, Zenon DEF FlushTrackedFor
<1>5. ASSUME hpc'[p] = "sent", toHost'[p].kind = "flushed"
      PROVE  preparedBoot'[p] <= last'[p] /\ \A i \in Elems(prepared'[p]) : i <= last'[p]
  <2>1. preparedBoot[p] <= last[p] /\ \A i \in Elems(prepared[p]) : i <= last[p]
    BY <1>2, <1>5, Zenon DEF FlushTrackedFor
  <2>2. prepared'[p] = prepared[p] /\ preparedBoot'[p] = preparedBoot[p]
    BY <1>5, Zenon
  <2>q. QED BY <1>1, <2>1, <2>2, SMTT(40)
<1>q. QED BY <1>3, <1>4, <1>5, Zenon DEF FlushTrackedFor

\* Whatever interleaves with a flush, H's task and the member agree on it.
LEMMA FlushStep ==
    ASSUME TypeOK, InFlightCommitted, WatermarkExact, FlushTracked, [Next]_vars
    PROVE  FlushTracked'
<1>1. SUFFICES ASSUME NEW p \in Peers PROVE FlushTrackedFor(p)'
  BY <1>1, Zenon DEF FlushTracked, FlushTrackedFor
<1>t. TypeOK' /\ last[p] <= last'[p]
  BY TypeStep, ReplicaSteps, Zenon DEF Advances
<1>m. /\ Silence.kind = "none" /\ Welcome.kind = "welcome" /\ Quiet.kind = "none"
      /\ \A ids : Reply(ids).kind = "reply"
      /\ \A k, n : Says(k, n).kind = k
  BY MessageContents, Zenon
<1>2. ASSUME hpc'[p] = hpc[p] \/ hpc'[p] \notin {"offered", "sent"},
             hpc'[p] = "sent" => prepared'[p] = prepared[p] /\ preparedBoot'[p] = preparedBoot[p],
             toMember'[p] = toMember[p] \/ toMember'[p].kind # "flush",
             toHost'[p] = toHost[p] \/ toHost'[p].kind # "flushed"
      PROVE  FlushTrackedFor(p)'
  BY <1>t, <1>2, FlushKept, Zenon
<1>3. ASSUME NEW q \in Peers, TaskEnds(q), UNCHANGED toMember PROVE FlushTrackedFor(p)'
  <2>1. CASE q = p
    <3>1. hpc'[p] = "none" BY <1>3, <2>1, Zenon DEF TaskEnds, TypeOK
    <3>q. QED BY <3>1, Zenon DEF FlushTrackedFor
  <2>2. CASE q # p
    BY <1>2, <1>3, <2>2, Zenon DEF TaskEnds, ForgetFlush, TypeOK
  <2>q. QED BY <2>1, <2>2, Zenon
<1>4. CASE HostRestart
  BY <1>4, Zenon DEF HostRestart, FlushTrackedFor
<1>5. ASSUME NEW q \in Peers, Connect(q) PROVE FlushTrackedFor(p)'
  <2>1. CASE q = p
    BY <1>5, <1>m, <2>1, Zenon DEF Connect, TypeOK, FlushTrackedFor
  <2>2. CASE q # p
    BY <1>2, <1>5, <2>2, Zenon DEF Connect, TypeOK
  <2>q. QED BY <2>1, <2>2, Zenon
<1>6. ASSUME NEW q \in Peers, PrepareFlush(q) PROVE FlushTrackedFor(p)'
  <2>1. CASE SendFlush(q) /\ q # p
    BY <1>2, <2>1, Zenon DEF SendFlush, TypeOK
  <2>2. CASE SendFlush(q) /\ q = p
    <3>1. /\ prepared'[p] = mailbox[p] /\ preparedBoot'[p] = boot[p] /\ hpc'[p] = "sent"
          /\ toMember'[p] = Flush(mailbox[p], boot[p]) /\ toHost' = toHost
      BY <2>2, Zenon DEF SendFlush, TypeOK
    <3>2. toHost[p].kind # "flushed"
      BY <1>6, <2>2, Zenon DEF PrepareFlush, FlushTracked
    <3>3. Flush(mailbox[p], boot[p]).ids = mailbox[p] /\ Flush(mailbox[p], boot[p]).boot = boot[p]
      BY MessageContents, SMTT(40)
    <3>q. QED BY <3>1, <3>2, <3>3, Zenon DEF FlushTrackedFor
  <2>q. QED BY <1>3, <1>6, <2>1, <2>2, Zenon DEF PrepareFlush
<1>7. ASSUME NEW q \in Peers, MemberFlush(q) PROVE FlushTrackedFor(p)'
  <2>1. CASE q # p
    BY <1>2, <1>7, <2>1, Zenon DEF MemberFlush, TypeOK, task
  <2>2. CASE q = p
    <3>1. /\ toMember'[p] = Silence /\ toMember[p].kind = "flush"
          /\ UNCHANGED <<hpc, prepared, preparedBoot>>
      BY <1>7, <2>2, Zenon DEF MemberFlush, TypeOK, task
    <3>2. toMember[p].boot <= last'[p] /\ \A i \in Elems(toMember[p].ids) : i <= last'[p]
      BY <1>7, <2>2, FlushAdvances, Zenon
    <3>q. QED BY <1>m, <3>1, <3>2, Zenon DEF FlushTracked, FlushTrackedFor
  <2>q. QED BY <2>1, <2>2, Zenon
<1>8. ASSUME NEW q \in Peers, AcknowledgeFlush(q) PROVE FlushTrackedFor(p)'
  <2>1. CASE ClearMailbox(q)
    BY <1>2, <1>8, <1>m, <2>1, Zenon DEF ClearMailbox, ForgetFlush, AcknowledgeFlush, TypeOK
  <2>q. QED BY <1>3, <1>8, <2>1, Zenon DEF AcknowledgeFlush
<1>9. ASSUME NEW q \in Peers, SendWelcome(q) PROVE FlushTrackedFor(p)'
  BY <1>2, <1>9, <1>m, Zenon DEF SendWelcome, TypeOK
<1>10. ASSUME NEW q \in Peers, GoLive(q) PROVE FlushTrackedFor(p)'
  <2>1. CASE ~gate[q]
    BY <1>2, <1>10, <2>1, Zenon DEF GoLive, TypeOK
  <2>q. QED BY <1>3, <1>10, <2>1, Zenon DEF GoLive
<1>11. ASSUME NEW q \in Peers, NEW queues, TakeOnline(q, queues), UNCHANGED <<prepared, preparedBoot>>,
              hpc[q] = "live", toHost' = [toHost EXCEPT ![q] = Quiet]
       PROVE  FlushTrackedFor(p)'
  <2>1. toMember'[p] = toMember[p] \/ toMember'[p].kind # "flush"
    <3>1. UNCHANGED toMember \/ toMember' = [toMember EXCEPT ![q] = Reply(<< >>)]
      BY <1>11, Zenon DEF TakeOnline
    <3>2. Reply(<< >>).kind # "flush"
      BY MessageContents, SMTT(40)
    <3>q. QED BY <3>1, <3>2, Zenon DEF TypeOK
  <2>2. hpc'[p] = hpc[p] \/ hpc'[p] \notin {"offered", "sent"}
    BY <1>11, Zenon DEF TakeOnline, TypeOK
  <2>3. toHost'[p] = toHost[p] \/ toHost'[p].kind # "flushed"
    BY <1>11, <1>m, Zenon DEF TypeOK
  <2>q. QED BY <1>2, <1>11, <2>1, <2>2, <2>3, Zenon
<1>12. ASSUME NEW q \in Peers, ServeHeartbeat(q) PROVE FlushTrackedFor(p)'
  <2>1. CASE AnswerHeartbeat(q)
    BY <1>11, <1>12, <2>1, Zenon DEF AnswerHeartbeat, ServeHeartbeat
  <2>q. QED BY <1>3, <1>12, <2>1, Zenon DEF ServeHeartbeat
<1>13. ASSUME NEW q \in Peers, ServeSubmit(q) PROVE FlushTrackedFor(p)'
  <2>1. CASE AnswerSubmit(q)
    BY <1>3, <1>11, <1>13, <2>1, Zenon DEF AnswerSubmit, ServeSubmit
  <2>q. QED BY <1>3, <1>13, <2>1, Zenon DEF ServeSubmit
<1>14. ASSUME NEW q \in Peers, SendReply(q) PROVE FlushTrackedFor(p)'
  BY <1>2, <1>14, <1>m, Zenon DEF SendReply, TypeOK
<1>15. ASSUME NEW q \in Peers, HostDrop(q) \/ HostNotices(q) PROVE FlushTrackedFor(p)'
  BY <1>3, <1>15, Zenon DEF HostDrop, HostNotices
<1>16. ASSUME NEW q \in Peers,
              \/ MemberDrop(q) \/ MemberNotices(q) \/ MemberRejectsFlush(q) \/ MemberWelcome(q)
              \/ MemberReply(q) \/ MemberReplyStops(q)
       PROVE  FlushTrackedFor(p)'
  <2>1. UNCHANGED <<hpc, prepared, preparedBoot, toHost>>
    BY <1>16, Zenon DEF MemberDrop, MemberNotices, MemberRejectsFlush, MemberWelcome, MemberReply,
                 MemberReplyStops, task
  <2>2. toMember' = [toMember EXCEPT ![q] = Silence]
    BY <1>16, Zenon DEF MemberDrop, MemberNotices, MemberRejectsFlush, MemberWelcome, MemberReply,
                 MemberReplyStops, LinkEnds
  <2>q. QED BY <1>2, <1>m, <2>1, <2>2, Zenon DEF TypeOK
<1>17. ASSUME NEW q \in Peers, MemberHeartbeat(q) \/ MemberSubmit(q) PROVE FlushTrackedFor(p)'
  <2>1. UNCHANGED <<hpc, prepared, preparedBoot, toMember>>
    BY <1>17, Zenon DEF MemberHeartbeat, MemberSubmit, task
  <2>2. toHost'[p] = toHost[p] \/ toHost'[p].kind # "flushed"
    <3>1. \E n : \E k \in {"heartbeat", "submit"} : toHost' = [toHost EXCEPT ![q] = Says(k, n)]
      BY <1>17, Zenon DEF MemberHeartbeat, MemberSubmit
    <3>2. ASSUME NEW k, NEW n PROVE Says(k, n).kind = k BY MessageContents, Zenon
    <3>q. QED BY <3>1, <3>2, SMTT(40) DEF TypeOK
  <2>q. QED BY <1>2, <2>1, <2>2, Zenon
<1>18. ASSUME \/ \E u \in Updates : Commit(u)
              \/ CommitFails \/ (\E q \in Peers : PresenceExpires(q)) \/ UNCHANGED vars
       PROVE  FlushTrackedFor(p)'
  <2>1. UNCHANGED <<hpc, prepared, preparedBoot, toMember, toHost>>
    BY <1>18, Zenon DEF Commit, CommitFails, PresenceExpires, vars, task, wire
  <2>q. QED BY <1>2, <2>1, Zenon
<1>q. QED
  BY <1>4, <1>5, <1>6, <1>7, <1>8, <1>9, <1>10, <1>12, <1>13, <1>14, <1>15, <1>16, <1>17, <1>18, Zenon
  DEF Next, Progress

\* Every way H can come to record an acknowledgement is backed by the replica.
LEMMA AckStep ==
    ASSUME TypeOK, InFlightCommitted, WatermarkExact, FlushTracked, AckTracked, [Next]_vars
    PROVE  AckTracked'
<1>1. SUFFICES ASSUME NEW p \in Peers
               PROVE  /\ acked'[p] <= last'[p]
                      /\ toHost'[p].kind = "heartbeat" => toHost'[p].through <= last'[p]
  BY <1>1, Zenon DEF AckTracked
<1>t. /\ TypeOK' /\ last[p] <= last'[p] /\ last[p] \in Nat /\ last'[p] \in Nat /\ acked[p] \in Nat
      /\ toHost[p].through \in Nat
  <2>1. TypeOK' /\ last[p] <= last'[p]
    BY TypeStep, ReplicaSteps, Zenon DEF Advances
  <2>2. toHost[p].through \in Nat BY MessageFields, Zenon
  <2>3. last[p] \in Nat /\ acked[p] \in Nat /\ last'[p] \in Nat
    BY <2>1, Zenon DEF TypeOK
  <2>q. QED BY <2>1, <2>2, <2>3, Zenon
<1>a. acked[p] <= last[p] /\ (toHost[p].kind = "heartbeat" => toHost[p].through <= last[p])
  BY Zenon DEF AckTracked
<1>m. /\ Quiet.kind = "none" /\ \A k, n : Says(k, n).kind = k /\ Says(k, n).through = n
  BY MessageContents, SMTT(40)
<1>2. acked'[p] <= last'[p]
  <2>1. CASE acked'[p] = acked[p] \/ acked'[p] = 0
    BY <1>t, <1>a, <2>1
  <2>2. ASSUME NEW u \in Updates, CommitBody(u) PROVE acked'[p] = acked[p] \/ acked'[p] = 0
    BY <2>2, Zenon DEF CommitBody, AckedAfter
  <2>3. ASSUME NEW q \in Peers, Connect(q) PROVE acked'[p] = acked[p]
    BY <2>3, Zenon DEF Connect
  <2>4. ASSUME NEW q \in Peers, FlushUnchanged(q), ClearMailbox(q), AcknowledgeFlush(q)
        PROVE  acked'[p] <= last'[p]
    <3>1. CASE q # p BY <2>1, <2>4, <3>1, Zenon DEF ClearMailbox, TypeOK
    <3>2. CASE q = p
      <4>1. boot[p] <= last[p] /\ \A i \in Elems(mailbox[p]) : i <= last[p]
        BY <2>4, <3>2, Zenon DEF FlushUnchanged, AcknowledgeFlush, FlushTracked
      <4>2. Elems(mailbox[p]) \subseteq Nat /\ boot[p] \in Int
        BY ElemsType, PeerNumbers, Zenon DEF TypeOK, Ids
      <4>3. Highest(Elems(mailbox[p]), 0) \in Elems(mailbox[p]) \cup {0}
        BY <4>2, HighestProperties, Zenon
      <4>4. Highest(Elems(mailbox[p]), 0) \in Nat /\ Highest(Elems(mailbox[p]), 0) <= last[p]
        BY <1>t, <4>1, <4>2, <4>3, SMTT(40)
      <4>5. acked'[p] = Larger(acked[p], FlushedThrough(p))
        BY <2>4, <3>2, Zenon DEF ClearMailbox, TypeOK
      <4>q. QED BY <1>t, <1>a, <4>1, <4>2, <4>4, <4>5, SMTT(40) DEF FlushedThrough, Larger
    <3>q. QED BY <3>1, <3>2, Zenon
  <2>5. ASSUME NEW q \in Peers, AnswerHeartbeat(q), ServeHeartbeat(q)
        PROVE  acked'[p] <= last'[p]
    <3>1. CASE q # p BY <2>1, <2>5, <3>1, Zenon DEF AnswerHeartbeat, TypeOK
    <3>2. CASE q = p
      <4>1. acked'[p] = Larger(acked[p], toHost[p].through) /\ toHost[p].kind = "heartbeat"
        BY <2>5, <3>2, Zenon DEF AnswerHeartbeat, ServeHeartbeat, TypeOK
      <4>q. QED BY <1>t, <1>a, <4>1, SMTT(40) DEF Larger
    <3>q. QED BY <3>1, <3>2, Zenon
  <2>6. CASE UNCHANGED <<members, history, log, acked, boot>>
    BY <2>1, <2>6, Zenon
  <2>q. QED BY <2>1, <2>2, <2>3, <2>4, <2>5, <2>6, LogSteps, Zenon DEF vars, published
<1>3. ASSUME toHost'[p].kind = "heartbeat" PROVE toHost'[p].through <= last'[p]
  <2>1. CASE toHost'[p] = toHost[p]
    BY <1>t, <1>a, <1>3, <2>1, SMTT(40)
  <2>2. CASE toHost'[p] = Quiet
    BY <1>3, <1>m, <2>2, Zenon
  <2>3. ASSUME NEW q \in Peers, MemberHeartbeat(q) PROVE toHost'[p].through <= last'[p]
    <3>1. CASE q # p BY <2>1, <2>3, <3>1, Zenon DEF MemberHeartbeat, TypeOK
    <3>2. CASE q = p
      <4>1. toHost'[p] = Says("heartbeat", last[p])
        BY <2>3, <3>2, Zenon DEF MemberHeartbeat, TypeOK
      <4>q. QED BY <1>m, <1>t, <4>1
    <3>q. QED BY <3>1, <3>2, Zenon
  <2>4. ASSUME NEW q \in Peers, MemberSubmit(q) \/ MemberFlush(q) PROVE toHost'[p].through <= last'[p]
    <3>1. \E k \in {"submit", "flushed"} : toHost' = [toHost EXCEPT ![q] = Says(k, 0)]
      BY <2>4, Zenon DEF MemberSubmit, MemberFlush
    <3>2. CASE q # p BY <2>1, <3>1, <3>2, Zenon DEF TypeOK
    <3>3. CASE q = p
      <4>1. toHost'[p].kind # "heartbeat"
        BY <1>m, <3>1, <3>3, SMTT(40) DEF TypeOK
      <4>q. QED BY <1>3, <4>1, Zenon
    <3>q. QED BY <3>2, <3>3, Zenon
  <2>5. ASSUME NEW q \in Peers, toHost' = [toHost EXCEPT ![q] = Quiet]
        PROVE  toHost'[p].through <= last'[p]
    BY <2>1, <2>2, <2>5, Zenon DEF TypeOK
  <2>6. CASE UNCHANGED toHost
    BY <2>1, <2>6, Zenon
  <2>7. ASSUME NEW q \in Peers
        PROVE  \/ Connect(q) \/ PrepareFlush(q) \/ AcknowledgeFlush(q) \/ GoLive(q)
               \/ ServeHeartbeat(q) \/ ServeSubmit(q) \/ HostDrop(q) \/ HostNotices(q)
               => UNCHANGED toHost \/ toHost' = [toHost EXCEPT ![q] = Quiet]
    BY Zenon DEF Connect, PrepareFlush, SendFlush, AcknowledgeFlush, ClearMailbox, GoLive,
           ServeHeartbeat, AnswerHeartbeat, ServeSubmit, AnswerSubmit, HostDrop, HostNotices,
           TaskEnds
  <2>8. ASSUME NEW q \in Peers
        PROVE  \/ MemberRejectsFlush(q) \/ SendWelcome(q) \/ MemberWelcome(q) \/ SendReply(q)
               \/ MemberReply(q) \/ MemberReplyStops(q) \/ MemberNotices(q) \/ MemberDrop(q)
               \/ PresenceExpires(q)
               => UNCHANGED toHost
    BY Zenon DEF MemberRejectsFlush, SendWelcome, MemberWelcome, SendReply, MemberReply,
           MemberReplyStops, MemberNotices, MemberDrop, PresenceExpires, wire
  <2>9. (\E u \in Updates : Commit(u)) \/ CommitFails \/ UNCHANGED vars => UNCHANGED toHost
    BY Zenon DEF Commit, CommitFails, vars, wire
  <2>10. CASE HostRestart
    BY <2>2, <2>10, Zenon DEF HostRestart
  <2>q. QED BY <2>3, <2>4, <2>5, <2>6, <2>7, <2>8, <2>9, <2>10, Zenon DEF Next, Progress
<1>q. QED BY <1>2, <1>3, Zenon

LEMMA AckInit == Init => AckInv
<1> SUFFICES ASSUME Init PROVE AckInv BY Zenon
<1>1. TypeOK BY TypeInit, Zenon
<1>2. ASSUME NEW p \in Peers
      PROVE  /\ Pending(p) = {} /\ boot[p] = NoBoot /\ toMember[p].boot = NoBoot /\ last[p] = 0
             /\ rboot[p] = 0 /\ applied[p] = {} /\ hpc[p] = "none" /\ acked[p] = 0
             /\ toHost[p].kind = "none"
  <2>1. Silence.ids = << >> /\ Silence.boot = NoBoot /\ Quiet.kind = "none" /\ Elems(<< >>) = {}
    BY MessageContents, Zenon
  <2>2. toMember[p] = Silence /\ toHost[p] = Quiet BY Zenon DEF Init
  <2>3. Pending(p) = {} BY <2>1, <2>2, Zenon DEF Init, Pending
  <2>q. QED BY <2>1, <2>2, <2>3, Zenon DEF Init
<1>3. Len(history) = 0 /\ log = {} BY Zenon DEF Init
<1>4. InFlightCommitted BY <1>2, <1>3 DEF InFlightCommitted, Committed, NoBoot
<1>5. WatermarkExact BY <1>2 DEF WatermarkExact
<1>6. FlushTracked BY <1>2, Zenon DEF FlushTracked
<1>7. AckTracked BY <1>2, SMTT(40) DEF AckTracked
<1>q. QED BY <1>4, <1>5, <1>6, <1>7, Zenon DEF AckInv

LEMMA AckInvStep == TypeOK /\ AckInv /\ [Next]_vars => AckInv'
<1> SUFFICES ASSUME TypeOK, AckInv, [Next]_vars PROVE AckInv' BY Zenon
<1>1. WatermarkExact'
  BY ReplicaSteps, Zenon DEF AckInv, WatermarkExact, Advances
<1>q. QED BY <1>1, InFlightStep, FlushStep, AckStep, Zenon DEF AckInv

LEMMA AckInvariant == Spec => []AckInv
BY AckInit, AckInvStep, TypeCorrect, PTL DEF Spec

\* Whatever the interleaving of commits, flushes, heartbeats, lost connections
\* and restarts, H never records an acknowledgement for an instruction that the
\* member's replica has not durably applied.
THEOREM AckNeverAhead == Spec => []AckSound
<1>1. TypeOK /\ AckInv => AckSound
  BY Zenon DEF TypeOK, AckInv, AckTracked, AckSound
<1>q. QED BY <1>1, AckInvariant, TypeCorrect, PTL

\* Denials only accumulate: an applied Kick adds one, and a welcome or a reply
\* that forgets one is refused.
LEMMA DenialsKept ==
    ASSUME TypeOK, [Next]_vars, NEW p \in Peers
    PROVE  rdenied[p] \subseteq rdenied'[p]
<1>1. CASE rdenied'[p] = rdenied[p]
  BY <1>1, Zenon
<1>2. ASSUME NEW q \in Peers, NEW D, rdenied[q] \subseteq D, rdenied' = [rdenied EXCEPT ![q] = D]
      PROVE  rdenied[p] \subseteq rdenied'[p]
  BY <1>2, Zenon DEF TypeOK
<1>3. ASSUME NEW q \in Peers, MemberFlush(q) PROVE rdenied[p] \subseteq rdenied'[p]
  <2>1. rdenied' = [rdenied EXCEPT ![q] = DeniedAfter(FlushNew(q), rdenied[q])]
    BY <1>3, Zenon DEF MemberFlush
  <2>q. QED BY <1>2, <2>1, Zenon DEF DeniedAfter
<1>4. ASSUME NEW q \in Peers, MemberWelcome(q) PROVE rdenied[p] \subseteq rdenied'[p]
  <2>1. CASE UNCHANGED rdenied BY <1>1, <2>1, Zenon
  <2>2. CASE Reconciles(q, rdenied[q], toMember[q]) /\ rdenied' = [rdenied EXCEPT ![q] = toMember[q].denied]
    BY <1>2, <2>2, Zenon DEF Reconciles
  <2>q. QED BY <1>4, <2>1, <2>2, Zenon DEF MemberWelcome
<1>5. ASSUME NEW q \in Peers, MemberReply(q) PROVE rdenied[p] \subseteq rdenied'[p]
  <2>1. rdenied[q] \subseteq toMember[q].denied
    BY <1>5, Zenon DEF MemberReply, ReplyAccepts, Reconciles, DeniedAfter
  <2>2. rdenied' = [rdenied EXCEPT ![q] = toMember[q].denied]
    BY <1>5, Zenon DEF MemberReply
  <2>q. QED BY <1>2, <2>1, <2>2, Zenon
<1>6. ASSUME NEW q \in Peers, MemberReplyStops(q) PROVE rdenied[p] \subseteq rdenied'[p]
  <2>1. PICK k : rdenied' = [rdenied EXCEPT ![q] = DeniedAfter(ReplyNew(q, k), rdenied[q])]
    BY <1>6, Zenon DEF MemberReplyStops
  <2>q. QED BY <1>2, <2>1, Zenon DEF DeniedAfter
<1>7. (\E u \in Updates : Commit(u)) \/ CommitFails \/ HostRestart \/ UNCHANGED vars
      => UNCHANGED rdenied
  BY Zenon DEF Commit, CommitFails, HostRestart, vars, replica
<1>8. ASSUME NEW q \in Peers
      PROVE  \/ Connect(q) \/ PrepareFlush(q) \/ MemberRejectsFlush(q) \/ AcknowledgeFlush(q)
             \/ SendWelcome(q) \/ GoLive(q) \/ MemberHeartbeat(q)
             \/ MemberSubmit(q) \/ ServeHeartbeat(q) \/ ServeSubmit(q) \/ SendReply(q)
             \/ HostNotices(q) \/ MemberNotices(q) \/ HostDrop(q) \/ MemberDrop(q)
             \/ PresenceExpires(q)
             => UNCHANGED rdenied
  BY Zenon DEF Connect, PrepareFlush, MemberRejectsFlush, AcknowledgeFlush, SendWelcome, GoLive,
         MemberHeartbeat, MemberSubmit, ServeHeartbeat, ServeSubmit, SendReply,
         HostNotices, MemberNotices, HostDrop, MemberDrop, PresenceExpires, replica
<1>q. QED BY <1>1, <1>3, <1>4, <1>5, <1>6, <1>7, <1>8, Zenon DEF Next, Progress

\* No sequence of reconnects, redeliveries and restarts makes a replica re-apply
\* an instruction, go back in the history, or forget a denial.
THEOREM ReplicaMonotone == Spec => ReplicaOnlyAdvances
<1> DEFINE Step == \A p \in Peers : /\ last[p] <= last'[p]
                                    /\ applied[p] \subseteq applied'[p]
                                    /\ \A i \in applied'[p] \ applied[p] : i > last[p]
                                    /\ rdenied[p] \subseteq rdenied'[p]
<1>1. TypeOK /\ TypeOK' /\ AckInv /\ [Next]_vars => [Step]_vars
  <2> SUFFICES ASSUME TypeOK, TypeOK', AckInv, [Next]_vars PROVE Step BY Zenon
  <2>1. \A p \in Peers : Advances(p) BY ReplicaSteps, Zenon DEF AckInv
  <2>2. \A p \in Peers : last[p] \in Nat /\ applied'[p] \subseteq Nat BY Zenon DEF TypeOK, Ids
  <2>3. \A p \in Peers : rdenied[p] \subseteq rdenied'[p] BY DenialsKept, Zenon
  <2>q. QED BY <2>1, <2>2, <2>3, Zenon DEF Advances
<1>q. QED BY <1>1, AckInvariant, TypeCorrect, PTL DEF Spec, ReplicaOnlyAdvances

\* The flush gate: whoever commits, fails, restarts or reconnects, a member with
\* a waiting mailbox gets no live traffic.
THEOREM FlushGate == Spec => []MailboxGated
<1>1. Init => MailboxGated
  BY SMTT(40) DEF Init, MailboxGated
<1>2. TypeOK /\ TypeOK' /\ MailboxGated /\ [Next]_vars => MailboxGated'
  <2> SUFFICES ASSUME TypeOK, TypeOK', MailboxGated, [Next]_vars, NEW p \in Peers, mailbox'[p] # << >>
               PROVE  gate'[p]
    BY Zenon DEF MailboxGated
  <2>g. mailbox[p] # << >> => gate[p] BY Zenon DEF MailboxGated
  <2>1. CASE UNCHANGED <<mailbox, gate>> BY <2>1, <2>g, Zenon
  <2>2. ASSUME NEW u \in Updates, CommitBody(u) PROVE gate'[p]
    <3>1. mailbox' = MailboxAfter(u) /\ gate' = GateAfter(u)
      BY <2>2, Zenon DEF CommitBody
    <3>2. CASE p \in Target(u)
      BY <3>1, <3>2, Zenon DEF MailboxAfter, Recipients
    <3>3. CASE p \notin Target(u) /\ p \in Recipients(u) /\ ~Live(p)
      BY <3>1, <3>3, Zenon DEF GateAfter
    <3>4. CASE p \notin Target(u) /\ ~(p \in Recipients(u) /\ ~Live(p))
      <4>1. mailbox'[p] = mailbox[p] BY <3>1, <3>4, Zenon DEF MailboxAfter
      <4>q. QED BY <3>1, <3>4, <4>1, Zenon DEF GateAfter
    <3>q. QED BY <3>2, <3>3, <3>4, Zenon
  <2>3. CASE CommitFails BY <2>3, <2>g, Zenon DEF CommitFails, published
  <2>4. CASE HostRestart BY <2>4, Zenon DEF HostRestart
  <2>5. ASSUME NEW q \in Peers, Connect(q) PROVE gate'[p]
    <3>1. CASE q = p BY <2>5, <2>g, <3>1, Zenon DEF Connect, TypeOK
    <3>2. CASE q # p
      <4>1. mailbox'[p] = mailbox[p] BY <2>5, <3>2, Zenon DEF Connect, TypeOK
      <4>q. QED BY <2>5, <2>g, <4>1, Zenon DEF Connect
    <3>q. QED BY <3>1, <3>2, Zenon
  <2>6. ASSUME NEW q \in Peers, PrepareFlush(q) PROVE gate'[p]
    BY <2>6, <2>g, Zenon DEF PrepareFlush, published, TypeOK
  <2>7. ASSUME NEW q \in Peers, ClearMailbox(q) PROVE gate'[p]
    BY <2>7, <2>g, Zenon DEF ClearMailbox, TypeOK
  <2>8. ASSUME NEW q \in Peers, AcknowledgeFlush(q) PROVE gate'[p]
    BY <2>1, <2>7, <2>8, Zenon DEF AcknowledgeFlush, TaskEnds, published
  <2>9. ASSUME NEW q \in Peers, ServeSubmit(q) PROVE gate'[p]
    <3>1. CASE CommitBody(Edit(q))
      <4>1. Edit(q) \in Updates BY Zenon DEF Updates, Edit
      <4>q. QED BY <2>2, <3>1, <4>1, Zenon
    <3>2. CASE UNCHANGED <<mailbox, gate>> BY <2>1, <3>2, Zenon
    <3>q. QED BY <2>9, <3>1, <3>2, Zenon DEF ServeSubmit, published, gates
  <2>10. (\E u \in Updates : Commit(u)) => gate'[p]
    BY <2>2, Zenon DEF Commit
  <2>11. ASSUME NEW q \in Peers
         PROVE  \/ MemberFlush(q) \/ MemberRejectsFlush(q) \/ SendWelcome(q) \/ GoLive(q)
                \/ MemberWelcome(q) \/ MemberHeartbeat(q) \/ MemberSubmit(q) \/ ServeHeartbeat(q)
                \/ SendReply(q) \/ MemberReply(q) \/ MemberReplyStops(q)
                \/ HostNotices(q) \/ MemberNotices(q) \/ HostDrop(q) \/ MemberDrop(q)
                \/ PresenceExpires(q)
                => UNCHANGED <<mailbox, gate>>
    BY Zenon DEF MemberFlush, MemberRejectsFlush, SendWelcome, GoLive, MemberWelcome, MemberHeartbeat,
           MemberSubmit, ServeHeartbeat, AnswerHeartbeat, SendReply, MemberReply,
           MemberReplyStops, HostNotices, MemberNotices, HostDrop, MemberDrop, PresenceExpires,
           published, gates
  <2>12. CASE UNCHANGED vars BY <2>1, <2>12, Zenon DEF vars, published, gates
  <2>q. QED
    BY <2>1, <2>3, <2>4, <2>5, <2>6, <2>8, <2>9, <2>10, <2>11, <2>12, Zenon DEF Next, Progress
<1>q. QED BY <1>1, <1>2, TypeCorrect, PTL DEF Spec
=============================================================================
