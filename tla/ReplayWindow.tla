---------------------------- MODULE ReplayWindow ----------------------------
(***************************************************************************)
(* One direction of one pair key, for one payload type: the send counter   *)
(* of PairKeyState and the receiver's ReplayWindowState, with packets that *)
(* arrive late, out of order, more than once or never (crypto/aead.rs,     *)
(* protocol/packet.rs).  Every (peer, epoch, direction, payload type) has  *)
(* a window of its own.                                                    *)
(***************************************************************************)
EXTENDS Integers

CONSTANTS
    W,        \* REPLAY_WINDOW_SIZE
    MaxSeq    \* the largest counter value, u64::MAX

ASSUME WindowAssumption == W \in Nat \ {0}
ASSUME CounterAssumption == MaxSeq \in Nat \ {0}

VARIABLES
    last,     \* send_packet or send_chunk; 0 before the first packet
    wire,     \* sealed packets that may still arrive, any number of times
    highest,  \* highest_seen; 0 for None (counters start at 1)
    seen,     \* the bits of ReplayWindowState, as distances from highest
    times     \* how often open returned the plaintext of each packet

vars == <<last, wire, highest, seen, times>>

Seqs == 1 .. MaxSeq

-----------------------------------------------------------------------------
\* next_outbound_seq and reserve_send; an exhausted counter seals no more.
Seal ==
    /\ last < MaxSeq
    /\ last' = last + 1
    /\ wire' = wire \cup {last + 1}
    /\ UNCHANGED <<highest, seen, times>>

Lose(s) ==
    /\ s \in wire
    /\ wire' = wire \ {s}
    /\ UNCHANGED <<last, highest, seen, times>>

\* Bug: the window is one packet wider than its bits.
Bug_CheckOneWider(s) ==
    \/ s > highest
    \/ highest - s <= W /\ highest - s \notin seen

\* ReplayWindowState::check
Check(s) ==
    \/ s > highest
    \/ highest - s < W /\ highest - s \notin seen

\* Bug: bits that leave the window come to lie on its last place.
Bug_ShiftClamps(advance) ==
    {IF d + advance < W THEN d + advance ELSE W - 1 : d \in seen}

\* Bug: a bit is kept one place beyond the window.
Bug_ShiftOneMore(advance) == {d + advance : d \in {e \in seen : e + advance <= W}}

\* ReplayWindowState::shift
Shift(advance) == {d + advance : d \in {e \in seen : e + advance < W}}

\* Bug: a packet that is older than the highest one leaves no trace.
Bug_AcceptNewestOnly(s) ==
    IF s > highest
    THEN highest' = s /\ seen' = Shift(s - highest) \cup {0}
    ELSE UNCHANGED <<highest, seen>>

\* ReplayWindowState::accept
Accept(s) ==
    IF s > highest
    THEN highest' = s /\ seen' = Shift(s - highest) \cup {0}
    ELSE seen' = seen \cup {highest - s} /\ UNCHANGED highest

\* open: check, decrypt, accept, under one borrow of the key state.  A packet
\* that check refuses, or that does not decrypt, changes nothing.
Open(s) ==
    /\ s \in wire
    /\ Check(s)
    /\ Accept(s)
    /\ times' = [times EXCEPT ![s] = @ + 1]
    /\ UNCHANGED <<last, wire>>

-----------------------------------------------------------------------------
Init ==
    /\ last = 0 /\ wire = {}
    /\ highest = 0 /\ seen = {}
    /\ times = [s \in Seqs |-> 0]

Next == Seal \/ \E s \in Seqs : Lose(s) \/ Open(s)

Spec == Init /\ [][Next]_vars

-----------------------------------------------------------------------------
(***************************************************************************)
(* Properties                                                              *)
(***************************************************************************)

\* Every variable keeps its type: seen has no bit outside the window.
TypeOK ==
    /\ last \in 0 .. MaxSeq /\ wire \subseteq 1 .. last
    /\ highest \in 0 .. last
    /\ seen \subseteq 0 .. W - 1
    /\ times \in [Seqs -> Nat]

\* open returns the plaintext of a packet at most once, in whatever order and
\* however often copies of it arrive.
OpenedOnce == \A s \in Seqs : times[s] <= 1

\* No packet within the window is lost to the replay check: one that has not
\* been opened passes check as long as it is less than W behind the highest.
FreshPasses == \A s \in wire : times[s] = 0 /\ highest - s < W => Check(s)

\* The bits are exactly the packets of the window that have been opened, and
\* nothing above highest_seen has been.
WindowExact ==
    /\ \A d \in 0 .. W - 1 : d \in seen <=> (highest - d >= 1 /\ times[highest - d] > 0)
    /\ \A s \in Seqs : s > highest => times[s] = 0
=============================================================================
