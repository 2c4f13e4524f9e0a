------------------------- MODULE ReplayWindowProofs -------------------------
(***************************************************************************)
(* Proofs about ReplayWindow for every window size and counter width.      *)
(***************************************************************************)
EXTENDS ReplayWindow, TLAPS

\* Under WindowExact, a packet that passes check has not been opened.
LEMMA CheckedIsFresh ==
    ASSUME TypeOK, WindowExact, NEW s \in wire, Check(s)
    PROVE  s \in Seqs /\ times[s] = 0
<1>1. s \in Seqs /\ s \in Int /\ s >= 1
  BY CounterAssumption DEF TypeOK, Seqs
<1>2. CASE s > highest
  BY <1>1, <1>2 DEF WindowExact
<1>3. CASE s <= highest
  <2>1. highest - s \in 0 .. W - 1 /\ highest - s \notin seen
    BY <1>1, <1>3, WindowAssumption DEF Check, TypeOK
  <2>2. highest - (highest - s) = s
    BY <1>1 DEF TypeOK
  <2>3. ~(times[s] > 0)
    BY <1>1, <2>1, <2>2 DEF WindowExact
  <2> QED
    BY <1>1, <2>3 DEF TypeOK
<1> QED
  BY <1>1, <1>2, <1>3 DEF TypeOK

\* Sealing, losing and opening packets preserve the type invariant.
LEMMA TypeStep == TypeOK /\ [Next]_vars => TypeOK'
<1> SUFFICES ASSUME TypeOK, [Next]_vars
             PROVE  TypeOK'
  OBVIOUS
<1> USE WindowAssumption, CounterAssumption DEF TypeOK, Seqs
<1>1. CASE Seal
  BY <1>1 DEF Seal
<1>2. ASSUME NEW s \in Seqs, Lose(s)
      PROVE  TypeOK'
  BY <1>2 DEF Lose
<1>3. ASSUME NEW s \in Seqs, Open(s)
      PROVE  TypeOK'
  <2>1. s \in 1 .. last /\ last' = last /\ wire' = wire
    BY <1>3 DEF Open
  <2>2. times' \in [Seqs -> Nat]
    BY <1>3 DEF Open
  <2>3. highest' \in 0 .. last'
    BY <1>3, <2>1 DEF Open, Accept
  <2>4. seen' \subseteq 0 .. W - 1
    <3>1. CASE s > highest
      <4>1. seen' = Shift(s - highest) \cup {0}
        BY <1>3, <3>1 DEF Open, Accept
      <4>2. Shift(s - highest) \subseteq 0 .. W - 1
        BY <2>1, <3>1 DEF Shift
      <4> QED
        BY <4>1, <4>2
    <3>2. CASE s <= highest
      <4>1. highest - s \in 0 .. W - 1
        BY <1>3, <2>1, <3>2 DEF Open, Check
      <4>2. seen' = seen \cup {highest - s}
        BY <1>3, <2>1, <3>2 DEF Open, Accept
      <4> QED
        BY <4>1, <4>2
    <3> QED
      BY <2>1, <3>1, <3>2
  <2> QED
    BY <2>1, <2>2, <2>3, <2>4
<1>4. CASE UNCHANGED vars
  BY <1>4 DEF vars
<1> QED
  BY <1>1, <1>2, <1>3, <1>4 DEF Next

\* The window keeps describing exactly what has been opened.
LEMMA WindowStep == TypeOK /\ WindowExact /\ [Next]_vars => WindowExact'
<1> SUFFICES ASSUME TypeOK, WindowExact, [Next]_vars
             PROVE  WindowExact'
  OBVIOUS
<1>1. CASE UNCHANGED <<highest, seen, times>>
  BY <1>1 DEF WindowExact
<1>2. ASSUME NEW s \in Seqs, Open(s)
      PROVE  WindowExact'
  <2>1. /\ MaxSeq \in Nat /\ W \in Nat \ {0}
        /\ s \in 1 .. MaxSeq /\ highest \in 0 .. MaxSeq
    BY WindowAssumption, CounterAssumption DEF TypeOK, Seqs
  <2>2. \A r \in Seqs : times'[r] = IF r = s THEN times[s] + 1 ELSE times[r]
    BY <1>2 DEF Open, TypeOK
  <2>3. times[s] = 0 /\ times'[s] > 0
    BY <1>2, <2>2, CheckedIsFresh DEF Open, TypeOK
  <2>4. CASE s > highest
    <3>1. highest' = s /\ seen' = Shift(s - highest) \cup {0}
      BY <1>2, <2>4 DEF Open, Accept
    <3>2. \A r \in Seqs : r > s => times'[r] = 0
      BY <2>1, <2>2, <2>4 DEF WindowExact, Seqs
    <3>3. ASSUME NEW d \in 0 .. W - 1
          PROVE  d \in seen' <=> (s - d >= 1 /\ times'[s - d] > 0)
      <4>1. CASE d = 0
        BY <2>1, <2>3, <3>1, <4>1
      <4>2. CASE d > 0 /\ d < s - highest
        <5>1. d \notin seen'
          BY <2>1, <3>1, <4>2 DEF Shift, TypeOK
        <5>2. s - d >= 1 => s - d \in Seqs /\ s - d > highest /\ s - d # s
          BY <2>1, <4>2 DEF Seqs
        <5> QED
          BY <2>2, <5>1, <5>2 DEF WindowExact
      <4>3. CASE d >= s - highest
        <5> DEFINE e == d - (s - highest)
        <5>1. e \in 0 .. W - 1 /\ highest - e = s - d /\ d = e + (s - highest)
          BY <2>1, <2>4, <4>3
        <5>2. d \in seen' <=> e \in seen
          BY <2>1, <2>4, <3>1, <4>3, <5>1 DEF Shift, TypeOK
        <5>3. e \in seen <=> (s - d >= 1 /\ times[s - d] > 0)
          BY <5>1 DEF WindowExact
        <5>4. s - d >= 1 => s - d \in Seqs /\ s - d # s
          BY <2>1, <2>4, <4>3 DEF Seqs
        <5> QED
          BY <2>2, <5>2, <5>3, <5>4
      <4> QED
        BY <2>1, <4>1, <4>2, <4>3
    <3> QED
      BY <3>1, <3>2, <3>3 DEF WindowExact
  <2>5. CASE s <= highest
    <3>1. highest' = highest /\ seen' = seen \cup {highest - s}
      BY <1>2, <2>1, <2>5 DEF Open, Accept
    <3>2. \A r \in Seqs : r > highest => times'[r] = 0
      BY <2>1, <2>2, <2>5 DEF WindowExact, Seqs
    <3>3. ASSUME NEW d \in 0 .. W - 1
          PROVE  d \in seen' <=> (highest - d >= 1 /\ times'[highest - d] > 0)
      <4>1. CASE d = highest - s
        <5>1. highest - d = s
          BY <2>1, <4>1
        <5> QED
          BY <2>1, <2>3, <3>1, <4>1, <5>1
      <4>2. CASE d # highest - s
        <5>1. highest - d >= 1 => highest - d \in Seqs /\ highest - d # s
          BY <2>1, <4>2 DEF Seqs
        <5>2. d \in seen' <=> d \in seen
          BY <3>1, <4>2
        <5>3. d \in seen <=> (highest - d >= 1 /\ times[highest - d] > 0)
          BY DEF WindowExact
        <5> QED
          BY <2>2, <5>1, <5>2, <5>3
      <4> QED
        BY <4>1, <4>2
    <3> QED
      BY <3>1, <3>2, <3>3 DEF WindowExact
  <2> QED
    BY <2>1, <2>4, <2>5
<1> QED
  BY <1>1, <1>2 DEF Next, Seal, Lose, vars

\* A packet is opened only when it has not been opened before.
LEMMA OnceStep == TypeOK /\ WindowExact /\ OpenedOnce /\ [Next]_vars => OpenedOnce'
<1> SUFFICES ASSUME TypeOK, WindowExact, OpenedOnce, [Next]_vars
             PROVE  OpenedOnce'
  OBVIOUS
<1>1. CASE UNCHANGED times
  BY <1>1 DEF OpenedOnce
<1>2. ASSUME NEW s \in Seqs, Open(s)
      PROVE  OpenedOnce'
  <2>1. times[s] = 0
    BY <1>2, CheckedIsFresh DEF Open
  <2> QED
    BY <1>2, <2>1 DEF Open, OpenedOnce, TypeOK
<1> QED
  BY <1>1, <1>2 DEF Next, Seal, Lose, vars

\* The sender's counter and the receiver's window keep their types: the
\* window never has a bit for a packet W or more behind highest_seen.
THEOREM WindowTypeCorrect == Spec => []TypeOK
<1>1. Init => TypeOK
  BY WindowAssumption, CounterAssumption DEF Init, TypeOK, Seqs
<1> QED
  BY <1>1, TypeStep, PTL DEF Spec

\* The bits of the window are exactly the opened packets within it.
THEOREM WindowIsExact == Spec => []WindowExact
<1>1. Init => WindowExact
  BY WindowAssumption, CounterAssumption DEF Init, WindowExact, Seqs
<1> QED
  BY <1>1, WindowStep, WindowTypeCorrect, PTL DEF Spec

\* RustCryptoAes256Gcm::open returns no packet's plaintext twice, for every
\* window size, whatever is duplicated, reordered or delayed.
THEOREM NeverOpenedTwice == Spec => []OpenedOnce
<1>1. Init => OpenedOnce
  BY CounterAssumption DEF Init, OpenedOnce, Seqs
<1> QED
  BY <1>1, OnceStep, WindowTypeCorrect, WindowIsExact, PTL DEF Spec

\* An unopened packet less than W behind the highest one is never refused.
THEOREM FreshAlwaysPasses == Spec => []FreshPasses
<1>1. TypeOK /\ WindowExact => FreshPasses
  <2> SUFFICES ASSUME TypeOK, WindowExact, NEW s \in wire, times[s] = 0, highest - s < W
               PROVE  Check(s)
    BY DEF FreshPasses
  <2>1. s \in Int /\ s >= 1 /\ highest \in Nat /\ W \in Nat
    BY WindowAssumption, CounterAssumption DEF TypeOK
  <2>2. CASE s <= highest
    <3>1. highest - s \in 0 .. W - 1 /\ highest - (highest - s) = s
      BY <2>1, <2>2
    <3> QED
      BY <3>1 DEF WindowExact, Check
  <2> QED
    BY <2>1, <2>2 DEF Check
<1> QED
  BY <1>1, WindowTypeCorrect, WindowIsExact, PTL
=============================================================================
