----------------------------- MODULE JoinCodes ------------------------------
(***************************************************************************)
(* One hosted vault and the directory service that maps join codes to it:  *)
(* publishing at start, the republish loop, ROTATE_CODE and KICK (which    *)
(* rotate the code the same way), FORGET_VAULT, and the short code STATUS  *)
(* prints (net/join.rs, net/directory.rs, net/admin.rs, daemon.rs).        *)
(*                                                                         *)
(* Every call to the directory is one TCP exchange with a deadline: the    *)
(* request may be lost, refused, applied without the caller hearing of it, *)
(* or applied after the caller gave up.  Between the exchanges of one      *)
(* operation other operations of the host run.                             *)
(*                                                                         *)
(* Timestamps are relative to the clock that host and directory share: 0   *)
(* is now, and a tick takes 1 from every timestamp.  Floor stands for      *)
(* every time too old to count, an entry that is absent included: the      *)
(* directory prunes expired entries before it looks at any.                *)
(***************************************************************************)
EXTENDS Integers, Sequences, FiniteSets

CONSTANTS
    Codes,      \* join codes a host may mint, each of them once
    First,      \* the code the vault was created with
    Admins,     \* connections to the admin port
    Age,        \* MAX_AD_AGE_SECS
    Skew,       \* MAX_FUTURE_SKEW_SECS
    Deadline,   \* DIRECTORY_DEADLINE
    Interval,   \* ticks between two rounds of the republish loop
    MaxAds,     \* MAX_ADS_PER_PEER
    MaxFaults   \* bound: lost, late and unheard exchanges, failed commits, crashes

ASSUME CodesAssumption == First \in Codes
ASSUME TimesAssumption ==
    {Age, Skew, Deadline, Interval, MaxAds, MaxFaults} \subseteq Nat /\ Deadline < Age

VARIABLES
    code, stamp,   \* admission: join_code and issued_at, durable
    short,         \* the code whose short form is in app-meta, durable
    installed,     \* the codes admission has had
    phase,         \* of the vault's host
    due,           \* ticks since the republish loop went to sleep
    failing,       \* the loop counts the vault as unreachable
    calls,         \* the operation each task is in
    wire,          \* requests on their way to the directory
    ads, mark,     \* the directory's ads and the vault's watermark
    failed,        \* DirectoryStore.failed
    stale,         \* an ad or the watermark has expired and is still in the file
    retired,       \* codes an operation that returned Ok had forgotten
    faults

host      == <<code, stamp, short, installed, phase, due, failing>>
directory == <<ads, mark, failed, stale>>
vars      == <<host, calls, wire, directory, retired, faults>>

Loop  == "loop"
Tasks == Admins \cup {Loop}
Floor == -(Age + 1)

Put(c, t)    == [kind |-> "put", code |-> c, at |-> t]
Forget(c, t) == [kind |-> "forget", code |-> c, at |-> t]

\* An operation, the requests it has left (the first of them sent), how long
\* it has waited, and what the directory answered.
Call(kind, c, todo) == [kind |-> kind, code |-> c, todo |-> todo, wait |-> 0, answer |-> "none"]
Idle                == Call("idle", First, <<>>)

Routed(c) == ads[c] > Floor
Routes    == {c \in Codes : Routed(c)}

Later(a, b) == IF a < b THEN b ELSE a

Fault == faults < MaxFaults /\ faults' = faults + 1

\* Bug: issued_at counts publications and does not follow the clock.
Bug_NextStampNoClock == stamp + 1

\* unix_time()?.max(issued_at + 1)
NextStamp == Later(0, stamp + 1)

Begin(task, call) ==
    /\ calls[task] = Idle
    /\ calls' = [calls EXCEPT ![task] = call]
    /\ wire' = wire \cup {[task |-> task, request |-> call.todo[1]]}

-----------------------------------------------------------------------------
(***************************************************************************)
(* Operations of the host, up to their first await                         *)
(***************************************************************************)

\* run_inner and publish: the stamp is recorded only when the put returns.
Start ==
    /\ phase = "down"
    /\ phase' = "starting"
    /\ Begin(Loop, Call("publish", code, <<Put(code, NextStamp)>>))
    /\ UNCHANGED <<code, stamp, short, installed, due, failing, directory, retired, faults>>

\* republish: set_admission records the stamp before the put, and fails once
\* the host has stopped.
Republish ==
    /\ due = Interval /\ calls[Loop] = Idle
    /\ due' = 0
    /\ \/ /\ phase = "up"
          /\ stamp' = NextStamp
          /\ Begin(Loop, Call("republish", code, <<Put(code, NextStamp)>>))
          /\ UNCHANGED failing
       \/ /\ phase = "stopped"
          /\ failing' = TRUE
          /\ UNCHANGED <<stamp, calls, wire>>
    /\ UNCHANGED <<code, short, installed, phase, directory, retired, faults>>

\* The ad of the new code and, one later, the forget of the old one.
Rotation(c) == <<Put(c, NextStamp), Forget(code, NextStamp + 1)>>

\* Bug: the stamps are recorded and the new code is advertised, but never
\* installed in admission.
Bug_RotateNotInstalled(task, c) ==
    /\ phase = "up" /\ c \notin installed
    /\ stamp' = NextStamp + 1
    /\ Begin(task, Call("rotate", c, Rotation(c)))
    /\ UNCHANGED <<code, installed, short, phase, due, failing, directory, retired, faults>>

\* rotate_code_with and kick_with_code: the new code and both stamps are
\* durable before any directory I/O.
Rotate(task, c) ==
    /\ phase = "up" /\ c \notin installed
    /\ code' = c
    /\ installed' = installed \cup {c}
    /\ stamp' = NextStamp + 1
    /\ Begin(task, Call("rotate", c, Rotation(c)))
    /\ UNCHANGED <<short, phase, due, failing, directory, retired, faults>>

\* forget_vault: the host stops, its stamp is not recorded.
ForgetVault(task) ==
    /\ phase \in {"up", "stopped"}
    /\ phase' = "stopped"
    /\ Begin(task, Call("forget", code, <<Forget(code, NextStamp)>>))
    /\ UNCHANGED <<code, stamp, short, installed, due, failing, directory, retired, faults>>

-----------------------------------------------------------------------------
(***************************************************************************)
(* What follows the answer, or the deadline                                *)
(***************************************************************************)
PublishReturns(call, ok) ==
    /\ phase' = "up"
    /\ stamp' = IF ok THEN call.todo[1].at ELSE stamp
    /\ failing' = ~ok
    /\ UNCHANGED <<code, short, installed, due, retired>>

\* The loop passes over Error::ReplayRejected, but a directory that refuses a
\* put closes the connection without an answer, an I/O error to its client.
RepublishReturns(ok) ==
    /\ failing' = ~ok
    /\ UNCHANGED <<code, stamp, short, installed, phase, due, retired>>

RotateReturns(call, ok) ==
    /\ short' = IF ok THEN call.code ELSE short
    /\ retired' = IF ok THEN retired \cup {call.todo[1].code} ELSE retired
    /\ UNCHANGED <<code, stamp, installed, phase, due, failing>>

\* forget is best effort and the vault leaves the set either way.  Then its
\* directory is renamed, or FORGET_VAULT answers ERR ("out") and a later start
\* hosts the vault again.
ForgetReturns(call, ok) ==
    /\ phase' \in IF phase = "gone" THEN {"gone"} ELSE {"gone", "out"}
    /\ retired' = IF ok /\ phase' = "gone" THEN retired \cup {call.todo[1].code} ELSE retired
    /\ UNCHANGED <<code, stamp, short, installed, due, failing>>

\* exchange returns to the operation that awaits it.
Returns(task, ok) ==
    LET call == calls[task] IN
    /\ calls' = [calls EXCEPT ![task] = Idle]
    /\ CASE call.kind = "publish"   -> PublishReturns(call, ok)
         [] call.kind = "republish" -> RepublishReturns(ok)
         [] call.kind = "rotate"    -> RotateReturns(call, ok)
         [] call.kind = "forget"    -> ForgetReturns(call, ok)

NextRequest(task) ==
    /\ calls[task].answer = "ok" /\ Len(calls[task].todo) > 1
    /\ calls' = [calls EXCEPT ![task].todo = Tail(@), ![task].answer = "none", ![task].wait = 0]
    /\ wire' = wire \cup {[task |-> task, request |-> calls[task].todo[2]]}
    /\ UNCHANGED <<host, directory, retired, faults>>

Answered(task) ==
    /\ \/ calls[task].answer = "ok" /\ Len(calls[task].todo) = 1 /\ Returns(task, TRUE)
       \/ calls[task].answer \in {"replay", "refused"} /\ Returns(task, FALSE)
    /\ UNCHANGED <<wire, directory, faults>>

\* The deadline, or a connection that failed.  A request that is still on the
\* wire may be handled later; one that was lost stays there until it expires.
GivesUp(task) ==
    /\ calls[task] # Idle /\ calls[task].answer = "none"
    /\ IF [task |-> task, request |-> calls[task].todo[1]] \in wire
       THEN Fault ELSE UNCHANGED faults
    /\ Returns(task, FALSE)
    /\ UNCHANGED <<wire, directory>>

-----------------------------------------------------------------------------
(***************************************************************************)
(* The directory service: DirectoryStore::put and forget                   *)
(***************************************************************************)
Current(t) == t <= Skew /\ t > Floor

\* Bug: the ad is only compared with the one it replaces.
Bug_AcceptsOverAd(r) ==
    /\ ~failed /\ Current(r.at)
    /\ IF r.kind = "put"
       THEN r.at > ads[r.code] /\ (Routed(r.code) \/ Cardinality(Routes) < MaxAds)
       ELSE mark > Floor /\ r.at > mark

Accepts(r) ==
    /\ ~failed /\ Current(r.at) /\ r.at > mark
    /\ IF r.kind = "put"
       THEN Routed(r.code) \/ Cardinality(Routes) < MaxAds
       ELSE mark > Floor

Replayed(r) == ~failed /\ Current(r.at) /\ r.at <= mark

\* Bug: a put leaves the watermark to forget.
Bug_ApplyAdOnly(r) ==
    /\ ads' = [ads EXCEPT ![r.code] = IF r.kind = "put" THEN r.at ELSE Floor]
    /\ mark' = IF r.kind = "put" THEN mark ELSE r.at
    /\ stale' = FALSE

\* What is committed has been pruned.
Apply(r) ==
    /\ ads' = [ads EXCEPT ![r.code] = IF r.kind = "put" THEN r.at ELSE Floor]
    /\ mark' = r.at
    /\ stale' = FALSE

\* The task that still waits for this exchange hears the answer, if any.
Hears(m, answer) ==
    LET call == calls[m.task] IN
    calls' = IF call # Idle /\ call.todo[1] = m.request /\ call.answer = "none"
             THEN [calls EXCEPT ![m.task].answer = answer] ELSE calls

Handle(m) ==
    /\ m \in wire /\ wire' = wire \ {m}
    /\ \/ /\ Accepts(m.request)
          /\ Apply(m.request)
          /\ \/ Hears(m, "ok") /\ UNCHANGED faults
             \/ Fault /\ UNCHANGED calls
       \/ /\ ~Accepts(m.request)
          /\ Hears(m, IF Replayed(m.request) THEN "replay" ELSE "refused")
          /\ UNCHANGED <<ads, mark, stale, faults>>
    /\ UNCHANGED <<host, failed, retired>>

\* commit fails before or after its rename.  Until it is reopened the store
\* answers nobody, so ads and mark are what its file holds.
CommitFails(m) ==
    /\ m \in wire /\ wire' = wire \ {m}
    /\ Accepts(m.request) /\ Fault
    /\ Apply(m.request) \/ UNCHANGED <<ads, mark, stale>>
    /\ failed' = TRUE
    /\ Hears(m, "refused")
    /\ UNCHANGED <<host, retired>>

\* A lookup that finds something expired commits what is left, and that
\* commit can fail like any other.
Lookup ==
    /\ ~failed /\ stale
    /\ stale' = FALSE
    /\ UNCHANGED <<host, calls, wire, ads, mark, failed, retired, faults>>

LookupFails ==
    /\ ~failed /\ stale
    /\ stale' \in BOOLEAN
    /\ failed' = TRUE /\ Fault
    /\ UNCHANGED <<host, calls, wire, ads, mark, retired>>

\* What DirectoryStore::open requires of a file with one host's ads: no ad is
\* newer than the watermark, and no more of them than a peer may have.  (Ads
\* that expired since the last commit were counted when it was made.)
Consistent ==
    /\ \A c \in Codes : ads[c] <= mark
    /\ Cardinality(Routes) <= MaxAds

\* A store that failed refuses every request until the process is restarted,
\* which nothing but an operator does.
DirectoryReopens ==
    /\ failed /\ Consistent
    /\ failed' = FALSE
    /\ UNCHANGED <<host, calls, wire, ads, mark, stale, retired, faults>>

-----------------------------------------------------------------------------
(***************************************************************************)
(* Crashes and time                                                        *)
(***************************************************************************)
Crash ==
    /\ phase \in {"starting", "up", "stopped", "out"} /\ Fault
    /\ phase' = "down" /\ due' = 0 /\ failing' = FALSE
    /\ calls' = [t \in Tasks |-> Idle]
    /\ UNCHANGED <<code, stamp, short, installed, wire, directory, retired>>

\* One tick later.  The times for which is_expired holds are all alike, and
\* Floor is the latest of them.
Aged(t) == Later(t - 1, Floor)

\* An entry of the directory expires.
Expires == \E t \in {ads[c] : c \in Codes} \cup {mark} : t > Floor /\ Aged(t) = Floor

AgedRequest(r) == [r EXCEPT !.at = Aged(@)]

\* No deadline and no sleep of the republish loop is overrun.  A request that
\* expires on the wire would be refused, and nobody waits for it any more.
Tick ==
    /\ \A t \in Tasks : calls[t] # Idle => calls[t].wait < Deadline
    /\ phase \in {"up", "stopped"} /\ calls[Loop] = Idle => due < Interval
    /\ stamp' = Aged(stamp)
    /\ ads' = [c \in Codes |-> Aged(ads[c])]
    /\ mark' = Aged(mark)
    /\ stale' = (stale \/ Expires)
    /\ wire' = {[m EXCEPT !.request = AgedRequest(@)] : m \in {w \in wire : Aged(w.request.at) > Floor}}
    /\ calls' = [t \in Tasks |->
                   IF calls[t] = Idle THEN Idle
                   ELSE [calls[t] EXCEPT
                           !.wait = @ + 1,
                           !.todo = [i \in DOMAIN @ |-> AgedRequest(@[i])]]]
    /\ due' = IF phase \in {"up", "stopped"} /\ calls[Loop] = Idle THEN due + 1 ELSE due
    /\ UNCHANGED <<code, short, installed, phase, failing, failed, retired, faults>>

-----------------------------------------------------------------------------
\* An admin CREATE made the vault and recorded its short code.
Init ==
    /\ code = First /\ stamp = Floor /\ short = First /\ installed = {First}
    /\ phase = "down" /\ due = 0 /\ failing = FALSE
    /\ calls = [t \in Tasks |-> Idle] /\ wire = {}
    /\ ads = [c \in Codes |-> Floor] /\ mark = Floor /\ failed = FALSE /\ stale = FALSE
    /\ retired = {} /\ faults = 0

Next ==
    \/ Start \/ Republish
    \/ \E task \in Admins : ForgetVault(task) \/ \E c \in Codes : Rotate(task, c)
    \/ \E task \in Tasks : NextRequest(task) \/ Answered(task) \/ GivesUp(task)
    \/ \E m \in wire : Handle(m) \/ CommitFails(m)
    \/ Lookup \/ LookupFails \/ DirectoryReopens \/ Crash \/ Tick

\* The clock runs, tasks whose exchange is over run, and the directory handles
\* what reaches it.  Nothing starts a daemon again but its operator.
Fairness ==
    /\ WF_vars(Tick) /\ WF_vars(Republish)
    /\ \A task \in Tasks :
          WF_vars(NextRequest(task) \/ Answered(task) \/ GivesUp(task))
    /\ WF_vars(\E m \in wire : Handle(m))

Spec     == Init /\ [][Next]_vars
LiveSpec == Spec /\ Fairness

-----------------------------------------------------------------------------
(***************************************************************************)
(* Properties                                                              *)
(***************************************************************************)
Times    == {t \in Int : t >= Floor}
Requests == [kind : {"put", "forget"}, code : Codes, at : Times]

\* Every variable keeps its type, and the code that admits and the one that
\* STATUS prints are codes that were installed.
TypeOK ==
    /\ {code, short} \subseteq installed /\ installed \subseteq Codes
    /\ phase \in {"down", "starting", "up", "stopped", "gone", "out"}
    /\ due \in 0 .. Interval /\ failing \in BOOLEAN /\ failed \in BOOLEAN /\ stale \in BOOLEAN
    /\ stamp \in Times /\ mark \in Times /\ ads \in [Codes -> Times]
    /\ calls \in [Tasks -> [kind : {"idle", "publish", "republish", "rotate", "forget"},
                            code : Codes, todo : Seq(Requests), wait : 0 .. Deadline,
                            answer : {"none", "ok", "replay", "refused"}]]
    /\ wire \subseteq [task : Tasks, request : Requests]
    /\ retired \subseteq Codes

\* The directory's file can always be opened again: open refuses ads newer
\* than their watermark or more of them than a peer may have, which no order
\* of puts, forgets, lookups, failed commits and expiries leaves behind.
DirectoryConsistent == Consistent

\* The old code of a rotation, kick or FORGET_VAULT whose forget the directory
\* acknowledged never routes again, whatever put of it is still on the wire:
\* issued_at only moves forward and the watermark outlives what it refuses.
RetiredStaysRetired == retired \cap Routes = {}

\* rotate_code_with and kick_with_code change "Admission ... before directory
\* I/O": no crash or lost answer leaves a route for a code that H never
\* installed, and H's own stamp is past every route but the current code's.
RoutesWereInstalled ==
    /\ Routes \subseteq installed
    /\ \A c \in Routes \ {code} : ads[c] < stamp

\* Once the faults end and the code is no longer rotated, a hosted vault is
\* found under its current code and under no other, unless the directory was
\* left with a store that failed: the loop republishes before the ad expires,
\* and routes of half-finished rotations, which may fill the cap of the peer,
\* expire.
DirectoryConverges == []<>~failed => <>[](phase = "up" => Routes = {code})

\* ROTATE_CODE and KICK "mint a fresh short code, install its derived join
\* code, record it in the vault's app-meta": when no operation is under way
\* STATUS prints the short form of the code that admits.
StatusShowsCurrent ==
    phase = "up" /\ (\A t \in Tasks : calls[t] = Idle) => short = code

\* "A clock second that has not advanced is not an outage": a put the
\* directory refused as a replay does not mark the vault unreachable.
ReplayIsNoOutage ==
    [][calls[Loop].kind = "republish" /\ calls[Loop].answer = "replay"
       /\ calls'[Loop] = Idle => ~failing']_vars
=============================================================================
