----------------------- MODULE BookingSagaFaultProofs -----------------------
(***************************************************************************)
(* Proofs about BookingSaga of what its documents and tests promise while  *)
(* some kinds of failure do not happen.  FInv, inductive relative to IInv, *)
(* says what each kind of failure is needed for.  Every theorem names the  *)
(* kinds it excludes; all others may happen, in any number and order.      *)
(***************************************************************************)
EXTENDS BookingSagaProofs

\* Nothing has been given up, refused or released at first.
LEMMA InitFInv == Init => FInv
  BY SagaAssumption
  DEF Init, FInv, GivenUpUnwritten, CallsAnswered, RefusalsAreFinal,
      ReleasesHaveReason, Procs, Written, InFlight

-----------------------------------------------------------------------------
(* A request that gives its booking up has not written it *)

\* Where the handler decides about a compensation there is no row, and no
\* transaction that the decision leaves behind.
LEMMA GiveUpUnwritten ==
  ASSUME IInv, "late" \notin Faults, NEW b \in Bookings,
         \/ InsertBooking(b) /\ UNCHANGED tx
         \/ InsertFails(b)
         \/ CommitRolledBack(b)
         \/ LookupBooking(b) /\ row[b] = "absent"
  PROVE  ~Written(b)'
<1> USE DEF IInv, TypeOK, WriteAfterBook, Written
<1>1. CASE InsertBooking(b) /\ UNCHANGED tx
  BY <1>1 DEF InsertBooking
<1>2. CASE InsertFails(b)
  BY <1>2 DEF InsertFails
<1>3. CASE CommitRolledBack(b)
  BY <1>3 DEF CommitRolledBack
<1>4. CASE LookupBooking(b) /\ row[b] = "absent"
  BY <1>4 DEF LookupBooking
<1> QED
  BY <1>1, <1>2, <1>3, <1>4

\* A row appears only from a transaction, and a transaction only from an insert.
LEMMA WriteSteps ==
  ASSUME IInv, Next, NEW b \in Bookings, ~Written(b), Written(b)'
  PROVE  InsertBooking(b) /\ tx'[b] = "open" /\ pc'[b] = "committing"
<1> USE SagaAssumption DEF IInv, TypeOK, WriteAfterBook, Written
<1>1. ASSUME NEW o \in Bookings, CreateBooking(o) \/ CreateCrashes(o) PROVE FALSE
  BY <1>1 DEF CreateBooking, CreateCrashes
<1>2. ASSUME NEW o \in Bookings, CreateStep(o) \/ DetachedStep(o)
      PROVE  InsertBooking(b) /\ tx'[b] = "open" /\ pc'[b] = "committing"
  BY <1>2
  DEF CreateStep, DetachedStep, BookSlot, BookSlotReturns, InsertBooking,
      InsertFails, CommitSucceeds, CommitRolledBack, CommitUnknown, LookupBooking,
      LookupFails, CompensationReturns, DetachedCommits, DetachedRollsBack, Procs
<1>3. ASSUME NEW c \in Cancels,
             \/ CancelStep(c) \/ CancelCrashes(c)
             \/ \E u \in Users, o \in Bookings : CancelBooking(c, u, o)
      PROVE  FALSE
  BY <1>3
  DEF CancelStep, CancelCrashes, CancelBooking, ReleaseConfirmed,
      ReleaseNotConfirmed, CancelRow, CancelRowFails, CancelAfterRelease
<1>4. ASSUME \/ \E p \in Procs : CallStep(p) \/ ClientGone(p)
             \/ \E s \in Existing : SlotStarts(s)
      PROVE  FALSE
  BY <1>4 DEF CallStep, ReleaseSlot, CallFails, ClientGone, SlotStarts
<1>5. ASSUME NEW m \in orphans, OrphanRuns(m) \/ OrphanDropped(m) PROVE FALSE
  <2>1. m \in Orphan /\ m.booking \in Bookings
    BY DEF Orphan
  <2>2. m.op = "cancel" => row[m.booking] # "absent"
    BY <2>1 DEF CancelAfterRelease, InFlight, Orphan
  <2> QED
    BY <1>5, <2>1, <2>2 DEF OrphanRuns, OrphanDropped
<1> QED
  BY <1>1, <1>2, <1>3, <1>4, <1>5 DEF Next

\* The handler comes to a compensation only by deciding so.
LEMMA GiveUpSteps ==
  ASSUME IInv, Next, NEW b \in Bookings,
         pc[b] \notin {"compensating", "compensated", "uncompensated"},
         pc'[b] \in {"compensating", "compensated", "uncompensated"}
  PROVE  \/ InsertBooking(b) /\ UNCHANGED tx
         \/ InsertFails(b)
         \/ CommitRolledBack(b)
         \/ LookupBooking(b) /\ row[b] = "absent"
<1> USE SagaAssumption DEF IInv, TypeOK, Procs
<1>1. ASSUME NEW o \in Bookings, CreateBooking(o) \/ CreateCrashes(o) PROVE FALSE
  BY <1>1 DEF CreateBooking, CreateCrashes
<1>2. ASSUME NEW o \in Bookings, DetachedStep(o) PROVE FALSE
  BY <1>2 DEF DetachedStep, DetachedCommits, DetachedRollsBack
<1>3. ASSUME NEW o \in Bookings, CreateStep(o)
      PROVE  \/ InsertBooking(b) /\ UNCHANGED tx
             \/ InsertFails(b)
             \/ CommitRolledBack(b)
             \/ LookupBooking(b) /\ row[b] = "absent"
  BY <1>3
  DEF CreateStep, BookSlot, BookSlotReturns, InsertBooking, InsertFails,
      CommitSucceeds, CommitRolledBack, CommitUnknown, LookupBooking, LookupFails,
      CompensationReturns, Compensate
<1>4. ASSUME NEW c \in Cancels,
             \/ CancelStep(c) \/ CancelCrashes(c)
             \/ \E u \in Users, o \in Bookings : CancelBooking(c, u, o)
      PROVE  FALSE
  BY <1>4
  DEF CancelStep, CancelCrashes, CancelBooking, ReleaseConfirmed,
      ReleaseNotConfirmed, CancelRow, CancelRowFails, Answered
<1>5. ASSUME \/ \E p \in Procs : CallStep(p) \/ ClientGone(p)
             \/ \E m \in orphans : OrphanRuns(m) \/ OrphanDropped(m)
             \/ \E s \in Existing : SlotStarts(s)
      PROVE  FALSE
  BY <1>5 DEF CallStep, ReleaseSlot, CallFails, ClientGone, OrphanRuns,
     OrphanDropped, SlotStarts
<1> QED
  BY <1>1, <1>2, <1>3, <1>4, <1>5 DEF Next

\* Once given up, a booking is never written again.
LEMMA NextKeepsGivenUp ==
  ASSUME IInv, GivenUpUnwritten, Next
  PROVE  GivenUpUnwritten'
<1> SUFFICES ASSUME "late" \notin Faults, NEW b \in Bookings,
                    pc'[b] \in {"compensating", "compensated", "uncompensated"}
             PROVE  ~Written(b)'
  BY DEF GivenUpUnwritten
<1>1. CASE pc[b] \in {"compensating", "compensated", "uncompensated"}
  BY <1>1, WriteSteps DEF GivenUpUnwritten
<1>2. CASE pc[b] \notin {"compensating", "compensated", "uncompensated"}
  BY <1>2, GiveUpSteps, GiveUpUnwritten
<1> QED
  BY <1>1, <1>2

-----------------------------------------------------------------------------
(* Calls that are all answered *)

\* A handler goes on without an answer only if the call failed or its client
\* left.
LEMMA NextKeepsCalls ==
  ASSUME IInv, CallsAnswered, Next
  PROVE  CallsAnswered'
<1> SUFFICES ASSUME Faults \cap {"rpc", "gone"} = {}
             PROVE  CallsAnswered'
  BY DEF CallsAnswered
<1> USE SagaAssumption DEF IInv, TypeOK, CallsAnswered, Procs
<1>1. ASSUME NEW b \in Bookings,
             \/ CreateBooking(b) \/ BookSlot(b) \/ BookSlotReturns(b)
             \/ CommitSucceeds(b) \/ CommitUnknown(b) \/ LookupFails(b)
             \/ CompensationReturns(b) \/ DetachedStep(b) \/ CreateCrashes(b)
      PROVE  CallsAnswered'
  BY <1>1 DEF CreateBooking, BookSlot, BookSlotReturns, CommitSucceeds,
     CommitUnknown, LookupFails, CompensationReturns, DetachedStep,
     DetachedCommits, DetachedRollsBack, CreateCrashes
<1>2. ASSUME NEW b \in Bookings,
             \/ InsertBooking(b) \/ InsertFails(b)
             \/ CommitRolledBack(b) \/ LookupBooking(b)
      PROVE  CallsAnswered'
  BY <1>2 DEF InsertBooking, InsertFails, CommitRolledBack, LookupBooking, Compensate
<1>3. ASSUME NEW c \in Cancels,
             \/ CancelStep(c) \/ CancelCrashes(c)
             \/ \E u \in Users, b \in Bookings : CancelBooking(c, u, b)
      PROVE  CallsAnswered'
  BY <1>3 DEF CancelStep, ReleaseConfirmed, ReleaseNotConfirmed, CancelRow,
     CancelRowFails, CancelCrashes, CancelBooking, Answered
<1>4. ASSUME \/ \E p \in Procs : CallStep(p) \/ ClientGone(p)
             \/ \E m \in orphans : OrphanRuns(m) \/ OrphanDropped(m)
             \/ \E s \in Existing : SlotStarts(s)
      PROVE  CallsAnswered'
  BY <1>4 DEF CallStep, ReleaseSlot, CallFails, ClientGone, OrphanRuns,
     OrphanDropped, SlotStarts
<1> QED
  BY <1>1, <1>2, <1>3, <1>4 DEF Next, CreateStep

-----------------------------------------------------------------------------
(* Refusals that are final *)

\* A create request takes its slot or is refused it, and ends with an answer.
LEMMA CreateKeepsRefusals ==
  ASSUME IInv, CallsAnswered, RefusalsAreFinal, Faults \cap {"rpc", "gone", "crash"} = {},
         NEW b \in Bookings,
         CreateBooking(b) \/ CreateStep(b) \/ DetachedStep(b) \/ CreateCrashes(b)
  PROVE  RefusalsAreFinal'
<1> USE SagaAssumption
    DEF IInv, TypeOK, OwnersAsked, CallsAnswered, RefusalsAreFinal, Procs, InFlight,
        MayTake
<1>1. CASE CreateBooking(b)
  BY <1>1 DEF CreateBooking
<1>2. CASE BookSlot(b)
  <2>1. MayTake(b) /\ owner[SlotOf[b]] # b
    BY <1>2 DEF BookSlot
  <2>2. CASE Bookable(b)
    <3>1. owner' = Booked(b) /\ rpc' = [rpc EXCEPT ![b] = "ok"]
          /\ UNCHANGED <<pc, gone, orphans>> /\ pc[b] = "booking"
      BY <1>2, <2>2 DEF BookSlot
    <3>2. ASSUME NEW o \in Bookings,
                 \/ pc[o] = "rejected"
                 \/ pc[o] = "booking" /\ rpc'[o] = "refused"
          PROVE  owner'[SlotOf[o]] # o
      <4>1. o # b /\ owner[SlotOf[o]] # o
        BY <3>1, <3>2
      <4> QED
        BY <3>1, <4>1 DEF Booked
    <3> QED
      BY <3>1, <3>2
  <2>3. CASE ~Bookable(b)
    BY <1>2, <2>1, <2>3 DEF BookSlot
  <2> QED
    BY <2>2, <2>3
<1>3. CASE BookSlotReturns(b)
  BY <1>3 DEF BookSlotReturns
<1>4. CASE InsertBooking(b) \/ InsertFails(b) \/ CommitRolledBack(b) \/ LookupBooking(b)
  BY <1>4 DEF InsertBooking, InsertFails, CommitRolledBack, LookupBooking, Compensate
<1>5. CASE CommitSucceeds(b) \/ CommitUnknown(b) \/ LookupFails(b)
  BY <1>5 DEF CommitSucceeds, CommitUnknown, LookupFails
<1>6. CASE CompensationReturns(b)
  BY <1>6 DEF CompensationReturns
<1>7. CASE DetachedStep(b)
  BY <1>7 DEF DetachedStep, DetachedCommits, DetachedRollsBack
<1>8. CASE CreateCrashes(b)
  BY <1>8 DEF CreateCrashes
<1> QED
  BY <1>1, <1>2, <1>3, <1>4, <1>5, <1>6, <1>7, <1>8 DEF CreateStep

\* A cancel request leaves nothing behind but an UPDATE.
LEMMA CancelKeepsRefusals ==
  ASSUME IInv, CallsAnswered, RefusalsAreFinal, Faults \cap {"rpc", "gone", "crash"} = {},
         NEW c \in Cancels,
         \/ CancelStep(c) \/ CancelCrashes(c)
         \/ \E u \in Users, b \in Bookings : CancelBooking(c, u, b)
  PROVE  RefusalsAreFinal'
<1> USE SagaAssumption DEF IInv, TypeOK, CallsAnswered, RefusalsAreFinal, Procs, InFlight
<1>1. CASE \E u \in Users, b \in Bookings : CancelBooking(c, u, b)
  BY <1>1 DEF CancelBooking
<1>2. CASE CancelStep(c)
  BY <1>2 DEF CancelStep, ReleaseConfirmed, ReleaseNotConfirmed, CancelRow,
     CancelRowFails, Answered
<1>3. CASE CancelCrashes(c)
  BY <1>3 DEF CancelCrashes
<1> QED
  BY <1>1, <1>2, <1>3

\* availability-service answers, no client leaves, and what nobody waits for is
\* an UPDATE.
LEMMA OthersKeepRefusals ==
  ASSUME IInv, CallsAnswered, RefusalsAreFinal, Faults \cap {"rpc", "gone", "crash"} = {},
         \/ \E p \in Procs : CallStep(p) \/ ClientGone(p)
         \/ \E m \in orphans : OrphanRuns(m) \/ OrphanDropped(m)
         \/ \E s \in Existing : SlotStarts(s)
  PROVE  RefusalsAreFinal'
<1> USE SagaAssumption DEF IInv, TypeOK, CallsAnswered, RefusalsAreFinal, Procs, InFlight
<1>1. ASSUME NEW p \in Procs, ReleaseSlot(p) PROVE RefusalsAreFinal'
  BY <1>1 DEF ReleaseSlot, Freed, Subject
<1>2. ASSUME NEW p \in Procs, CallFails(p) \/ ClientGone(p) PROVE RefusalsAreFinal'
  BY <1>2 DEF CallFails, ClientGone
<1>3. ASSUME NEW m \in orphans, OrphanRuns(m) \/ OrphanDropped(m) PROVE RefusalsAreFinal'
  <2>1. /\ m.op \in {"book", "release", "cancel"} /\ m.booking \in Bookings
        /\ m = [op |-> m.op, booking |-> m.booking]
    BY DEF Orphan
  <2>a. ASSUME NEW op \in {"book", "release"}, m.op = op PROVE FALSE
    <3>1. m.booking \in Bookings /\ [op |-> op, booking |-> m.booking] \in orphans
      BY <2>1, <2>a
    <3> QED
      BY <3>1
  <2>2. m.op = "cancel"
    BY <2>1, <2>a
  <2>3. owner' = owner /\ orphans' \subseteq orphans
        /\ UNCHANGED <<pc, rpc, gone>>
    BY <1>3, <2>2 DEF OrphanRuns, OrphanDropped
  <2> QED
    BY <2>3
<1>4. ASSUME NEW s \in Existing, SlotStarts(s) PROVE RefusalsAreFinal'
  BY <1>4 DEF SlotStarts
<1> QED
  BY <1>1, <1>2, <1>3, <1>4 DEF CallStep

LEMMA NextKeepsRefusals ==
  ASSUME IInv, CallsAnswered, RefusalsAreFinal, Next
  PROVE  RefusalsAreFinal'
<1>1. CASE Faults \cap {"rpc", "gone", "crash"} = {}
  BY <1>1, CreateKeepsRefusals, CancelKeepsRefusals, OthersKeepRefusals DEF Next
<1>2. CASE Faults \cap {"rpc", "gone", "crash"} # {}
  BY <1>2 DEF RefusalsAreFinal
<1> QED
  BY <1>1, <1>2

-----------------------------------------------------------------------------
(* Why a booking was released *)

\* A create request releases what it has not written, and writes only what was
\* not released.
LEMMA CreateKeepsReasons ==
  ASSUME IInv, FInv, Faults \cap {"rpc", "gone", "crash", "update", "late"} = {},
         NEW b \in Bookings,
         CreateBooking(b) \/ CreateStep(b) \/ DetachedStep(b) \/ CreateCrashes(b)
  PROVE  ReleasesHaveReason'
<1> USE SagaAssumption DEF IInv, TypeOK, FInv, ReleasesHaveReason, Procs
<1>f. GivenUpUnwritten /\ CallsAnswered /\ Faults \cap {"rpc", "gone", "crash"} = {}
      /\ "late" \notin Faults
  OBVIOUS
<1>g. b \notin gone /\ rpc[b] # "error"
  BY <1>f DEF CallsAnswered
<1>c. \A c \in Cancels : c # b
  OBVIOUS
<1>1. ASSUME pc[b] \notin {"compensating", "compensated"},
             pc' = [pc EXCEPT ![b] = pc'[b]],
             UNCHANGED <<row, target, released>>
      PROVE  ReleasesHaveReason'
  BY <1>1, <1>c
<1>2. CASE CreateBooking(b) \/ BookSlotReturns(b) \/ CommitUnknown(b) \/ LookupFails(b)
  BY <1>1, <1>2 DEF CreateBooking, BookSlotReturns, CommitUnknown, LookupFails
<1>3. CASE BookSlot(b)
  BY <1>3 DEF BookSlot
<1>4. ASSUME Compensate(b), row[b] = "absent", UNCHANGED <<row, target>>
      PROVE  ReleasesHaveReason'
  BY <1>4, <1>g, <1>c DEF Compensate
<1>5. CASE InsertBooking(b)
  <2>1. row[b] = "absent"
    BY <1>5 DEF InsertBooking, WriteAfterBook, Written
  <2> QED
    BY <1>1, <1>4, <1>5, <2>1 DEF InsertBooking
<1>6. CASE InsertFails(b) \/ CommitRolledBack(b)
  <2>1. row[b] = "absent"
    BY <1>6 DEF InsertFails, CommitRolledBack, WriteAfterBook, Written
  <2> QED
    BY <1>4, <1>6, <2>1 DEF InsertFails, CommitRolledBack
<1>7. CASE LookupBooking(b)
  BY <1>1, <1>4, <1>7 DEF LookupBooking
<1>8. CASE CommitSucceeds(b) \/ DetachedCommits(b)
  <2>1. tx[b] # "none" /\ row[b] = "absent"
    BY <1>8 DEF CommitSucceeds, DetachedCommits, WriteAfterBook
  <2>2. b \notin released
    BY <1>f, <2>1 DEF GivenUpUnwritten, Written
  <2>3. row' = [row EXCEPT ![b] = "active"] /\ UNCHANGED <<target, released>>
        /\ \A p \in Procs \ {b} : pc'[p] = pc[p]
    BY <1>8 DEF CommitSucceeds, DetachedCommits
  <2> QED
    BY <1>c, <2>2, <2>3
<1>9. CASE CompensationReturns(b)
  <2>1. pc' = [pc EXCEPT ![b] = "compensated"] /\ UNCHANGED <<row, target, released>>
    BY <1>9, <1>g DEF CompensationReturns
  <2> QED
    BY <1>c, <2>1
<1>10. CASE DetachedRollsBack(b)
  BY <1>10 DEF DetachedRollsBack
<1>11. CASE CreateCrashes(b)
  BY <1>11 DEF CreateCrashes
<1> QED
  BY <1>2, <1>3, <1>5, <1>6, <1>7, <1>8, <1>9, <1>10, <1>11 DEF CreateStep, DetachedStep

\* A cancel request that has released its booking goes on to the UPDATE.
LEMMA CancelKeepsReasons ==
  ASSUME IInv, FInv, Faults \cap {"rpc", "gone", "crash", "update", "late"} = {},
         NEW c \in Cancels,
         \/ CancelStep(c) \/ CancelCrashes(c)
         \/ \E u \in Users, b \in Bookings : CancelBooking(c, u, b)
  PROVE  ReleasesHaveReason'
<1> USE SagaAssumption DEF IInv, TypeOK, FInv, ReleasesHaveReason, Procs
<1>1. c \notin gone /\ rpc[c] # "error"
  BY DEF CallsAnswered
<1>2. CASE \E u \in Users, b \in Bookings : CancelBooking(c, u, b)
  BY <1>2 DEF CancelBooking
<1>3. CASE ReleaseConfirmed(c)
  BY <1>3 DEF ReleaseConfirmed
<1>4. CASE CancelRow(c)
  <2>1. target[c] \in Bookings /\ row' = [row EXCEPT ![target[c]] = "cancelled"]
        /\ released' = released
        /\ \A p \in Procs \ {c} : pc'[p] = pc[p]
        /\ \A d \in Cancels \ {c} : target'[d] = target[d]
    BY <1>4 DEF CancelRow, Answered
  <2> QED
    BY <2>1
<1>5. CASE ReleaseNotConfirmed(c) \/ CancelRowFails(c) \/ CancelCrashes(c)
  BY <1>1, <1>5 DEF ReleaseNotConfirmed, CancelRowFails, CancelCrashes
<1> QED
  BY <1>2, <1>3, <1>4, <1>5 DEF CancelStep

LEMMA OthersKeepReasons ==
  ASSUME IInv, FInv,
         \/ \E p \in Procs : CallStep(p) \/ ClientGone(p)
         \/ \E m \in orphans : OrphanRuns(m) \/ OrphanDropped(m)
         \/ \E s \in Existing : SlotStarts(s)
  PROVE  ReleasesHaveReason'
<1> USE DEF IInv, TypeOK, FInv, ReleasesHaveReason
<1>1. ASSUME \/ \E p \in Procs : CallStep(p) \/ ClientGone(p)
             \/ \E s \in Existing : SlotStarts(s)
      PROVE  ReleasesHaveReason'
  BY <1>1 DEF CallStep, ReleaseSlot, CallFails, ClientGone, SlotStarts
<1>2. ASSUME NEW m \in orphans, OrphanRuns(m) \/ OrphanDropped(m)
      PROVE  ReleasesHaveReason'
  <2>1. m \in Orphan /\ m.booking \in Bookings
    BY DEF Orphan
  <2>2. m.op = "cancel" => row[m.booking] # "absent"
    BY <2>1 DEF CancelAfterRelease, InFlight, Orphan
  <2> QED
    BY <1>2, <2>1, <2>2 DEF OrphanRuns, OrphanDropped
<1> QED
  BY <1>1, <1>2

LEMMA NextKeepsReasons ==
  ASSUME IInv, FInv, Next
  PROVE  ReleasesHaveReason'
<1>1. CASE Faults \cap {"rpc", "gone", "crash", "update", "late"} = {}
  BY <1>1, CreateKeepsReasons, CancelKeepsReasons, OthersKeepReasons DEF Next
<1>2. CASE Faults \cap {"rpc", "gone", "crash", "update", "late"} # {}
  BY <1>2 DEF ReleasesHaveReason
<1> QED
  BY <1>1, <1>2

-----------------------------------------------------------------------------
(* The theorems *)

\* Every step keeps FInv.
LEMMA NextKeepsFInv == IInv /\ FInv /\ [Next]_vars => FInv'
<1> SUFFICES ASSUME IInv, FInv, [Next]_vars PROVE FInv'
  OBVIOUS
<1>1. CASE Next
  BY <1>1, NextKeepsGivenUp, NextKeepsCalls, NextKeepsRefusals,
     NextKeepsReasons DEF FInv
<1>2. CASE UNCHANGED vars
  BY <1>2 DEF vars, FInv, GivenUpUnwritten, CallsAnswered, RefusalsAreFinal,
     ReleasesHaveReason, Written, InFlight
<1> QED
  BY <1>1, <1>2

\* What each kind of failure is needed for, in every reachable state.
THEOREM FaultInvariance == Spec => []FInv
<1>1. Init => FInv
  BY InitFInv
<1>2. IInv /\ FInv /\ [Next]_vars => FInv'
  BY NextKeepsFInv
<1> QED
  BY <1>1, <1>2, Invariance, PTL DEF Spec

\* A transaction that committed is never compensated, through lost answers to
\* COMMIT, lost calls, crashes and clients that leave, as long as none commits
\* after the lookup (service_test.go:297).
THEOREM NoCommittedCompensation ==
  ASSUME "late" \notin Faults
  PROVE  Spec => []CommittedNotCompensated
<1>1. FInv => CommittedNotCompensated
  BY DEF FInv, GivenUpUnwritten, Written, CommittedNotCompensated
<1> QED
  BY <1>1, FaultInvariance, PTL

\* As long as calls are answered, database errors and lost answers to COMMIT
\* lose no slot, but for the requests that answer that they do not know.
THEOREM NoSlotIsLost ==
  ASSUME Faults \cap {"rpc", "gone", "crash"} = {}
  PROVE  Spec => []HeldSlotsAreBooked
<1>1. IInv /\ FInv => HeldSlotsAreBooked
  <2> SUFFICES ASSUME IInv, FInv, AtRest, NEW s \in Slots, owner[s] # NoBooking,
                      pc[owner[s]] # "unknown"
               PROVE  row[owner[s]] = "active"
    BY DEF HeldSlotsAreBooked
  <2>1. PICK b \in Bookings : owner[s] = b
    BY DEF IInv, TypeOK
  <2>2. SlotOf[b] = s /\ ~MayTake(b)
    BY <2>1 DEF IInv, OwnersAsked
  <2>3. pc[b] \in {"idle", "created", "rejected", "compensated", "uncompensated",
                   "unknown", "crashed"}
    BY DEF AtRest, Running, Finished, Procs
  <2>4. pc[b] = "created"
    BY <2>1, <2>2, <2>3
    DEF MayTake, FInv, CallsAnswered, RefusalsAreFinal, IInv,
        CompensationReleases, GivenBack
  <2>5. row[b] \in {"active", "cancelled"}
    BY <2>4 DEF IInv, TypeOK, CompensationReleases
  <2>6. row[b] # "cancelled"
    BY <2>1, <2>2 DEF IInv, CancelAfterRelease, GivenBack
  <2> QED
    BY <2>1, <2>5, <2>6
<1> QED
  BY <1>1, Invariance, FaultInvariance, PTL

\* An active booking at rest was never released.
LEMMA ActiveUnreleased ==
  ASSUME IInv, FInv, Faults \cap {"rpc", "gone", "crash", "update", "late"} = {}, AtRest
  PROVE  \A b \in Bookings : row[b] = "active" => owner[SlotOf[b]] = b
<1>1. \A c \in Cancels : pc[c] = "idle"
  BY SagaAssumption DEF IInv, TypeOK, AtRest, Running, Procs, CancelPc, Finished
<1>2. \A b \in Bookings : row[b] = "active" => b \notin released
  BY <1>1 DEF FInv, ReleasesHaveReason
<1> QED
  BY <1>2 DEF IInv, HeldSinceBooked

\* Every active booking keeps its slot when only the bookings database fails to
\* insert, to read or to answer COMMIT.
THEOREM ActiveBookingsKeepSlots ==
  ASSUME Faults \cap {"rpc", "gone", "crash", "update", "late"} = {}
  PROVE  Spec => []ActiveBookingsHold
<1>1. IInv /\ FInv => ActiveBookingsHold
  BY ActiveUnreleased DEF ActiveBookingsHold
<1> QED
  BY <1>1, Invariance, FaultInvariance, PTL

\* Under the same condition the list of free slots is right: none of them has
\* an active booking (api.yaml:530).
THEOREM FreeListIsRight ==
  ASSUME Faults \cap {"rpc", "gone", "crash", "update", "late"} = {}
  PROVE  Spec => []FreeSlotsAreUnbooked
<1>1. IInv /\ FInv => FreeSlotsAreUnbooked
  BY ActiveUnreleased, SagaAssumption DEF FreeSlotsAreUnbooked
<1> QED
  BY <1>1, Invariance, FaultInvariance, PTL

\* The slot of a failed local write has been released when the request ends, as
\* long as calls do not fail and clients stay, whatever else goes wrong
\* (README.md:48).
THEOREM FailedWritesRelease ==
  ASSUME Faults \cap {"rpc", "gone"} = {}
  PROVE  Spec => []FailedWriteReleases
<1>1. IInv /\ FInv => FailedWriteReleases
  BY DEF IInv, FInv, CallsAnswered, CompensationReleases, GivenBack,
     FailedWriteReleases
<1> QED
  BY <1>1, Invariance, FaultInvariance, PTL
=============================================================================
