------------------------- MODULE BookingSagaProofs -------------------------
(***************************************************************************)
(* Proofs about BookingSaga: the inductive invariant IInv, the safety      *)
(* properties that follow from it, and the step simulation that shows the  *)
(* handlers implement SlotReservation, for every set of requests, slots    *)
(* and users and for every choice of Faults.                               *)
(***************************************************************************)
EXTENDS BookingSaga, TLAPS

-----------------------------------------------------------------------------
(* IInv is inductive *)

\* The empty databases satisfy the invariant.
LEMMA InitIInv == Init => IInv
  BY SagaAssumption
  DEF Init, IInv, TypeOK, OwnersAsked, CallsAwaited, WriteAfterBook,
      KeysExclusive, ReleasesRecorded, HeldSinceBooked, CancelAfterRelease,
      CompensationReleases, Procs, CreatePc, CancelPc, Finished, Orphan,
      Written, HasKey, InFlight, MayTake, GivenBack

\* A local write that failed keeps the invariant, whether its compensation can
\* be sent or not.
LEMMA CompensateKeepsIInv ==
  ASSUME IInv, NEW b \in Bookings, Compensate(b),
         pc[b] \in {"inserting", "committing", "lookup"},
         tx' = tx \/ tx' = [tx EXCEPT ![b] = "none"], tx'[b] # "open",
         UNCHANGED <<owner, past, row, target, orphans, gone>>
  PROVE  IInv'
<1> USE DEF IInv
<1>t. /\ pc'[b] \in {"compensating", "uncompensated"}
      /\ \A p \in Procs \ {b} : pc'[p] = pc[p] /\ rpc'[p] = rpc[p]
      /\ rpc'[b] # "none" => pc'[b] = "compensating"
      /\ rpc'[b] # "ok" /\ rpc[b] = "none"
      /\ pc'[b] = "compensating" => b \in released'
      /\ released \subseteq released'
  BY SagaAssumption DEF Compensate, TypeOK, CallsAwaited, Procs
<1>m. \A o \in Bookings : MayTake(o)' <=> MayTake(o)
  BY <1>t DEF MayTake, InFlight, Procs
<1>x. \A o \in Bookings : tx'[o] = tx[o] \/ (o = b /\ tx'[o] = "none")
  <2>1. tx \in [Bookings -> {"none", "open", "detached"}]
    BY DEF TypeOK
  <2>2. CASE tx' = tx
    BY <2>2
  <2>3. CASE tx' = [tx EXCEPT ![b] = "none"]
    BY <2>1, <2>3
  <2> QED
    BY <2>2, <2>3
<1>b. ~MayTake(b)
  BY <1>t DEF WriteAfterBook, MayTake
<1>1. TypeOK'
  BY SagaAssumption DEF Compensate, TypeOK, Procs, CreatePc, CancelPc, Finished
<1>2. OwnersAsked'
  BY <1>m DEF OwnersAsked
<1>3. CallsAwaited'
  BY SagaAssumption, <1>t DEF CallsAwaited, Procs
<1>4. WriteAfterBook'
  <2>1. ~InFlight("book", b)
    BY <1>b DEF MayTake
  <2> QED
    BY SagaAssumption, <1>t, <1>m, <1>x, <1>b, <2>1
    DEF WriteAfterBook, Written, InFlight, Procs
<1>5. KeysExclusive'
  BY <1>x DEF KeysExclusive, HasKey
<1>6. ReleasesRecorded'
  BY SagaAssumption, <1>t DEF ReleasesRecorded, InFlight, Procs
<1>7. HeldSinceBooked'
  BY SagaAssumption, <1>t, <1>x DEF HeldSinceBooked, Procs
<1>8. CancelAfterRelease'
  <2>1. \A c \in Cancels : pc'[c] = pc[c] /\ rpc'[c] = rpc[c]
    BY SagaAssumption, <1>t DEF Procs
  <2>2. \A c \in Cancels : pc[c] # "idle" => target[c] \in Bookings
    BY DEF TypeOK
  <2>3. \A c \in Cancels : rpc[c] = "ok" => pc[c] # "idle"
    BY DEF CallsAwaited
  <2>4. \A o \in Bookings : GivenBack(o) => GivenBack(o)'
    BY <1>m DEF GivenBack
  <2> QED
    BY <2>1, <2>2, <2>3, <2>4 DEF CancelAfterRelease, InFlight
<1>9. CompensationReleases'
  <2>1. \A o \in Bookings \ {b} : pc'[o] = pc[o] /\ rpc'[o] = rpc[o]
    BY <1>t DEF Procs
  <2>2. ASSUME NEW o \in Bookings, GivenBack(o) PROVE GivenBack(o)'
    BY <1>m, <2>2 DEF GivenBack
  <2>3. \A o \in Bookings :
           pc'[o] \in {"compensating", "uncompensated"} => ~MayTake(o)'
    BY <1>t, <1>m, <1>b, <2>1 DEF CompensationReleases
  <2>4. \A o \in Bookings :
           (pc'[o] = "compensating" /\ rpc'[o] = "ok") \/ pc'[o] = "compensated"
           => GivenBack(o)'
    BY <1>t, <2>1, <2>2 DEF CompensationReleases
  <2>5. \A o \in Bookings : pc'[o] = "created" => row'[o] # "absent"
    BY <1>t, <2>1 DEF CompensationReleases
  <2> QED
    BY <2>3, <2>4, <2>5 DEF CompensationReleases
<1> QED
  BY <1>1, <1>2, <1>3, <1>4, <1>5, <1>6, <1>7, <1>8, <1>9

\* A create request keeps the invariant at each of its steps.
LEMMA CreateKeepsIInv ==
  ASSUME IInv, NEW b \in Bookings,
         CreateBooking(b) \/ CreateStep(b) \/ DetachedStep(b) \/ CreateCrashes(b)
  PROVE  IInv'
<1> USE SagaAssumption
    DEF IInv, TypeOK, OwnersAsked, CallsAwaited, WriteAfterBook, KeysExclusive,
        ReleasesRecorded, HeldSinceBooked, CancelAfterRelease,
        CompensationReleases, Procs, CreatePc, CancelPc, Finished, Orphan,
        Written, HasKey, InFlight, MayTake, GivenBack
<1>1. CASE CreateBooking(b)
  BY <1>1 DEF CreateBooking
<1>2. CASE BookSlot(b)
  BY <1>2 DEF BookSlot, Bookable, Booked
<1>3. CASE BookSlotReturns(b)
  BY <1>3 DEF BookSlotReturns
<1>4. CASE InsertBooking(b)
  <2>1. CASE \E o \in SameSlot(b) : row[o] = "active"
    BY <1>4, <2>1, CompensateKeepsIInv DEF InsertBooking
  <2>2. CASE ~\E o \in SameSlot(b) : row[o] = "active"
    <3>1. /\ tx' = [tx EXCEPT ![b] = "open"]
          /\ pc' = [pc EXCEPT ![b] = "committing"]
          /\ UNCHANGED <<owner, past, row, target, rpc, orphans, gone, released>>
      BY <1>4, <2>2 DEF InsertBooking
    <3>2. pc[b] = "inserting"
      BY <1>4 DEF InsertBooking
    <3>3. \A o \in Bookings : SlotOf[o] = SlotOf[b] /\ o # b => ~HasKey(o)
      BY <1>4, <2>2 DEF InsertBooking, SameSlot
    <3> QED
      BY <3>1, <3>2, <3>3
  <2> QED
    BY <2>1, <2>2
<1>5. CASE InsertFails(b)
  BY <1>5, CompensateKeepsIInv DEF InsertFails
<1>6. CASE CommitSucceeds(b)
  BY <1>6 DEF CommitSucceeds
<1>7. CASE CommitRolledBack(b)
  <2>1. tx' = [tx EXCEPT ![b] = "none"] /\ tx'[b] # "open"
    BY <1>7 DEF CommitRolledBack
  <2>2. /\ Compensate(b) /\ pc[b] = "committing"
        /\ UNCHANGED <<owner, past, row, target, orphans, gone>>
    BY <1>7 DEF CommitRolledBack
  <2> QED
    BY <2>1, <2>2, CompensateKeepsIInv
<1>8. CASE CommitUnknown(b)
  BY <1>8 DEF CommitUnknown
<1>9. CASE LookupBooking(b)
  <2>1. CASE row[b] = "absent"
    BY <1>9, <2>1, CompensateKeepsIInv DEF LookupBooking
  <2>2. CASE row[b] # "absent"
    BY <1>9, <2>2 DEF LookupBooking
  <2> QED
    BY <2>1, <2>2
<1>10. CASE LookupFails(b)
  BY <1>10 DEF LookupFails
<1>11. CASE CompensationReturns(b)
  BY <1>11 DEF CompensationReturns
<1>12. CASE DetachedCommits(b)
  BY <1>12 DEF DetachedCommits
<1>13. CASE DetachedRollsBack(b)
  BY <1>13 DEF DetachedRollsBack
<1>14. CASE CreateCrashes(b)
  BY <1>14 DEF CreateCrashes, Running, CallOf, Subject
<1> HIDE DEF IInv, TypeOK, OwnersAsked, CallsAwaited, WriteAfterBook, KeysExclusive,
             ReleasesRecorded, HeldSinceBooked, CancelAfterRelease,
             CompensationReleases, Procs
<1> QED
  BY <1>1, <1>2, <1>3, <1>4, <1>5, <1>6, <1>7, <1>8, <1>9, <1>10, <1>11,
     <1>12, <1>13, <1>14
  DEF CreateStep, DetachedStep

\* A cancel request keeps the invariant at each of its steps.
LEMMA CancelKeepsIInv ==
  ASSUME IInv, NEW c \in Cancels,
         \/ CancelStep(c) \/ CancelCrashes(c)
         \/ \E u \in Users, b \in Bookings : CancelBooking(c, u, b)
  PROVE  IInv'
<1> USE SagaAssumption
    DEF IInv, TypeOK, OwnersAsked, CallsAwaited, WriteAfterBook, KeysExclusive,
        ReleasesRecorded, HeldSinceBooked, CancelAfterRelease,
        CompensationReleases, Procs, CreatePc, CancelPc, Finished, Orphan,
        Written, HasKey, InFlight, MayTake, GivenBack
<1>1. CASE \E u \in Users, b \in Bookings : CancelBooking(c, u, b)
  BY <1>1 DEF CancelBooking
<1>2. CASE ReleaseConfirmed(c)
  BY <1>2 DEF ReleaseConfirmed
<1>3. CASE ReleaseNotConfirmed(c)
  BY <1>3 DEF ReleaseNotConfirmed, Answered
<1>4. CASE CancelRow(c)
  BY <1>4 DEF CancelRow, Answered
<1>5. CASE CancelRowFails(c)
  BY <1>5 DEF CancelRowFails, Answered
<1>6. CASE CancelCrashes(c)
  BY <1>6 DEF CancelCrashes, Answered, Running, CallOf, Subject
<1> HIDE DEF IInv, TypeOK, OwnersAsked, CallsAwaited, WriteAfterBook, KeysExclusive,
             ReleasesRecorded, HeldSinceBooked, CancelAfterRelease,
             CompensationReleases, Procs
<1> QED
  BY <1>1, <1>2, <1>3, <1>4, <1>5, <1>6 DEF CancelStep

\* The steps of availability-service, of clients and of time keep it.
LEMMA OthersKeepIInv ==
  ASSUME IInv,
         \/ \E p \in Procs : CallStep(p) \/ ClientGone(p)
         \/ \E m \in orphans : OrphanRuns(m) \/ OrphanDropped(m)
         \/ \E s \in Existing : SlotStarts(s)
  PROVE  IInv'
<1> USE SagaAssumption
    DEF IInv, TypeOK, OwnersAsked, CallsAwaited, WriteAfterBook, KeysExclusive,
        ReleasesRecorded, HeldSinceBooked, CancelAfterRelease,
        CompensationReleases, Procs, CreatePc, CancelPc, Finished, Orphan,
        Written, HasKey, InFlight, MayTake, GivenBack
<1>1. ASSUME NEW p \in Procs, ReleaseSlot(p) PROVE IInv'
  BY <1>1 DEF ReleaseSlot, Freed, Subject
<1>2. ASSUME NEW p \in Procs, CallFails(p) PROVE IInv'
  BY <1>2 DEF CallFails, CallOf, Subject
<1>3. ASSUME NEW p \in Procs, ClientGone(p) PROVE IInv'
  BY <1>3 DEF ClientGone
<1>4. ASSUME NEW m \in orphans, OrphanRuns(m) PROVE IInv'
  <2>1. m \in Orphan
    OBVIOUS
  <2>2. CASE m.op = "book"
    BY <1>4, <2>1, <2>2 DEF OrphanRuns, Bookable, Booked
  <2>3. CASE m.op = "release"
    BY <1>4, <2>1, <2>3 DEF OrphanRuns, Freed
  <2>4. CASE m.op = "cancel"
    BY <1>4, <2>1, <2>4 DEF OrphanRuns
  <2> QED
    BY <2>1, <2>2, <2>3, <2>4, Zenon
<1>5. ASSUME NEW m \in orphans, OrphanDropped(m) PROVE IInv'
  BY <1>5 DEF OrphanDropped
<1>6. ASSUME NEW s \in Existing, SlotStarts(s) PROVE IInv'
  BY <1>6 DEF SlotStarts
<1> HIDE DEF IInv, TypeOK, OwnersAsked, CallsAwaited, WriteAfterBook, KeysExclusive,
             ReleasesRecorded, HeldSinceBooked, CancelAfterRelease,
             CompensationReleases, Procs
<1> QED
  BY <1>1, <1>2, <1>3, <1>4, <1>5, <1>6 DEF CallStep

LEMMA NextKeepsIInv == IInv /\ [Next]_vars => IInv'
<1> SUFFICES ASSUME IInv, [Next]_vars PROVE IInv'
  OBVIOUS
<1>1. CASE Next
  BY <1>1, CreateKeepsIInv, CancelKeepsIInv, OthersKeepIInv DEF Next
<1>2. CASE UNCHANGED vars
  BY <1>2
  DEF vars, IInv, TypeOK, OwnersAsked, CallsAwaited, WriteAfterBook,
      KeysExclusive, ReleasesRecorded, HeldSinceBooked, CancelAfterRelease,
      CompensationReleases, Written, HasKey, InFlight, MayTake, GivenBack
<1> QED
  BY <1>1, <1>2

\* The invariant on which every result below rests.
THEOREM Invariance == Spec => []IInv
<1>1. Init => IInv
  BY InitIInv
<1>2. IInv /\ [Next]_vars => IInv'
  BY NextKeepsIInv
<1> QED
  BY <1>1, <1>2, PTL DEF Spec

-----------------------------------------------------------------------------
(* Safety *)

\* Every variable of the two databases and of the handlers keeps its type.
THEOREM TypeCorrect == Spec => []TypeOK
<1>1. IInv => TypeOK
  BY DEF IInv
<1> QED
  BY <1>1, Invariance, PTL

\* A cancelled booking holds no slot and can get none back, whatever calls are
\* late, lost or repeated (CancelBooking, ReleaseSlot).
THEOREM CancelledIsFree == Spec => []CancelledHoldsNoSlot
<1>1. IInv => CancelledHoldsNoSlot
  BY DEF IInv, CancelAfterRelease, GivenBack, MayTake, InFlight,
         CancelledHoldsNoSlot
<1> QED
  BY <1>1, Invariance, PTL

\* No slot ever has two active bookings (idx_bookings_active_slot).
THEOREM NoDoubleBooking == Spec => []OneActivePerSlot
<1>1. IInv => OneActivePerSlot
  BY DEF IInv, KeysExclusive, HasKey, OneActivePerSlot
<1> QED
  BY <1>1, Invariance, PTL

\* An active booking loses its slot only to a release of its own.
THEOREM NobodyElseReleases == Spec => []ActiveHoldsUnlessReleased
<1>1. IInv => ActiveHoldsUnlessReleased
  BY DEF IInv, HeldSinceBooked, ActiveHoldsUnlessReleased
<1> QED
  BY <1>1, Invariance, PTL

\* What a create request is answered agrees with both databases.
THEOREM AnswersAgree == Spec => []AnswerAgrees
<1>1. IInv => AnswerAgrees
  <2> SUFFICES ASSUME IInv, NEW b \in Bookings
               PROVE  /\ pc[b] = "created" => row[b] # "absent"
                      /\ pc[b] = "rejected" => row[b] = "absent" /\ tx[b] = "none"
                      /\ pc[b] = "compensated" =>
                            /\ owner[SlotOf[b]] # b
                            /\ [op |-> "book", booking |-> b] \notin orphans
    BY Zenon DEF AnswerAgrees
  <2>1. pc[b] = "created" => row[b] # "absent"
    BY DEF IInv, CompensationReleases
  <2>2. pc[b] = "rejected" => row[b] = "absent" /\ tx[b] = "none"
    BY DEF IInv, WriteAfterBook, Written
  <2>3. pc[b] = "compensated" =>
            owner[SlotOf[b]] # b /\ [op |-> "book", booking |-> b] \notin orphans
    BY DEF IInv, CompensationReleases, GivenBack, MayTake, InFlight
  <2> QED
    BY <2>1, <2>2, <2>3
<1> QED
  BY <1>1, Invariance, PTL

-----------------------------------------------------------------------------
(* BookingSaga implements SlotReservation *)

\* A step that changes neither who holds a slot nor which book calls may still
\* take effect leaves the abstract state of the slots alone.
LEMMA HoldUnchanged ==
  ASSUME UNCHANGED owner,
         \A b \in Bookings : MayTake(b)' <=> MayTake(b)
  PROVE  UNCHANGED holdBar
<1>1. ASSUME NEW b \in Bookings PROVE Hold(b)' = Hold(b)
  BY DEF Hold, GivenBack
<1> QED
  BY <1>1 DEF holdBar

\* The book call of b takes a free slot.
LEMMA TakeIsReserve ==
  ASSUME IInv, NEW b \in Bookings, MayTake(b), ~MayTake(b)', Bookable(b),
         owner' = Booked(b), UNCHANGED row,
         \A o \in Bookings \ {b} : MayTake(o)' <=> MayTake(o)
  PROVE  Reservation!Reserve(b)
<1>1. owner \in [Slots -> Bookings \cup {NoBooking}] /\ SlotOf \in [Bookings -> Slots]
      /\ NoBooking \notin Bookings
  BY SagaAssumption DEF IInv, TypeOK
<1>2. Hold(b) = "fresh" /\ Hold(b)' = "held"
  <2>1. owner[SlotOf[b]] # b /\ (owner[SlotOf[b]] = b)'
    BY <1>1 DEF Bookable, Booked
  <2>2. Hold(b) = "fresh"
    BY <2>1 DEF Hold, GivenBack
  <2>3. Hold(b)' = "held"
    BY <2>1 DEF Hold, GivenBack
  <2> QED
    BY <2>2, <2>3
<1>3. ASSUME NEW o \in Bookings \ {b} PROVE Hold(o)' = Hold(o)
  BY <1>1, <1>3 DEF Bookable, Booked, Hold, GivenBack
<1>4. holdBar' = [holdBar EXCEPT ![b] = "held"]
  BY <1>2, <1>3 DEF holdBar
<1>5. ASSUME NEW o \in Bookings, SlotOf[o] = SlotOf[b] PROVE holdBar[o] # "held"
  BY <1>1, <1>5 DEF Bookable, Hold, holdBar, GivenBack
<1> QED
  BY <1>2, <1>4, <1>5 DEF Reservation!Reserve, holdBar

\* A book call that can no longer take effect, without having done so.
LEMMA DropIsGiveUp ==
  ASSUME IInv, NEW b \in Bookings, MayTake(b), ~MayTake(b)',
         UNCHANGED <<owner, row>>,
         \A o \in Bookings \ {b} : MayTake(o)' <=> MayTake(o)
  PROVE  Reservation!GiveUp(b)
<1>1. owner[SlotOf[b]] # b /\ row[b] = "absent"
  BY DEF IInv, OwnersAsked, WriteAfterBook, Written
<1>2. Hold(b) = "fresh" /\ Hold(b)' = "spent"
  BY <1>1 DEF Hold, GivenBack
<1>3. ASSUME NEW o \in Bookings \ {b} PROVE Hold(o)' = Hold(o)
  BY <1>3 DEF Hold, GivenBack
<1>4. holdBar' = [holdBar EXCEPT ![b] = "spent"]
  BY <1>2, <1>3 DEF holdBar
<1> QED
  BY <1>1, <1>2, <1>4 DEF Reservation!GiveUp, holdBar

\* A release of b gives its slot back, or changes nothing.
LEMMA FreeIsGiveBack ==
  ASSUME IInv, NEW b \in Bookings, owner' = Freed(b), UNCHANGED row,
         \A o \in Bookings : MayTake(o)' <=> MayTake(o)
  PROVE  Reservation!GiveBack(b) \/ UNCHANGED <<holdBar, row>>
<1>1. owner \in [Slots -> Bookings \cup {NoBooking}] /\ SlotOf \in [Bookings -> Slots]
      /\ NoBooking \notin Bookings
  BY SagaAssumption DEF IInv, TypeOK
<1>2. CASE owner[SlotOf[b]] = b
  <2>1. ~MayTake(b)
    BY <1>2 DEF IInv, OwnersAsked
  <2>2. Hold(b) = "held" /\ Hold(b)' = "spent"
    BY <1>1, <1>2, <2>1 DEF Freed, Hold, GivenBack
  <2>3. ASSUME NEW o \in Bookings \ {b} PROVE Hold(o)' = Hold(o)
    BY <1>1, <1>2, <2>3 DEF Freed, Hold, GivenBack
  <2>4. holdBar' = [holdBar EXCEPT ![b] = "spent"]
    BY <2>2, <2>3 DEF holdBar
  <2> QED
    BY <2>2, <2>4 DEF Reservation!GiveBack, holdBar
<1>3. CASE owner[SlotOf[b]] # b
  <2>1. UNCHANGED owner
    BY <1>1, <1>3 DEF Freed
  <2> QED
    BY <2>1, HoldUnchanged
<1> QED
  BY <1>2, <1>3

\* A transaction commits: the booking is recorded.
LEMMA CommitIsRecord ==
  ASSUME IInv, NEW b \in Bookings, tx[b] # "none",
         row' = [row EXCEPT ![b] = "active"], UNCHANGED owner,
         \A o \in Bookings : MayTake(o)' <=> MayTake(o)
  PROVE  Reservation!Record(b)
<1>1. UNCHANGED holdBar
  BY HoldUnchanged
<1>2. ~MayTake(b) /\ row[b] = "absent"
  BY DEF IInv, WriteAfterBook, Written
<1>3. holdBar[b] # "fresh"
  BY <1>2 DEF holdBar, Hold, GivenBack
<1>4. ASSUME NEW o \in Bookings, SlotOf[o] = SlotOf[b] PROVE row[o] # "active"
  BY <1>2, <1>4 DEF IInv, KeysExclusive, HasKey
<1> QED
  BY <1>1, <1>2, <1>3, <1>4 DEF Reservation!Record

\* The UPDATE of a cancellation: the booking is cancelled, or was before.
LEMMA UpdateIsCancel ==
  ASSUME IInv, NEW b \in Bookings, row[b] # "absent", GivenBack(b),
         row' = [row EXCEPT ![b] = "cancelled"], UNCHANGED owner,
         \A o \in Bookings : MayTake(o)' <=> MayTake(o)
  PROVE  Reservation!Cancel(b) \/ UNCHANGED <<holdBar, row>>
<1>1. UNCHANGED holdBar
  BY HoldUnchanged
<1>2. holdBar[b] = "spent"
  <2>1. Hold(b) = "spent"
    BY DEF Hold, GivenBack
  <2> QED
    BY <2>1 DEF holdBar
<1>3. row \in [Bookings -> {"absent", "active", "cancelled"}]
  BY DEF IInv, TypeOK
<1>4. CASE row[b] = "active"
  BY <1>1, <1>2, <1>4 DEF Reservation!Cancel
<1>5. CASE row[b] = "cancelled"
  BY <1>1, <1>3, <1>5
<1> QED
  BY <1>3, <1>4, <1>5

\* Every step of the handlers, calls and transactions is a step of
\* SlotReservation or leaves its state alone.
LEMMA StepSimulation ==
  ASSUME IInv, IInv', Next
  PROVE  Reservation!SNext \/ UNCHANGED <<holdBar, row>>
<1> DEFINE Simulated == Reservation!SNext \/ UNCHANGED <<holdBar, row>>
<1>a. ASSUME NEW b \in Bookings,
             \/ Reservation!Reserve(b) \/ Reservation!GiveBack(b)
             \/ Reservation!GiveUp(b) \/ Reservation!Record(b)
             \/ Reservation!Cancel(b)
      PROVE  Simulated
  BY <1>a DEF Reservation!SNext
<1>t. TypeOK /\ NoBooking \notin Bookings /\ Bookings \cap Cancels = {}
  BY SagaAssumption DEF IInv
<1>1. ASSUME NEW b \in Bookings, CreateStep(b) \/ DetachedStep(b) PROVE Simulated
  <2>1. CASE BookSlot(b)
    <3>1. MayTake(b) /\ ~MayTake(b)'
      BY <1>t, <2>1 DEF BookSlot, MayTake, InFlight, TypeOK, IInv, WriteAfterBook, Procs
    <3>2. \A o \in Bookings \ {b} : MayTake(o)' <=> MayTake(o)
      BY <1>t, <2>1 DEF BookSlot, MayTake, InFlight, TypeOK, Procs
    <3>3. CASE Bookable(b)
      BY <1>a, <2>1, <3>1, <3>2, <3>3, TakeIsReserve DEF BookSlot
    <3>4. CASE ~Bookable(b)
      BY <1>a, <2>1, <3>1, <3>2, <3>4, DropIsGiveUp DEF BookSlot
    <3> QED
      BY <3>3, <3>4
  <2>2. CASE CommitSucceeds(b)
    <3>1. \A o \in Bookings : MayTake(o)' <=> MayTake(o)
      BY <1>t, <2>2 DEF CommitSucceeds, MayTake, InFlight, TypeOK, Procs
    <3>2. tx[b] # "none"
      BY <2>2 DEF CommitSucceeds, IInv, WriteAfterBook
    <3> QED
      BY <1>a, <2>2, <3>1, <3>2, CommitIsRecord DEF CommitSucceeds
  <2>3. CASE DetachedCommits(b)
    <3>1. \A o \in Bookings : MayTake(o)' <=> MayTake(o)
      BY <2>3 DEF DetachedCommits, MayTake, InFlight
    <3> QED
      BY <1>a, <2>3, <3>1, CommitIsRecord DEF DetachedCommits
  <2>4. ASSUME UNCHANGED <<owner, row, orphans>>,
               UNCHANGED rpc \/ rpc' \in [Procs -> {"none", "sent", "ok", "refused", "error"}],
               pc[b] # "idle", pc'[b] \notin {"idle", "booking"},
               pc[b] = "booking" => rpc[b] # "sent",
               \A o \in Procs \ {b} : pc'[o] = pc[o] /\ rpc'[o] = rpc[o]
        PROVE  UNCHANGED <<holdBar, row>>
    <3>1. \A o \in Bookings : MayTake(o)' <=> MayTake(o)
      BY <2>4 DEF MayTake, InFlight, Procs
    <3> QED
      BY <2>4, <3>1, HoldUnchanged
  <2>5. CASE BookSlotReturns(b)
    BY <1>t, <2>4, <2>5 DEF BookSlotReturns, TypeOK, Procs
  <2>6. CASE InsertBooking(b)
    BY <1>t, <2>4, <2>6 DEF InsertBooking, Compensate, TypeOK, Procs
  <2>7. CASE InsertFails(b)
    BY <1>t, <2>4, <2>7 DEF InsertFails, Compensate, TypeOK, Procs
  <2>8. CASE CommitRolledBack(b)
    BY <1>t, <2>4, <2>8 DEF CommitRolledBack, Compensate, TypeOK, Procs
  <2>9. CASE CommitUnknown(b)
    BY <1>t, <2>4, <2>9 DEF CommitUnknown, TypeOK, Procs
  <2>10. CASE LookupBooking(b)
    BY <1>t, <2>4, <2>10 DEF LookupBooking, Compensate, TypeOK, Procs
  <2>11. CASE LookupFails(b)
    BY <1>t, <2>4, <2>11 DEF LookupFails, TypeOK, Procs
  <2>12. CASE CompensationReturns(b)
    BY <1>t, <2>4, <2>12 DEF CompensationReturns, TypeOK, Procs
  <2>13. CASE DetachedRollsBack(b)
    <3>1. \A o \in Bookings : MayTake(o)' <=> MayTake(o)
      BY <2>13 DEF DetachedRollsBack, MayTake, InFlight
    <3> QED
      BY <2>13, <3>1, HoldUnchanged DEF DetachedRollsBack
  <2> QED
    BY <1>1, <2>1, <2>2, <2>3, <2>5, <2>6, <2>7, <2>8, <2>9, <2>10, <2>11,
       <2>12, <2>13
    DEF CreateStep, DetachedStep
<1>2. ASSUME NEW b \in Bookings, CreateBooking(b) PROVE Simulated
  <2>1. \A o \in Bookings : MayTake(o)' <=> MayTake(o)
    BY <1>t, <1>2 DEF CreateBooking, MayTake, InFlight, TypeOK, Procs
  <2> QED
    BY <1>2, <2>1, HoldUnchanged DEF CreateBooking
<1>3. ASSUME NEW b \in Bookings, CreateCrashes(b) PROVE Simulated
  <2>1. UNCHANGED <<owner, row>>
    BY <1>3 DEF CreateCrashes
  <2>2. \A o \in Bookings \ {b} : MayTake(o)' <=> MayTake(o)
    BY <1>t, <1>3 DEF CreateCrashes, CallOf, Subject, MayTake, InFlight, TypeOK, Procs
  <2>3. MayTake(b)' => MayTake(b)
    BY <1>t, <1>3
    DEF CreateCrashes, Running, CallOf, Subject, MayTake, InFlight, TypeOK, Procs
  <2>4. CASE MayTake(b)' <=> MayTake(b)
    BY <2>1, <2>2, <2>4, HoldUnchanged
  <2>5. CASE MayTake(b) /\ ~MayTake(b)'
    BY <1>a, <2>1, <2>2, <2>5, DropIsGiveUp
  <2> QED
    BY <2>3, <2>4, <2>5
<1>4. ASSUME NEW c \in Cancels,
             \/ CancelStep(c) \/ CancelCrashes(c)
             \/ \E u \in Users, b \in Bookings : CancelBooking(c, u, b)
      PROVE  Simulated
  <2> DEFINE b == target[c]
  <2>1. ASSUME pc[c] # "idle" PROVE b \in Bookings
    BY <1>t, <2>1 DEF TypeOK
  <2>2. \A o \in Bookings : MayTake(o)' <=> MayTake(o)
    <3>1. \A o \in Bookings : pc'[o] = pc[o] /\ rpc'[o] = rpc[o]
      BY <1>t, <1>4
      DEF CancelStep, CancelCrashes, CancelBooking, ReleaseConfirmed,
          ReleaseNotConfirmed, CancelRow, CancelRowFails, Answered, TypeOK, Procs
    <3>2. \A o \in Bookings : InFlight("book", o)' <=> InFlight("book", o)
      <4>1. CASE UNCHANGED orphans
        BY <4>1 DEF InFlight
      <4>2. CASE CancelRowFails(c)
        BY <4>2 DEF CancelRowFails, InFlight
      <4>3. CASE CancelCrashes(c)
        BY <1>t, <4>3 DEF CancelCrashes, CallOf, InFlight, TypeOK, CancelPc
      <4> QED
        BY <1>4, <4>1, <4>2, <4>3
        DEF CancelStep, CancelBooking, ReleaseConfirmed, ReleaseNotConfirmed,
            CancelRow
    <3> QED
      BY <3>1, <3>2 DEF MayTake
  <2>3. CASE CancelRow(c)
    <3>1. b \in Bookings /\ row[b] # "absent" /\ GivenBack(b)
      BY <2>1, <2>3 DEF CancelRow, IInv, CancelAfterRelease
    <3>2. row' = [row EXCEPT ![b] = "cancelled"] /\ UNCHANGED owner
      BY <2>3 DEF CancelRow
    <3> HIDE DEF b
    <3> QED
      BY <1>a, <2>2, <3>1, <3>2, UpdateIsCancel
  <2>4. CASE UNCHANGED <<owner, row>>
    BY <2>2, <2>4, HoldUnchanged
  <2> QED
    BY <1>4, <2>3, <2>4
    DEF CancelStep, CancelCrashes, CancelBooking, ReleaseConfirmed,
        ReleaseNotConfirmed, CancelRowFails
<1>5. ASSUME NEW p \in Procs, ReleaseSlot(p) PROVE Simulated
  <2>1. \A o \in Bookings : MayTake(o)' <=> MayTake(o)
    BY <1>t, <1>5 DEF ReleaseSlot, MayTake, InFlight, TypeOK, Procs
  <2>2. Subject(p) \in Bookings
    BY <1>t, <1>5 DEF ReleaseSlot, Subject, TypeOK, Procs
  <2> QED
    BY <1>a, <1>5, <2>1, <2>2, FreeIsGiveBack DEF ReleaseSlot
<1>6. ASSUME NEW p \in Procs, CallFails(p) PROVE Simulated
  <2>1. UNCHANGED <<owner, row>>
    BY <1>6 DEF CallFails
  <2>2. CASE \A o \in Bookings : MayTake(o)' <=> MayTake(o)
    BY <2>1, <2>2, HoldUnchanged
  <2>3. ASSUME NEW o \in Bookings, ~(MayTake(o)' <=> MayTake(o))
        PROVE  /\ MayTake(o) /\ ~MayTake(o)'
               /\ \A r \in Bookings \ {o} : MayTake(r)' <=> MayTake(r)
    BY <1>t, <1>6, <2>3
    DEF CallFails, CallOf, Subject, MayTake, InFlight, TypeOK, Procs, CancelPc
  <2> QED
    BY <1>a, <2>1, <2>2, <2>3, DropIsGiveUp
<1>7. ASSUME NEW m \in orphans, OrphanRuns(m) \/ OrphanDropped(m) PROVE Simulated
  <2> DEFINE b == m.booking
  <2>1. m \in Orphan /\ b \in Bookings
    BY <1>t DEF TypeOK, Orphan
  <2>2. CASE m.op # "book"
    <3>1. \A o \in Bookings : MayTake(o)' <=> MayTake(o)
      BY <1>7, <2>2 DEF OrphanRuns, OrphanDropped, MayTake, InFlight
    <3>2. CASE OrphanDropped(m)
      BY <3>1, <3>2, HoldUnchanged DEF OrphanDropped
    <3>3. CASE OrphanRuns(m) /\ m.op = "release"
      <4>1. owner' = Freed(b) /\ UNCHANGED row
        BY <3>3 DEF OrphanRuns
      <4> HIDE DEF b
      <4> QED
        BY <1>a, <2>1, <3>1, <4>1, FreeIsGiveBack
    <3>4. CASE OrphanRuns(m) /\ m.op = "cancel"
      <4>1. row' = [row EXCEPT ![b] = "cancelled"] /\ UNCHANGED owner
        BY <3>4 DEF OrphanRuns
      <4>2. InFlight("cancel", b)
        BY <2>1, <3>4 DEF InFlight, Orphan
      <4>3. row[b] # "absent" /\ GivenBack(b)
        BY <2>1, <4>2 DEF IInv, CancelAfterRelease
      <4> HIDE DEF b
      <4> QED
        BY <1>a, <2>1, <3>1, <4>1, <4>3, UpdateIsCancel
    <3> QED
      BY <1>7, <2>1, <2>2, <3>2, <3>3, <3>4 DEF Orphan
  <2>3. CASE m.op = "book"
    <3>1. InFlight("book", b)
      BY <2>1, <2>3 DEF InFlight, Orphan
    <3>2. MayTake(b) /\ ~MayTake(b)'
      BY <1>7, <2>1, <2>3, <3>1
      DEF OrphanRuns, OrphanDropped, MayTake, InFlight, Orphan, IInv,
          WriteAfterBook
    <3>3. \A o \in Bookings \ {b} : MayTake(o)' <=> MayTake(o)
      BY <1>7, <2>1, <2>3 DEF OrphanRuns, OrphanDropped, MayTake, InFlight, Orphan
    <3>4. CASE OrphanRuns(m) /\ Bookable(b)
      <4>1. owner' = Booked(b) /\ UNCHANGED row
        BY <2>3, <3>4 DEF OrphanRuns
      <4> HIDE DEF b
      <4> QED
        BY <1>a, <2>1, <3>2, <3>3, <3>4, <4>1, TakeIsReserve
    <3>5. CASE OrphanDropped(m) \/ ~Bookable(b)
      <4>1. UNCHANGED <<owner, row>>
        BY <1>7, <2>3, <3>5 DEF OrphanRuns, OrphanDropped
      <4> HIDE DEF b
      <4> QED
        BY <1>a, <2>1, <3>2, <3>3, <4>1, DropIsGiveUp
    <3> QED
      BY <1>7, <3>4, <3>5
  <2> QED
    BY <2>2, <2>3
<1>8. ASSUME (\E p \in Procs : ClientGone(p)) \/ (\E s \in Existing : SlotStarts(s))
      PROVE  Simulated
  <2>1. UNCHANGED <<owner, row, pc, rpc, orphans>>
    BY <1>8 DEF ClientGone, SlotStarts
  <2>2. \A o \in Bookings : MayTake(o)' <=> MayTake(o)
    BY <2>1 DEF MayTake, InFlight
  <2> QED
    BY <2>1, <2>2, HoldUnchanged
<1> QED
  BY <1>1, <1>2, <1>3, <1>4, <1>5, <1>6, <1>7, <1>8 DEF Next, CallStep

\* The requests with all their failures implement SlotReservation.
THEOREM Refinement == Spec => KeepsReservations
<1>1. Init => Reservation!SInit
  <2> SUFFICES ASSUME Init PROVE Reservation!SInit
    OBVIOUS
  <2>1. ASSUME NEW b \in Bookings PROVE Hold(b) = "fresh"
    BY SagaAssumption DEF Init, Hold, MayTake, GivenBack, Procs
  <2> QED
    BY <2>1 DEF Init, Reservation!SInit, holdBar
<1>2. IInv /\ IInv' /\ [Next]_vars => [Reservation!SNext]_(Reservation!svars)
  <2> SUFFICES ASSUME IInv, IInv', [Next]_vars
               PROVE  [Reservation!SNext]_(Reservation!svars)
    OBVIOUS
  <2>1. CASE UNCHANGED vars
    <3>1. \A o \in Bookings : MayTake(o)' <=> MayTake(o)
      BY <2>1 DEF vars, MayTake, InFlight
    <3> QED
      BY <2>1, <3>1, HoldUnchanged DEF vars, Reservation!svars
  <2> QED
    BY <2>1, StepSimulation DEF Reservation!svars
<1> QED
  BY <1>1, <1>2, Invariance, PTL
  DEF Spec, KeepsReservations, Reservation!SSpec

-----------------------------------------------------------------------------
(* What ConferenceJobs assumes of the saga *)

\* The rows of bookings change only as they do in ConferenceJobs: a row is made
\* active once (CreateWithConferenceJob) and is cancelled from then on (Cancel),
\* so that a worker that saw a booking cancelled is right for ever.
THEOREM RowsMoveOnce ==
    Spec => [][\E b \in Bookings :
                  \/ row[b] = "absent" /\ row' = [row EXCEPT ![b] = "active"]
                  \/ row[b] = "active" /\ row' = [row EXCEPT ![b] = "cancelled"]]_row
<1> DEFINE RowStep == \E b \in Bookings :
              \/ row[b] = "absent" /\ row' = [row EXCEPT ![b] = "active"]
              \/ row[b] = "active" /\ row' = [row EXCEPT ![b] = "cancelled"]
<1>1. [Reservation!SNext]_(Reservation!svars) => [RowStep]_row
  BY DEF Reservation!SNext, Reservation!svars, Reservation!Reserve,
     Reservation!GiveBack, Reservation!GiveUp, Reservation!Record,
     Reservation!Cancel
<1> HIDE DEF RowStep
<1>2. Spec => [][RowStep]_row
  BY <1>1, Refinement, PTL DEF KeepsReservations, Reservation!SSpec
<1> QED
  BY <1>2 DEF RowStep
=============================================================================
