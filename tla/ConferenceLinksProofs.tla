------------------------- MODULE ConferenceLinksProofs -------------------------
(***************************************************************************)
(* Proofs about ConferenceLinks, for any number of bookings, workers and   *)
(* goroutines: LInv is an invariant, from which follows what the answers   *)
(* of the conference service are worth.  Every action that changes the     *)
(* jobs is defined as one of ConferenceJobs, so the theorems of            *)
(* ConferenceJobsProofs hold here too.                                     *)
(***************************************************************************)
EXTENDS ConferenceLinks, ConferenceJobsProofs

-----------------------------------------------------------------------------
(* The jobs *)

\* Every step is a step of the jobs or leaves them alone.
LEMMA StepImplementsJobs == [LNext]_lvars => [Next]_vars
<1>. SUFFICES ASSUME [LNext]_lvars PROVE [Next]_vars
  OBVIOUS
<1>1. CASE \E b \in Bookings : Cancel(b) \/ Elsewhere(b)
  BY <1>1 DEF Cancel, Elsewhere, Next
<1>2. CASE \E w \in Workers : TakeJob(w) \/ CallFails(w) \/ RecordLink(w)
                              \/ EndJob(w) \/ StopWorker(w)
  BY <1>2 DEF TakeJob, CallFails, RecordLink, EndJob, StopWorker, Next, WorkerStep
<1>3. CASE \E w \in Workers : CallArrives(w)
  BY <1>3 DEF CallArrives
<1>4. CASE \E g \in Goroutines : Serve(g)
  BY <1>4 DEF Serve, ReadLock, ReadHit, ReadMiss, WriteLock, Create, Answer,
     FailureSimulated, Next, WorkerStep
<1>5. CASE ConferenceStops
  BY <1>5 DEF ConferenceStops
<1>6. CASE UNCHANGED lvars
  BY <1>6 DEF lvars
<1>. QED  BY <1>1, <1>2, <1>3, <1>4, <1>5, <1>6 DEF LNext

\* So the theorems about the jobs hold of the jobs in this composition.
LEMMA JobsIncluded == LSpec => Spec
<1>1. LInit => Init
  BY DEF LInit
<1>. QED  BY <1>1, StepImplementsJobs, PTL DEF LSpec, Spec

-----------------------------------------------------------------------------
(* The invariant *)

\* LInv holds before the first call.
LEMMA InitLInv == LInit => LInv
<1>. SUFFICES ASSUME LInit PROVE LInv
  OBVIOUS
<1>1. TypeOK
  BY InitJInv DEF LInit, JInv
<1>2. LTypeOK
  BY <1>1, LinksAssumption DEF LInit, LTypeOK
<1>3. LocksGivenBack /\ ServingOk
  BY LinksAssumption DEF LInit, LocksGivenBack, ServingOk
<1>4. CallsMatch /\ LinksRight
  BY LinksAssumption DEF LInit, Init, CallsMatch, LinksRight
<1>. QED  BY <1>2, <1>3, <1>4 DEF LInv

\* A worker at work has a job of a booking.
LEMMA WorkersHaveBookings ==
    ASSUME TypeOK, NEW w \in Workers, wpc[w] # "idle"
    PROVE  current[w] # NoJob /\ current[w].booking \in Bookings
BY DEF TypeOK, Claimed

\* What the jobs do without a call leaves the conference service alone.
LEMMA JobStepKeepsLInv ==
    ASSUME LInv, TypeOK',
           \/ \E b \in Bookings : Cancel(b) \/ Elsewhere(b)
           \/ \E w \in Workers : TakeJob(w)
    PROVE  LInv'
<1> USE LinksAssumption DEF LInv, LTypeOK, store
<1>1. LTypeOK' /\ LocksGivenBack' /\ ServingOk'
  BY DEF Cancel, Elsewhere, TakeJob, LocksGivenBack, ServingOk
<1>2. CASE \E b \in Bookings : Cancel(b)
  <2>1. PICK b \in Bookings : Cancel(b)
    BY <1>2
  <2>2. CallsMatch'
    BY <2>1 DEF Cancel, CancelBooking, CallsMatch
  <2>3. \A c \in Bookings : stored'[c] \in {LinkOf[c], None}
    BY <2>1 DEF Cancel, LinksRight
  <2>4. \A c \in Bookings : link'[c] <=> stored'[c] # None
    <3>1. \A c \in Bookings : link'[c] = IF c = b THEN FALSE ELSE link[c]
      BY <2>1 DEF Cancel, CancelBooking, TypeOK
    <3>2. \A c \in Bookings : stored'[c] = IF c = b THEN None ELSE stored[c]
      BY <2>1 DEF Cancel
    <3>. QED  BY <3>1, <3>2 DEF LinksRight
  <2>5. LinksRight'
    BY <2>1, <2>3, <2>4 DEF Cancel, CancelBooking, LinksRight
  <2>. QED  BY <1>1, <2>2, <2>5
<1>3. CASE \E b \in Bookings : Elsewhere(b)
  BY <1>1, <1>3 DEF Elsewhere, CreateBooking, RetryDue, LeaseEnds, CallsMatch, LinksRight
<1>4. CASE \E w \in Workers : TakeJob(w)
  <2>1. PICK w \in Workers : TakeJob(w)
    BY <1>4
  <2>2. UNCHANGED <<link, links, stored, call, got, gpc, asked>> /\ wpc[w] = "idle"
    BY <2>1 DEF TakeJob, Claim, LoadBooking, LoadFails, table
  <2>3. \A v \in Workers : v # w => wpc'[v] = wpc[v] /\ current'[v] = current[v]
    BY <2>1 DEF TakeJob, Claim, LoadBooking, LoadFails, table, TypeOK
  <2>4. wpc'[w] \in {"idle", "discard", "call"}
    BY <2>1 DEF TakeJob, Claim, LoadBooking, LoadFails, table, TypeOK
  <2>5. CallsMatch'
    BY <2>2, <2>3 DEF CallsMatch
  <2>6. LinksRight'
    BY <2>2, <2>3, <2>4 DEF LinksRight
  <2>. QED  BY <1>1, <2>5, <2>6
<1>. QED  BY <1>2, <1>3, <1>4

\* A worker that lets go of its job waits for no answer and has no link.
LEMMA EndOfJobKeepsLInv ==
    ASSUME LInv, TypeOK', NEW w \in Workers,
           CallFails(w) \/ RecordLink(w) \/ EndJob(w) \/ StopWorker(w)
    PROVE  LInv'
<1> USE LinksAssumption DEF LInv, LTypeOK, store
<1>1. UNCHANGED <<links, readers, writer, gpc, asked, reply, restarts>>
  BY DEF CallFails, RecordLink, EndJob, StopWorker
<1>2. wpc[w] # "idle" \/ call[w] = None
  BY DEF CallsMatch
<1>3. \A v \in Workers : v # w =>
         /\ wpc'[v] = wpc[v] /\ current'[v] = current[v]
         /\ call'[v] = call[v] /\ got'[v] = got[v]
  BY DEF CallFails, RecordLink, EndJob, StopWorker, TypeOK, RequestLink, Complete,
     Discard, Fail, Reschedule, OutcomeRefused, OutcomeLost, WorkerStops, NextJob
<1>4. call'[w] = None /\ wpc'[w] # "complete"
  BY DEF CallFails, RecordLink, EndJob, StopWorker, TypeOK, RequestLink, Complete,
     Discard, Fail, Reschedule, OutcomeRefused, OutcomeLost, WorkerStops, NextJob,
     CallsMatch
<1>5. call' \in [Workers -> Goroutines \cup {None}] /\ got' \in [Workers -> Links \cup {None}]
  BY DEF CallFails, RecordLink, EndJob, StopWorker
<1>6. \/ UNCHANGED <<link, stored>>
      \/ /\ RecordLink(w) /\ wpc[w] = "complete"
         /\ link' = [link EXCEPT ![current[w].booking] =
                       @ \/ row[current[w].booking] = "active"]
         /\ stored' = [stored EXCEPT ![current[w].booking] =
                         IF row[current[w].booking] = "active" THEN got[w] ELSE @]
  BY DEF CallFails, RecordLink, EndJob, StopWorker, RequestLink, Complete, Discard, Fail,
     Reschedule, OutcomeRefused, OutcomeLost, WorkerStops, StoreLink, table
<1>7. /\ stored' \in [Bookings -> Links \cup {None}]
      /\ \A b \in Bookings : stored'[b] \in {LinkOf[b], None}
      /\ \A b \in Bookings : link'[b] <=> stored'[b] # None
  <2>1. CASE UNCHANGED <<link, stored>>
    BY <2>1 DEF LinksRight
  <2>2. CASE ~UNCHANGED <<link, stored>>
    <3>1. current[w].booking \in Bookings /\ got[w] = LinkOf[current[w].booking]
      BY <1>6, <2>2, WorkersHaveBookings DEF LinksRight
    <3>2. LinkOf[current[w].booking] \in Links
      BY <3>1
    <3>3. PICK c \in Bookings :
             /\ got[w] = LinkOf[c] /\ LinkOf[c] \in Links /\ LinkOf[c] # None
             /\ link' = [link EXCEPT ![c] = @ \/ row[c] = "active"]
             /\ stored' = [stored EXCEPT ![c] = IF row[c] = "active" THEN got[w] ELSE @]
      BY <1>6, <2>2, <3>1, <3>2
    <3>4. stored' \in [Bookings -> Links \cup {None}]
      BY <3>3
    <3>5. ASSUME NEW b \in Bookings
          PROVE  stored'[b] \in {LinkOf[b], None} /\ (link'[b] <=> stored'[b] # None)
      <4>1. link[b] <=> stored[b] # None
        BY DEF LinksRight
      <4>2. /\ link'[b] = IF b = c THEN link[c] \/ row[c] = "active" ELSE link[b]
            /\ stored'[b] = IF b = c /\ row[c] = "active" THEN got[w] ELSE stored[b]
        BY <3>3 DEF TypeOK
      <4>3. stored[b] \in {LinkOf[b], None}
        BY DEF LinksRight
      <4>. QED  BY <3>3, <4>1, <4>2, <4>3
    <3>. QED  BY <3>4, <3>5
  <2>. QED  BY <2>1, <2>2
<1>8. LTypeOK'
  BY <1>1, <1>5, <1>7
<1>9. LocksGivenBack' /\ ServingOk'
  BY <1>1 DEF LocksGivenBack, ServingOk
<1>10. CallsMatch'
  BY <1>1, <1>3, <1>4 DEF CallsMatch
<1>11. LinksRight'
  BY <1>1, <1>3, <1>4, <1>7 DEF LinksRight
<1>. QED  BY <1>8, <1>9, <1>10, <1>11

\* A call is taken by a goroutine that nobody waits for.
LEMMA CallArrivesKeepsLInv ==
    ASSUME LInv, NEW w \in Workers, CallArrives(w) PROVE LInv'
<1> USE LinksAssumption DEF LInv, LTypeOK
<1>1. PICK g \in Free :
         /\ gpc' = [gpc EXCEPT ![g] = "arrived"]
         /\ asked' = [asked EXCEPT ![g] = current[w].booking]
         /\ call' = [call EXCEPT ![w] = g]
  BY DEF CallArrives
<1>2. g \in Goroutines /\ gpc[g] = "idle" /\ \A v \in Workers : call[v] # g
  BY <1>1 DEF Free
<1>3. UNCHANGED <<wpc, current, link, links, readers, writer, reply, got, stored, restarts>>
  BY DEF CallArrives, vars
<1>4. wpc[w] = "call" /\ current[w].booking \in Bookings
  BY WorkersHaveBookings DEF CallArrives
<1>5. TypeOK'
  BY DEF CallArrives, vars, TypeOK
<1>6. LTypeOK'
  BY <1>1, <1>2, <1>3, <1>4, <1>5
<1>7. LocksGivenBack'
  BY <1>1, <1>2, <1>3 DEF LocksGivenBack
<1>8. ServingOk'
  BY <1>1, <1>2, <1>3, <1>4 DEF ServingOk
<1>9. CallsMatch'
  BY <1>1, <1>2, <1>3, <1>4 DEF CallsMatch
<1>10. LinksRight'
  BY <1>3 DEF LinksRight
<1>. QED  BY <1>6, <1>7, <1>8, <1>9, <1>10

\* At the map a goroutine holds the lock it needs, and no other.
LEMMA MapStepKeepsLInv ==
    ASSUME LInv, NEW g \in Goroutines,
           ReadLock(g) \/ ReadHit(g) \/ ReadMiss(g) \/ WriteLock(g) \/ Create(g)
    PROVE  LInv'
<1> USE LinksAssumption DEF LInv, LTypeOK
<1>1. UNCHANGED <<wpc, current, link, asked, call, got, stored, restarts>> /\ TypeOK'
  BY DEF ReadLock, ReadHit, ReadMiss, WriteLock, Create, vars, TypeOK
<1>2. gpc[g] # "idle" /\ asked[g] \in Bookings /\ LinkOf[asked[g]] \in Links
  BY DEF ReadLock, ReadHit, ReadMiss, WriteLock, Create, ServingOk
<1>3. CASE ReadLock(g)
  <2>1. LTypeOK' /\ LocksGivenBack'
    BY <1>1, <1>3 DEF ReadLock, LocksGivenBack
  <2>2. ServingOk' /\ CallsMatch' /\ LinksRight'
    BY <1>1, <1>2, <1>3 DEF ReadLock, ServingOk, CallsMatch, LinksRight
  <2>. QED  BY <2>1, <2>2
<1>4. CASE ReadHit(g)
  <2>1. LTypeOK' /\ LocksGivenBack'
    BY <1>1, <1>2, <1>4 DEF ReadHit, LocksGivenBack
  <2>2. ServingOk' /\ CallsMatch' /\ LinksRight'
    BY <1>1, <1>2, <1>4 DEF ReadHit, ServingOk, CallsMatch, LinksRight
  <2>. QED  BY <2>1, <2>2
<1>5. CASE ReadMiss(g)
  <2>1. LTypeOK' /\ LocksGivenBack'
    BY <1>1, <1>5 DEF ReadMiss, LocksGivenBack
  <2>2. ServingOk' /\ CallsMatch' /\ LinksRight'
    BY <1>1, <1>2, <1>5 DEF ReadMiss, ServingOk, CallsMatch, LinksRight
  <2>. QED  BY <2>1, <2>2
<1>6. CASE WriteLock(g)
  <2>1. LTypeOK' /\ LocksGivenBack'
    BY <1>1, <1>6 DEF WriteLock, LocksGivenBack
  <2>2. ServingOk' /\ CallsMatch' /\ LinksRight'
    BY <1>1, <1>2, <1>6 DEF WriteLock, ServingOk, CallsMatch, LinksRight
  <2>. QED  BY <2>1, <2>2
<1>7. CASE Create(g)
  <2>1. PICK l : /\ l = IF links[asked[g]] # None THEN links[asked[g]]
                                                  ELSE LinkOf[asked[g]]
                 /\ links' = [links EXCEPT ![asked[g]] = l]
                 /\ reply' = [reply EXCEPT ![g] = l]
    BY <1>7 DEF Create, NewLink
  <2>2. l = LinkOf[asked[g]]
    BY <1>2, <2>1 DEF LinksRight
  <2>3. LTypeOK' /\ LocksGivenBack'
    BY <1>1, <1>2, <1>7, <2>1, <2>2 DEF Create, LocksGivenBack
  <2>4. ServingOk' /\ CallsMatch'
    BY <1>1, <1>2, <1>7, <2>1, <2>2 DEF Create, ServingOk, CallsMatch
  <2>5. LinksRight'
    BY <1>1, <1>2, <2>1, <2>2 DEF LinksRight
  <2>. QED  BY <2>3, <2>4, <2>5
<1>. QED  BY <1>3, <1>4, <1>5, <1>6, <1>7

\* The goroutine of a worker answers with the link of the worker's booking.
LEMMA ReturnKeepsLInv ==
    ASSUME LInv, TypeOK', NEW g \in Goroutines, Answer(g) \/ FailureSimulated(g)
    PROVE  LInv'
<1> USE LinksAssumption DEF LInv, LTypeOK
<1>1. /\ gpc[g] \in {"answer", "arrived"}
      /\ gpc' = [gpc EXCEPT ![g] = "idle"]
      /\ asked' = [asked EXCEPT ![g] = None]
      /\ reply' = [reply EXCEPT ![g] = None]
      /\ UNCHANGED <<link, links, readers, writer, stored, restarts>>
  BY DEF Answer, FailureSimulated, Return, RequestLink, table, vars
<1>2. LocksGivenBack' /\ ServingOk'
  BY <1>1 DEF LocksGivenBack, ServingOk
<1>3. CASE UNCHANGED <<wpc, current, call, got>>
  <2>1. LTypeOK'
    BY <1>1, <1>3
  <2>2. CallsMatch' /\ LinksRight'
    BY <1>1, <1>3 DEF CallsMatch, LinksRight
  <2>. QED  BY <1>2, <2>1, <2>2
<1>4. ASSUME NEW w \in Workers, call[w] = g, RequestLink(w),
             \/ /\ gpc[g] = "answer" /\ wpc'[w] = "complete"
                /\ got' = [got EXCEPT ![w] = reply[g]]
             \/ wpc'[w] = "retry" /\ got' = got,
             call' = [call EXCEPT ![w] = None]
      PROVE  LInv'
  <2>1. wpc[w] = "call" /\ current' = current
        /\ \A v \in Workers : v # w => wpc'[v] = wpc[v]
    BY <1>4 DEF RequestLink, TypeOK
  <2>2. gpc[g] = "answer" => reply[g] = LinkOf[current[w].booking]
    BY <1>4, <1>1 DEF CallsMatch, ServingOk
  <2>3. LTypeOK'
    BY <1>1, <1>4
  <2>4. CallsMatch'
    BY <1>1, <1>4, <2>1 DEF CallsMatch
  <2>5. LinksRight'
    BY <1>1, <1>4, <2>1, <2>2 DEF LinksRight
  <2>. QED  BY <1>2, <2>3, <2>4, <2>5
<1>. QED  BY <1>3, <1>4 DEF Answer, FailureSimulated, vars

\* A stop forgets the map and every goroutine.
LEMMA ConferenceStopsKeepsLInv == ASSUME LInv, ConferenceStops PROVE LInv'
<1> USE LinksAssumption DEF LInv, LTypeOK, ConferenceStops
<1>1. LTypeOK'
  BY DEF vars, TypeOK
<1>2. LocksGivenBack' /\ ServingOk'
  BY DEF LocksGivenBack, ServingOk
<1>3. CallsMatch' /\ LinksRight'
  BY DEF vars, CallsMatch, LinksRight
<1>. QED  BY <1>1, <1>2, <1>3

\* Every step keeps LInv; the types of the jobs are kept by their own proof.
LEMMA NextKeepsLInv == LInv /\ TypeOK' /\ [LNext]_lvars => LInv'
<1>. SUFFICES ASSUME LInv, TypeOK', [LNext]_lvars PROVE LInv'
  OBVIOUS
<1>1. CASE UNCHANGED lvars
  BY <1>1 DEF lvars, vars, store, LInv, LTypeOK, LocksGivenBack, CallsMatch, ServingOk,
     LinksRight
<1>2. CASE LNext
  BY <1>2, JobStepKeepsLInv, EndOfJobKeepsLInv, CallArrivesKeepsLInv, MapStepKeepsLInv,
     ReturnKeepsLInv, ConferenceStopsKeepsLInv DEF LNext, Serve
<1>. QED  BY <1>1, <1>2

\* LInv holds in every reachable state.
THEOREM LinksInvariance == LSpec => []LInv
<1>1. LSpec => []TypeOK
  BY JobsIncluded, JobsTypeCorrect
<1>. QED  BY <1>1, InitLInv, NextKeepsLInv, PTL DEF LSpec

-----------------------------------------------------------------------------
(* The theorems *)

\* Whatever times out, is repeated, runs twice or is restarted: all links about
\* a booking are the one of its id.
THEOREM LinkIsOwn == LSpec => []OneLinkPerBooking
<1>1. ASSUME LInv PROVE OneLinkPerBooking
  <2>. SUFFICES ASSUME NEW b \in Bookings, NEW l \in LinksOf(b)
                PROVE  l \in {LinkOf[b], None}
    BY DEF OneLinkPerBooking
  <2>1. links[b] \in {LinkOf[b], None} /\ stored[b] \in {LinkOf[b], None}
    BY <1>1 DEF LInv, LinksRight
  <2>2. \A g \in Goroutines : asked[g] = b => reply[g] \in {LinkOf[b], None}
    BY <1>1 DEF LInv, ServingOk
  <2>3. \A w \in Workers : wpc[w] = "complete" /\ current[w].booking = b
                           => got[w] = LinkOf[b]
    BY <1>1 DEF LInv, LinksRight
  <2>. QED  BY <2>1, <2>2, <2>3 DEF LinksOf
<1>. QED  BY <1>1, LinksInvariance, PTL

\* The lock keeps readers of the map away from the goroutine that enters a link.
THEOREM MapIsSafe == LSpec => []NoMapRace
<1>1. LInv => NoMapRace
  BY LinksAssumption DEF LInv, LTypeOK, LocksGivenBack, ServingOk, NoMapRace
<1>. QED  BY <1>1, LinksInvariance, PTL

\* No path through GetOrCreate keeps a lock.
THEOREM LocksAreGivenBack == LSpec => []LocksGivenBack
<1>1. LInv => LocksGivenBack
  BY DEF LInv
<1>. QED  BY <1>1, LinksInvariance, PTL

\* With the conference service as its environment, too, a user is shown what
\* has become of the job.
THEOREM StatusIsHonestWithService == LSpec => []StatusAgreesWithJob
BY JobsIncluded, StatusIsHonest

\* The workers and this conference service together keep the promise of
\* ConferenceOutbox.
THEOREM OutboxKeptWithService == LSpec => KeepsOutbox
BY JobsIncluded, JobsRefineOutbox
=============================================================================
