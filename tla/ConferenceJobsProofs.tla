------------------------ MODULE ConferenceJobsProofs ------------------------
(***************************************************************************)
(* Proofs about ConferenceJobs, for any number of bookings, workers,       *)
(* attempts and failures: the inductive invariant JInv, one lemma per      *)
(* action, and the theorems that follow from it.                           *)
(***************************************************************************)
EXTENDS ConferenceJobs, TLAPS

\* JInv holds before anything was booked.
LEMMA InitJInv == Init => JInv
<1>. SUFFICES ASSUME Init PROVE JInv
  OBVIOUS
<1>1. TypeOK
  BY JobsAssumption DEF Init, TypeOK, MaxCalls
<1>2. \A w \in Workers : Work(w) = {}
  BY DEF Init, Work
<1>3. JobWithBooking /\ StatusAgreesWithJob /\ CancelledHasNoLink
  BY JobsAssumption DEF Init, JobWithBooking, StatusAgreesWithJob, CancelledHasNoLink
<1>4. AttemptsLeft /\ WorkIsRecorded
  BY <1>2, JobsAssumption DEF Init, AttemptsLeft, WorkIsRecorded
<1>5. ClaimIsGood /\ CallsAreCounted
  BY <1>2 DEF Init, ClaimIsGood, CallsAreCounted, Answered
<1>. QED  BY <1>1, <1>3, <1>4, <1>5 DEF JInv

-----------------------------------------------------------------------------
(* One lemma per action *)

\* CreateBooking writes a row and a job nobody works on yet.
LEMMA CreateBookingKeepsJInv ==
    ASSUME JInv, NEW b \in Bookings, CreateBooking(b) PROVE JInv'
<1> USE JobsAssumption DEF JInv, CreateBooking
<1>1. TypeOK'
  BY DEF TypeOK, AttemptsLeft, Claimed, Work, MaxCalls
<1>2. JobWithBooking' /\ AttemptsLeft'
  BY DEF TypeOK, JobWithBooking, AttemptsLeft, WorkIsRecorded, Claimed, Work
<1>3. WorkIsRecorded'
  BY DEF TypeOK, WorkIsRecorded, JobWithBooking, Claimed, Work
<1>4. StatusAgreesWithJob' /\ CancelledHasNoLink'
  BY DEF TypeOK, StatusAgreesWithJob, CancelledHasNoLink, WorkIsRecorded,
         JobWithBooking, Work
<1>5. ClaimIsGood'
  BY DEF TypeOK, ClaimIsGood, JobWithBooking, WorkIsRecorded, Claimed, Work
<1>6. CallsAreCounted'
  BY DEF TypeOK, CallsAreCounted, ClaimIsGood, AttemptsLeft, Answered,
         Claimed, Work, MaxCalls
<1> HIDE DEF CreateBooking
<1>. QED  BY <1>1, <1>2, <1>3, <1>4, <1>5, <1>6 DEF JInv

\* CancelBooking clears the link and leaves the job to the worker.
LEMMA CancelBookingKeepsJInv ==
    ASSUME JInv, NEW b \in Bookings, CancelBooking(b) PROVE JInv'
<1> USE JobsAssumption DEF JInv, CancelBooking
<1>1. TypeOK'
  BY DEF TypeOK, AttemptsLeft, Claimed, Work, MaxCalls
<1>2. JobWithBooking' /\ AttemptsLeft'
  BY DEF TypeOK, JobWithBooking, AttemptsLeft, WorkIsRecorded, Claimed, Work
<1>3. WorkIsRecorded'
  BY DEF TypeOK, WorkIsRecorded, JobWithBooking, Claimed, Work
<1>4. StatusAgreesWithJob' /\ CancelledHasNoLink'
  BY DEF TypeOK, StatusAgreesWithJob, CancelledHasNoLink, WorkIsRecorded,
         JobWithBooking, Work
<1>5. ClaimIsGood'
  BY DEF TypeOK, ClaimIsGood, JobWithBooking, WorkIsRecorded, Claimed, Work
<1>6. CallsAreCounted'
  BY DEF TypeOK, CallsAreCounted, ClaimIsGood, AttemptsLeft, Answered,
         Claimed, Work, MaxCalls
<1> HIDE DEF CancelBooking
<1>. QED  BY <1>1, <1>2, <1>3, <1>4, <1>5, <1>6 DEF JInv

\* Time makes a job claimable and changes nothing else.
LEMMA RetryDueKeepsJInv ==
    ASSUME JInv, NEW b \in Bookings, RetryDue(b) PROVE JInv'
<1> USE JobsAssumption DEF JInv, RetryDue
<1>1. TypeOK'
  BY DEF TypeOK, AttemptsLeft, Claimed, Work, MaxCalls
<1>2. JobWithBooking' /\ AttemptsLeft'
  BY DEF TypeOK, JobWithBooking, AttemptsLeft, WorkIsRecorded, Claimed, Work
<1>3. WorkIsRecorded'
  BY DEF TypeOK, WorkIsRecorded, JobWithBooking, Claimed, Work
<1>4. StatusAgreesWithJob' /\ CancelledHasNoLink'
  BY DEF TypeOK, StatusAgreesWithJob, CancelledHasNoLink, WorkIsRecorded,
         JobWithBooking, Work
<1>5. ClaimIsGood'
  BY DEF TypeOK, ClaimIsGood, JobWithBooking, WorkIsRecorded, Claimed, Work
<1>6. CallsAreCounted'
  BY DEF TypeOK, CallsAreCounted, ClaimIsGood, AttemptsLeft, Answered,
         Claimed, Work, MaxCalls
<1> HIDE DEF RetryDue
<1>. QED  BY <1>1, <1>2, <1>3, <1>4, <1>5, <1>6 DEF JInv

\* Without stalls a lease ends only when nobody works on the job.
LEMMA LeaseEndsKeepsJInv ==
    ASSUME JInv, NEW b \in Bookings, LeaseEnds(b) PROVE JInv'
<1> USE JobsAssumption DEF JInv, LeaseEnds, Holds
<1>1. TypeOK'
  BY DEF TypeOK, AttemptsLeft, Claimed, Work, MaxCalls
<1>2. JobWithBooking' /\ AttemptsLeft'
  BY DEF TypeOK, JobWithBooking, AttemptsLeft, WorkIsRecorded, Claimed, Work
<1>3. WorkIsRecorded'
  BY DEF TypeOK, WorkIsRecorded, JobWithBooking, Claimed, Work
<1>4. StatusAgreesWithJob' /\ CancelledHasNoLink'
  BY DEF TypeOK, StatusAgreesWithJob, CancelledHasNoLink, WorkIsRecorded,
         JobWithBooking, Work
<1>5. ClaimIsGood'
  BY DEF TypeOK, ClaimIsGood, JobWithBooking, WorkIsRecorded, Claimed, Work
<1>6. CallsAreCounted'
  BY DEF TypeOK, CallsAreCounted, ClaimIsGood, AttemptsLeft, Answered,
         Claimed, Work, MaxCalls
<1> HIDE DEF LeaseEnds, Holds
<1>. QED  BY <1>1, <1>2, <1>3, <1>4, <1>5, <1>6 DEF JInv

\* Claim takes only jobs nobody works on, with the attempts stored for them.
LEMMA ClaimKeepsJInv ==
    ASSUME JInv, NEW w \in Workers, Claim(w) PROVE JInv'
<1> USE JobsAssumption DEF JInv, Claim, Claimable
<1>1. TypeOK'
  BY DEF TypeOK, AttemptsLeft, Claimed, Work, MaxCalls
<1>2. JobWithBooking' /\ AttemptsLeft'
  BY DEF TypeOK, JobWithBooking, AttemptsLeft, WorkIsRecorded, Claimed, Work
<1>3. WorkIsRecorded'
  BY DEF TypeOK, WorkIsRecorded, JobWithBooking, Claimed, Work
<1>4. StatusAgreesWithJob' /\ CancelledHasNoLink'
  BY DEF TypeOK, StatusAgreesWithJob, CancelledHasNoLink, WorkIsRecorded,
         JobWithBooking, Work
<1>5. ClaimIsGood'
  <2>. SUFFICES ASSUME "stall" \notin Faults PROVE ClaimIsGood'
    BY DEF ClaimIsGood
  <2>1. PICK S \in SUBSET {b \in Bookings : Claimable(b)} :
            /\ job' = [b \in Bookings |-> IF b \in S THEN "processing" ELSE job[b]]
            /\ expired' = [b \in Bookings |-> expired[b] /\ b \notin S]
            /\ batch' = [batch EXCEPT ![w] =
                            {[booking |-> b, attempts |-> attempts[b]] : b \in S}]
    OBVIOUS
  <2>2. \A v \in Workers : v # w => Work(v)' = Work(v)
    BY <2>1 DEF TypeOK, Work
  <2>3. Work(w)' = {[booking |-> b, attempts |-> attempts[b]] : b \in S}
    BY <2>1 DEF TypeOK, Work
  <2>4. \A v \in Workers : \A j \in Work(v) : v # w => j.booking \notin S
    BY <2>1 DEF TypeOK, ClaimIsGood, Work, Claimed
  <2>5. \A v \in Workers : \A j \in Work(v)' :
           job'[j.booking] = "processing" /\ ~expired'[j.booking]
           /\ attempts'[j.booking] = j.attempts
    <3>. SUFFICES ASSUME NEW v \in Workers, NEW j \in Work(v)'
                  PROVE  /\ job'[j.booking] = "processing" /\ ~expired'[j.booking]
                         /\ attempts'[j.booking] = j.attempts
      OBVIOUS
    <3>1. CASE v = w
      <4>1. PICK b \in S : j = [booking |-> b, attempts |-> attempts[b]]
        BY <2>3, <3>1
      <4>2. b \in Bookings /\ j.booking = b /\ j.attempts = attempts[b]
        BY <4>1
      <4>. QED  BY <2>1, <4>2
    <3>2. CASE v # w
      BY <2>1, <2>2, <2>4, <3>2 DEF TypeOK, ClaimIsGood, Work, Claimed
    <3>. QED  BY <3>1, <3>2
  <2>6. \A u, v \in Workers : \A i \in Work(u)', j \in Work(v)' :
           i.booking = j.booking => u = v
    BY <2>2, <2>3, <2>4 DEF ClaimIsGood
  <2>7. \A v \in Workers : \A i, j \in batch'[v] : i.booking = j.booking => i = j
    BY <2>1 DEF TypeOK, ClaimIsGood
  <2>8. \A v \in Workers : \A j \in batch'[v] :
           current'[v] # NoJob => j.booking # current'[v].booking
    BY <2>1 DEF TypeOK, ClaimIsGood
  <2>. QED  BY <2>5, <2>6, <2>7, <2>8 DEF ClaimIsGood
<1>6. CallsAreCounted'
  BY DEF TypeOK, CallsAreCounted, ClaimIsGood, AttemptsLeft, Answered,
         Claimed, Work, MaxCalls
<1> HIDE DEF Claim, Claimable
<1>. QED  BY <1>1, <1>2, <1>3, <1>4, <1>5, <1>6 DEF JInv

\* LoadBooking discards only a booking it saw cancelled, which stays cancelled.
LEMMA LoadBookingKeepsJInv ==
    ASSUME JInv, NEW w \in Workers, LoadBooking(w) PROVE JInv'
<1> USE JobsAssumption DEF JInv, LoadBooking, table
<1>1. TypeOK'
  BY DEF TypeOK, AttemptsLeft, Claimed, Work, MaxCalls
<1>2. JobWithBooking' /\ AttemptsLeft'
  BY DEF TypeOK, JobWithBooking, AttemptsLeft, WorkIsRecorded, Claimed, Work
<1>3. WorkIsRecorded'
  BY DEF TypeOK, WorkIsRecorded, JobWithBooking, Claimed, Work
<1>4. StatusAgreesWithJob' /\ CancelledHasNoLink'
  BY DEF TypeOK, StatusAgreesWithJob, CancelledHasNoLink, WorkIsRecorded,
         JobWithBooking, Work
<1>5. ClaimIsGood'
  BY DEF TypeOK, ClaimIsGood, JobWithBooking, WorkIsRecorded, Claimed, Work
<1>6. CallsAreCounted'
  BY DEF TypeOK, CallsAreCounted, ClaimIsGood, AttemptsLeft, Answered,
         Claimed, Work, MaxCalls
<1> HIDE DEF LoadBooking, table
<1>. QED  BY <1>1, <1>2, <1>3, <1>4, <1>5, <1>6 DEF JInv

\* LoadFails drops a job of the batch.
LEMMA LoadFailsKeepsJInv ==
    ASSUME JInv, NEW w \in Workers, LoadFails(w) PROVE JInv'
<1> USE JobsAssumption DEF JInv, LoadFails, table
<1>1. TypeOK'
  BY DEF TypeOK, AttemptsLeft, Claimed, Work, MaxCalls
<1>2. JobWithBooking' /\ AttemptsLeft'
  BY DEF TypeOK, JobWithBooking, AttemptsLeft, WorkIsRecorded, Claimed, Work
<1>3. WorkIsRecorded'
  BY DEF TypeOK, WorkIsRecorded, JobWithBooking, Claimed, Work
<1>4. StatusAgreesWithJob' /\ CancelledHasNoLink'
  BY DEF TypeOK, StatusAgreesWithJob, CancelledHasNoLink, WorkIsRecorded,
         JobWithBooking, Work
<1>5. ClaimIsGood'
  BY DEF TypeOK, ClaimIsGood, JobWithBooking, WorkIsRecorded, Claimed, Work
<1>6. CallsAreCounted'
  BY DEF TypeOK, CallsAreCounted, ClaimIsGood, AttemptsLeft, Answered,
         Claimed, Work, MaxCalls
<1> HIDE DEF LoadFails, table
<1>. QED  BY <1>1, <1>2, <1>3, <1>4, <1>5, <1>6 DEF JInv

\* RequestLink counts the call, not yet recorded as an attempt.
LEMMA RequestLinkKeepsJInv ==
    ASSUME JInv, NEW w \in Workers, RequestLink(w) PROVE JInv'
<1> USE JobsAssumption DEF JInv, RequestLink, table
<1>1. TypeOK'
  BY DEF TypeOK, AttemptsLeft, Claimed, Work, MaxCalls
<1>2. JobWithBooking' /\ AttemptsLeft'
  BY DEF TypeOK, JobWithBooking, AttemptsLeft, WorkIsRecorded, Claimed, Work
<1>3. WorkIsRecorded'
  BY DEF TypeOK, WorkIsRecorded, JobWithBooking, Claimed, Work
<1>4. StatusAgreesWithJob' /\ CancelledHasNoLink'
  BY DEF TypeOK, StatusAgreesWithJob, CancelledHasNoLink, WorkIsRecorded,
         JobWithBooking, Work
<1>5. ClaimIsGood'
  BY DEF TypeOK, ClaimIsGood, JobWithBooking, WorkIsRecorded, Claimed, Work
<1>6. CallsAreCounted'
  BY DEF TypeOK, CallsAreCounted, ClaimIsGood, AttemptsLeft, Answered,
         Claimed, Work, MaxCalls
<1> HIDE DEF RequestLink, table
<1>. QED  BY <1>1, <1>2, <1>3, <1>4, <1>5, <1>6 DEF JInv

\* Discard ends the job of a cancelled booking.
LEMMA DiscardKeepsJInv ==
    ASSUME JInv, NEW w \in Workers, Discard(w) PROVE JInv'
<1> USE JobsAssumption DEF JInv, Discard, Finish, NextJob
<1>1. TypeOK'
  BY DEF TypeOK, AttemptsLeft, Claimed, Work, MaxCalls
<1>2. JobWithBooking' /\ AttemptsLeft'
  BY DEF TypeOK, JobWithBooking, AttemptsLeft, WorkIsRecorded, Claimed, Work
<1>3. WorkIsRecorded'
  BY DEF TypeOK, WorkIsRecorded, JobWithBooking, Claimed, Work
<1>4. StatusAgreesWithJob' /\ CancelledHasNoLink'
  BY DEF TypeOK, StatusAgreesWithJob, CancelledHasNoLink, WorkIsRecorded,
         JobWithBooking, Work
<1>5. ClaimIsGood'
  BY DEF TypeOK, ClaimIsGood, JobWithBooking, WorkIsRecorded, Claimed, Work
<1>6. CallsAreCounted'
  BY DEF TypeOK, CallsAreCounted, ClaimIsGood, AttemptsLeft, Answered,
         Claimed, Work, MaxCalls
<1> HIDE DEF Discard, Finish, NextJob
<1>. QED  BY <1>1, <1>2, <1>3, <1>4, <1>5, <1>6 DEF JInv

\* Complete shows the link only while the booking is active.
LEMMA CompleteKeepsJInv ==
    ASSUME JInv, NEW w \in Workers, Complete(w) PROVE JInv'
<1> USE JobsAssumption DEF JInv, Complete, Finish, NextJob, StoreLink
<1>1. TypeOK'
  BY DEF TypeOK, AttemptsLeft, Claimed, Work, MaxCalls
<1>2. JobWithBooking' /\ AttemptsLeft'
  BY DEF TypeOK, JobWithBooking, AttemptsLeft, WorkIsRecorded, Claimed, Work
<1>3. WorkIsRecorded'
  BY DEF TypeOK, WorkIsRecorded, JobWithBooking, Claimed, Work
<1>4. StatusAgreesWithJob' /\ CancelledHasNoLink'
  <2>. DEFINE b == current[w].booking
  <2>1. /\ b \in Requesting /\ job[b] = "processing" /\ job' = [job EXCEPT ![b] = "done"]
        /\ conf' = [conf EXCEPT ![b] = IF row[b] = "active" THEN "ready" ELSE @]
        /\ link' = [link EXCEPT ![b] = @ \/ row[b] = "active"]
        /\ row' = row
    BY DEF TypeOK, WorkIsRecorded, Work
  <2>. HIDE DEF b, Complete, Finish, StoreLink, NextJob
  <2>2. StatusAgreesWithJob'
    <3>. SUFFICES ASSUME NEW c \in Requesting, row[c] = "active"
                  PROVE  /\ conf'[c] = "pending" <=> job'[c] \in {"pending", "processing"}
                         /\ conf'[c] = "ready" <=> job'[c] = "done"
                         /\ conf'[c] = "failed" <=> job'[c] = "failed"
                         /\ link'[c] <=> conf'[c] = "ready"
      BY <2>1 DEF StatusAgreesWithJob
    <3>1. c \in Bookings
      OBVIOUS
    <3>2. CASE c = b
      BY <2>1, <3>1, <3>2 DEF TypeOK
    <3>3. CASE c # b
      <4>1. conf'[c] = conf[c] /\ job'[c] = job[c] /\ link'[c] = link[c]
        BY <2>1, <3>1, <3>3 DEF TypeOK
      <4>. QED  BY <4>1 DEF StatusAgreesWithJob
    <3>. QED  BY <3>2, <3>3
  <2>3. CancelledHasNoLink'
    BY <2>1 DEF TypeOK, CancelledHasNoLink
  <2>. QED  BY <2>2, <2>3
<1>5. ClaimIsGood'
  BY DEF TypeOK, ClaimIsGood, JobWithBooking, WorkIsRecorded, Claimed, Work
<1>6. CallsAreCounted'
  BY SMTT(30) DEF TypeOK, CallsAreCounted, ClaimIsGood, AttemptsLeft,
         Answered, Claimed, Work, MaxCalls
<1> HIDE DEF Complete, Finish, NextJob, StoreLink
<1>. QED  BY <1>1, <1>2, <1>3, <1>4, <1>5, <1>6 DEF JInv

\* Fail ends a job whose attempts are used up.
LEMMA FailKeepsJInv ==
    ASSUME JInv, NEW w \in Workers, Fail(w) PROVE JInv'
<1> USE JobsAssumption DEF JInv, Fail, Finish, NextJob, LastAttempt
<1>1. TypeOK'
  BY DEF TypeOK, AttemptsLeft, Claimed, Work, MaxCalls
<1>2. JobWithBooking' /\ AttemptsLeft'
  BY DEF TypeOK, JobWithBooking, AttemptsLeft, WorkIsRecorded, Claimed, Work
<1>3. WorkIsRecorded'
  BY DEF TypeOK, WorkIsRecorded, JobWithBooking, Claimed, Work
<1>4. StatusAgreesWithJob' /\ CancelledHasNoLink'
  BY DEF TypeOK, StatusAgreesWithJob, CancelledHasNoLink, WorkIsRecorded,
         JobWithBooking, Work
<1>5. ClaimIsGood'
  BY DEF TypeOK, ClaimIsGood, JobWithBooking, WorkIsRecorded, Claimed, Work
<1>6. CallsAreCounted'
  BY SMTT(30) DEF TypeOK, CallsAreCounted, ClaimIsGood, AttemptsLeft,
         Answered, Claimed, Work, MaxCalls
<1> HIDE DEF Fail, Finish, NextJob, LastAttempt
<1>. QED  BY <1>1, <1>2, <1>3, <1>4, <1>5, <1>6 DEF JInv

\* Reschedule stores the attempt and gives the job back.
LEMMA RescheduleKeepsJInv ==
    ASSUME JInv, NEW w \in Workers, Reschedule(w) PROVE JInv'
<1> USE JobsAssumption DEF JInv, Reschedule, Finish, NextJob, LastAttempt
<1>1. TypeOK'
  BY DEF TypeOK, AttemptsLeft, Claimed, Work, MaxCalls
<1>2. JobWithBooking' /\ AttemptsLeft'
  BY DEF TypeOK, JobWithBooking, AttemptsLeft, WorkIsRecorded, Claimed, Work
<1>3. WorkIsRecorded'
  BY DEF TypeOK, WorkIsRecorded, JobWithBooking, Claimed, Work
<1>4. StatusAgreesWithJob' /\ CancelledHasNoLink'
  BY DEF TypeOK, StatusAgreesWithJob, CancelledHasNoLink, WorkIsRecorded,
         JobWithBooking, Work
<1>5. ClaimIsGood'
  BY DEF TypeOK, ClaimIsGood, JobWithBooking, WorkIsRecorded, Claimed, Work
<1>6. CallsAreCounted'
  BY SMTT(30) DEF TypeOK, CallsAreCounted, ClaimIsGood, AttemptsLeft,
         Answered, Claimed, Work, MaxCalls
<1> HIDE DEF Reschedule, Finish, NextJob, LastAttempt
<1>. QED  BY <1>1, <1>2, <1>3, <1>4, <1>5, <1>6 DEF JInv

\* OutcomeRefused happens only when the claim was lost to another worker.
LEMMA OutcomeRefusedKeepsJInv ==
    ASSUME JInv, NEW w \in Workers, OutcomeRefused(w) PROVE JInv'
<1> USE JobsAssumption DEF JInv, OutcomeRefused, NextJob, table
<1>1. TypeOK'
  BY DEF TypeOK, AttemptsLeft, Claimed, Work, MaxCalls
<1>2. JobWithBooking' /\ AttemptsLeft'
  BY DEF TypeOK, JobWithBooking, AttemptsLeft, WorkIsRecorded, Claimed, Work
<1>3. WorkIsRecorded'
  BY DEF TypeOK, WorkIsRecorded, JobWithBooking, Claimed, Work
<1>4. StatusAgreesWithJob' /\ CancelledHasNoLink'
  BY DEF TypeOK, StatusAgreesWithJob, CancelledHasNoLink, WorkIsRecorded,
         JobWithBooking, Work
<1>5. ClaimIsGood'
  BY DEF TypeOK, ClaimIsGood, JobWithBooking, WorkIsRecorded, Claimed, Work
<1>6. CallsAreCounted'
  BY DEF TypeOK, CallsAreCounted, ClaimIsGood, AttemptsLeft, Answered,
         Claimed, Work, MaxCalls
<1> HIDE DEF OutcomeRefused, NextJob, table
<1>. QED  BY <1>1, <1>2, <1>3, <1>4, <1>5, <1>6 DEF JInv

\* OutcomeLost is a failure that may cost one call.
LEMMA OutcomeLostKeepsJInv ==
    ASSUME JInv, NEW w \in Workers, OutcomeLost(w) PROVE JInv'
<1> USE JobsAssumption DEF JInv, OutcomeLost, NextJob, table
<1>1. TypeOK'
  BY DEF TypeOK, AttemptsLeft, Claimed, Work, MaxCalls
<1>2. JobWithBooking' /\ AttemptsLeft'
  BY DEF TypeOK, JobWithBooking, AttemptsLeft, WorkIsRecorded, Claimed, Work
<1>3. WorkIsRecorded'
  BY DEF TypeOK, WorkIsRecorded, JobWithBooking, Claimed, Work
<1>4. StatusAgreesWithJob' /\ CancelledHasNoLink'
  BY DEF TypeOK, StatusAgreesWithJob, CancelledHasNoLink, WorkIsRecorded,
         JobWithBooking, Work
<1>5. ClaimIsGood'
  BY DEF TypeOK, ClaimIsGood, JobWithBooking, WorkIsRecorded, Claimed, Work
<1>6. CallsAreCounted'
  BY DEF TypeOK, CallsAreCounted, ClaimIsGood, AttemptsLeft, Answered,
         Claimed, Work, MaxCalls
<1> HIDE DEF OutcomeLost, NextJob, table
<1>. QED  BY <1>1, <1>2, <1>3, <1>4, <1>5, <1>6 DEF JInv

\* WorkerStops is a failure that may cost one call.
LEMMA WorkerStopsKeepsJInv ==
    ASSUME JInv, NEW w \in Workers, WorkerStops(w) PROVE JInv'
<1> USE JobsAssumption DEF JInv, WorkerStops, NextJob, table
<1>1. TypeOK'
  BY DEF TypeOK, AttemptsLeft, Claimed, Work, MaxCalls
<1>2. JobWithBooking' /\ AttemptsLeft'
  BY DEF TypeOK, JobWithBooking, AttemptsLeft, WorkIsRecorded, Claimed, Work
<1>3. WorkIsRecorded'
  BY DEF TypeOK, WorkIsRecorded, JobWithBooking, Claimed, Work
<1>4. StatusAgreesWithJob' /\ CancelledHasNoLink'
  BY DEF TypeOK, StatusAgreesWithJob, CancelledHasNoLink, WorkIsRecorded,
         JobWithBooking, Work
<1>5. ClaimIsGood'
  BY DEF TypeOK, ClaimIsGood, JobWithBooking, WorkIsRecorded, Claimed, Work
<1>6. CallsAreCounted'
  BY DEF TypeOK, CallsAreCounted, ClaimIsGood, AttemptsLeft, Answered,
         Claimed, Work, MaxCalls
<1> HIDE DEF WorkerStops, NextJob, table
<1>. QED  BY <1>1, <1>2, <1>3, <1>4, <1>5, <1>6 DEF JInv

-----------------------------------------------------------------------------
(* The theorems *)

\* Every step keeps JInv.
LEMMA NextKeepsJInv == JInv /\ [Next]_vars => JInv'
<1>. SUFFICES ASSUME JInv, [Next]_vars PROVE JInv'
  OBVIOUS
<1>1. ASSUME NEW b \in Bookings,
             CreateBooking(b) \/ CancelBooking(b) \/ RetryDue(b) \/ LeaseEnds(b)
      PROVE  JInv'
  BY <1>1, CreateBookingKeepsJInv, CancelBookingKeepsJInv, RetryDueKeepsJInv,
     LeaseEndsKeepsJInv
<1>2. ASSUME NEW w \in Workers, Claim(w) \/ WorkerStep(w) \/ WorkerStops(w)
      PROVE  JInv'
  BY <1>2, ClaimKeepsJInv, LoadBookingKeepsJInv, LoadFailsKeepsJInv,
     RequestLinkKeepsJInv, DiscardKeepsJInv, CompleteKeepsJInv, FailKeepsJInv,
     RescheduleKeepsJInv, OutcomeRefusedKeepsJInv, OutcomeLostKeepsJInv,
     WorkerStopsKeepsJInv DEF WorkerStep
<1>3. CASE UNCHANGED vars
  BY <1>3 DEF vars, JInv, TypeOK, JobWithBooking, AttemptsLeft, WorkIsRecorded,
     StatusAgreesWithJob, CancelledHasNoLink, ClaimIsGood, CallsAreCounted,
     Answered, Work
<1>. QED  BY <1>1, <1>2, <1>3 DEF Next

\* JInv holds in every reachable state.
THEOREM JobsInvariance == Spec => []JInv
BY InitJInv, NextKeepsJInv, PTL DEF Spec

\* The tables and the workers' memories keep their types.
THEOREM JobsTypeCorrect == Spec => []TypeOK
<1>1. JInv => TypeOK
  BY DEF JInv
<1>. QED  BY <1>1, JobsInvariance, PTL

\* What a user sees of an active booking agrees with its job, stalled workers,
\* crashes and lost outcomes included (finishConferenceJob).
THEOREM StatusIsHonest == Spec => []StatusAgreesWithJob
<1>1. JInv => StatusAgreesWithJob
  BY DEF JInv
<1>. QED  BY <1>1, JobsInvariance, PTL

\* No worker gives a cancelled booking its link back.
THEOREM CancelledStaysBare == Spec => []CancelledHasNoLink
<1>1. JInv => CancelledHasNoLink
  BY DEF JInv
<1>. QED  BY <1>1, JobsInvariance, PTL

\* Replicas never work on the same job while no worker outlives its lease.
THEOREM LeaseExcludes ==
    ASSUME "stall" \notin Faults PROVE Spec => []OneWorkerPerJob
<1>1. JInv => OneWorkerPerJob
  BY DEF JInv, ClaimIsGood, OneWorkerPerJob, Holds
<1>. QED  BY <1>1, JobsInvariance, PTL

\* Each failure of a worker costs at most one call of the conference service
\* above the limit of attempts.
THEOREM CallsAreBounded ==
    ASSUME "stall" \notin Faults PROVE Spec => []CallsWithinLimit
<1>1. ASSUME JInv PROVE CallsWithinLimit
  <2>. SUFFICES ASSUME NEW b \in Bookings
                PROVE  /\ calls[b] <= MaxAttempts + faults
                       /\ job[b] = "failed" => calls[b] >= MaxAttempts
    BY DEF CallsWithinLimit
  <2>1. /\ attempts[b] \in Nat /\ calls[b] \in Nat /\ faults \in Nat
        /\ MaxAttempts \in Nat /\ attempts[b] <= MaxAttempts
    BY <1>1, JobsAssumption DEF JInv, TypeOK, MaxCalls
  <2>2. calls[b] <= attempts[b] + faults \/ \E w \in Workers : Answered(w, b)
    BY <1>1 DEF JInv, CallsAreCounted
  <2>3. ASSUME NEW w \in Workers, Answered(w, b) PROVE attempts[b] < MaxAttempts
    BY <1>1, <2>3 DEF JInv, TypeOK, ClaimIsGood, AttemptsLeft, Work, Answered
  <2>4. calls[b] <= attempts[b] + faults + 1 /\ attempts[b] <= calls[b]
    BY <1>1 DEF JInv, CallsAreCounted
  <2>5. job[b] = "failed" => attempts[b] = MaxAttempts
    BY <1>1 DEF JInv, AttemptsLeft
  <2>. QED  BY <2>1, <2>2, <2>3, <2>4, <2>5
<1>. QED  BY <1>1, JobsInvariance, PTL

\* When nothing fails, the conference service is called at most the five times
\* that README.md:57 promises: it takes a failure between a call and the record
\* of its outcome to break the promise.
THEOREM AttemptsWithoutFaults ==
    ASSUME Faults = {} PROVE Spec => []AtMostMaxAttempts
<1> DEFINE None == faults = 0
<1>1. Init => None
  BY DEF Init
<1>2. None /\ [Next]_vars => None'
  <2>. SUFFICES ASSUME None, [Next]_vars PROVE None'
    OBVIOUS
  <2>1. ASSUME NEW b \in Bookings,
               \/ CreateBooking(b) \/ CancelBooking(b) \/ RetryDue(b) \/ LeaseEnds(b)
        PROVE  None'
    BY <2>1 DEF CreateBooking, CancelBooking, RetryDue, LeaseEnds
  <2>2. ASSUME NEW w \in Workers, Claim(w) \/ WorkerStep(w) \/ WorkerStops(w)
        PROVE  None'
    BY <2>2 DEF Claim, WorkerStep, WorkerStops, LoadBooking, LoadFails,
       RequestLink, Discard, Complete, Fail, Reschedule, OutcomeRefused, OutcomeLost
  <2>3. CASE UNCHANGED vars
    BY <2>3 DEF vars
  <2>. QED  BY <2>1, <2>2, <2>3 DEF Next
<1>3. None /\ JInv /\ CallsWithinLimit => AtMostMaxAttempts
  BY JobsAssumption DEF JInv, TypeOK, CallsWithinLimit, AtMostMaxAttempts
<1>4. Spec => []CallsWithinLimit
  BY CallsAreBounded
<1>. HIDE DEF None
<1>. QED  BY <1>1, <1>2, <1>3, <1>4, JobsInvariance, PTL DEF Spec

\* No stale worker turns the outcome of a job into another.
THEOREM OutcomesAreFinal == Spec => OutcomeIsFinal
<1>1. JInv /\ [Next]_vars =>
        [\A b \in Bookings : job[b] \in {"done", "failed"} => job'[b] = job[b]]_vars
  <2>. SUFFICES ASSUME JInv, Next, NEW b \in Bookings, job[b] \in {"done", "failed"}
                PROVE  job'[b] = job[b]
    OBVIOUS
  <2>1. JobWithBooking /\ TypeOK
    BY DEF JInv
  <2>2. CASE \E c \in Bookings : CreateBooking(c) \/ CancelBooking(c)
                                 \/ RetryDue(c) \/ LeaseEnds(c)
    BY <2>1, <2>2 DEF TypeOK, JobWithBooking, CreateBooking, CancelBooking, RetryDue,
       LeaseEnds
  <2>3. CASE \E w \in Workers : Claim(w)
    BY <2>3 DEF Claim, Claimable
  <2>4. CASE \E w \in Workers : WorkerStep(w) \/ WorkerStops(w)
    BY <2>1, <2>4 DEF TypeOK, WorkerStep, WorkerStops, LoadBooking, LoadFails,
       RequestLink, Discard, Complete, Fail, Reschedule, OutcomeRefused,
       OutcomeLost, Finish, table
  <2>. QED  BY <2>2, <2>3, <2>4 DEF Next
<1>. QED  BY <1>1, JobsInvariance, PTL DEF Spec, OutcomeIsFinal

\* While no worker outlives its lease, no attempt is ever undone.
THEOREM AttemptsGrow ==
    ASSUME "stall" \notin Faults PROVE Spec => AttemptsNeverDecrease
<1>1. JInv /\ [Next]_vars =>
        [\A b \in Bookings : attempts'[b] >= attempts[b]]_vars
  <2>. SUFFICES ASSUME JInv, Next, NEW b \in Bookings
                PROVE  attempts'[b] >= attempts[b]
    OBVIOUS
  <2>1. TypeOK /\ ClaimIsGood /\ \A c \in Bookings : attempts[c] \in Nat
    BY JobsAssumption DEF JInv, TypeOK
  <2>2. CASE UNCHANGED attempts
    BY <2>1, <2>2
  <2>3. ASSUME NEW w \in Workers,
               Discard(w) \/ Complete(w) \/ Fail(w) \/ Reschedule(w)
        PROVE  attempts'[b] >= attempts[b]
    <3>1. current[w] # NoJob /\ current[w] \in Claimed
      BY <2>1, <2>3 DEF TypeOK, Discard, Complete, Fail, Reschedule
    <3>2. attempts[current[w].booking] = current[w].attempts
      BY <2>1, <3>1 DEF ClaimIsGood, Work
    <3>3. PICK n \in {current[w].attempts, current[w].attempts + 1} :
             attempts' = [attempts EXCEPT ![current[w].booking] = n]
      BY <2>3 DEF Discard, Complete, Fail, Reschedule, Finish
    <3>. QED  BY <2>1, <3>1, <3>2, <3>3 DEF TypeOK, Claimed
  <2>4. UNCHANGED attempts \/ \E w \in Workers : Discard(w) \/ Complete(w)
                                                 \/ Fail(w) \/ Reschedule(w)
    BY DEF Next, WorkerStep, CreateBooking, CancelBooking, RetryDue, LeaseEnds, Claim,
       LoadBooking, LoadFails, RequestLink, OutcomeRefused, OutcomeLost,
       WorkerStops, table
  <2>. QED  BY <2>2, <2>3, <2>4
<1>. QED  BY <1>1, JobsInvariance, PTL DEF Spec, AttemptsNeverDecrease

-----------------------------------------------------------------------------
(* Refinement of ConferenceOutbox *)

\* The mapped variables, with the names of the abstract specification.
LEMMA OutboxVars == Outbox!ovars = <<row, owedBar, shownBar>>
BY DEF Outbox!ovars

\* A step that changes neither the row, nor the conference shown in it, nor
\* whether the job is open is a stutter of the abstract specification.
LEMMA OutboxStutters ==
    ASSUME UNCHANGED <<row, conf, link>>, \A b \in Bookings : Owed(b)' = Owed(b)
    PROVE  UNCHANGED Outbox!ovars
<1>1. owedBar' = owedBar
  BY Zenon DEF owedBar
<1>2. shownBar' = shownBar
  BY DEF shownBar, Shown
<1>. QED  BY <1>1, <1>2 DEF Outbox!ovars

\* A step of one booking that ends its job, and shows the outcome if the
\* booking is active, is a Decide.
LEMMA OutboxDecides ==
    ASSUME NEW b \in Bookings, NEW outcome, row' = row, Owed(b), ~Owed(b)',
           Shown(b)' = IF row[b] = "active" THEN outcome ELSE Shown(b),
           \A c \in Bookings \ {b} : Owed(c)' = Owed(c) /\ Shown(c)' = Shown(c)
    PROVE  Outbox!Decide(b, outcome)
<1>1. owedBar[b]
  BY DEF owedBar
<1>2. owedBar' = [owedBar EXCEPT ![b] = FALSE]
  <2>1. owedBar' = [c \in Bookings |-> Owed(c)']
    BY DEF owedBar
  <2>2. \A c \in Bookings : Owed(c)' \in BOOLEAN /\ Owed(c) \in BOOLEAN
    BY DEF Owed
  <2>3. Owed(b)' = FALSE
    BY <2>2
  <2>. QED  BY <2>1, <2>3, Zenon DEF owedBar
<1>3. shownBar' = [shownBar EXCEPT ![b] = IF row[b] = "active" THEN outcome ELSE @]
  <2>1. shownBar' = [c \in Bookings |-> Shown(c)']
    BY DEF shownBar
  <2>. QED  BY <2>1, Zenon DEF shownBar
<1>. QED  BY <1>1, <1>2, <1>3 DEF Outbox!Decide

\* Initially nothing is booked, owed or shown.
LEMMA InitOutbox == Init => Outbox!OInit
<1>. SUFFICES ASSUME Init PROVE Outbox!OInit
  OBVIOUS
<1>1. \A b \in Bookings : Shown(b) = "none" /\ Owed(b) = FALSE
  BY DEF Init, Shown, Owed
<1>2. owedBar = [b \in Bookings |-> FALSE] /\ shownBar = [b \in Bookings |-> "none"]
  BY <1>1 DEF owedBar, shownBar
<1>. QED  BY <1>2 DEF Init, Outbox!OInit

\* CreateBooking is Book: job and row come together.
LEMMA CreateIsBook ==
    ASSUME JInv, NEW b \in Bookings, CreateBooking(b) PROVE Outbox!Book(b)
<1>1. /\ job[b] = "absent" /\ conf[b] = "not_requested" /\ ~link[b]
      /\ row[b] = "absent" /\ row' = [row EXCEPT ![b] = "active"] /\ link' = link
  BY DEF JInv, JobWithBooking, CreateBooking
<1>2. CASE b \in Requesting
  <2>1. /\ conf' = [conf EXCEPT ![b] = "pending"]
        /\ job' = [job EXCEPT ![b] = "pending"]
    BY <1>2 DEF CreateBooking
  <2>2. Owed(b)' = TRUE /\ Shown(b)' = "waiting"
    BY <1>1, <2>1 DEF JInv, TypeOK, Owed, Shown
  <2>3. \A c \in Bookings \ {b} : Owed(c)' = Owed(c) /\ Shown(c)' = Shown(c)
    BY <1>1, <2>1 DEF JInv, TypeOK, Owed, Shown
  <2>4. owedBar' = [c \in Bookings |-> Owed(c)'] /\ shownBar' = [c \in Bookings |-> Shown(c)']
    BY DEF owedBar, shownBar
  <2>5. owedBar' = [owedBar EXCEPT ![b] = TRUE]
    BY <2>2, <2>3, <2>4, Zenon DEF owedBar
  <2>6. shownBar' = [shownBar EXCEPT ![b] = "waiting"]
    BY <2>2, <2>3, <2>4, Zenon DEF shownBar
  <2>. QED  BY <1>1, <1>2, <2>5, <2>6 DEF Outbox!Book
<1>3. CASE b \notin Requesting
  <2>1. UNCHANGED <<conf, link, job>>
    BY <1>1, <1>3 DEF CreateBooking
  <2>2. UNCHANGED <<owedBar, shownBar>>
    BY <2>1 DEF owedBar, shownBar, Owed, Shown
  <2>. QED  BY <1>1, <1>3, <2>2 DEF Outbox!Book
<1>. QED  BY <1>2, <1>3

\* CancelBooking shows nothing any more and leaves the job open.
LEMMA CancelIsCancelBooked ==
    ASSUME JInv, NEW b \in Bookings, CancelBooking(b) PROVE Outbox!CancelBooked(b)
<1>1. /\ row[b] # "absent" /\ row' = [row EXCEPT ![b] = "cancelled"] /\ job' = job
      /\ conf' = [conf EXCEPT ![b] = "not_requested"]
      /\ link' = [link EXCEPT ![b] = FALSE]
  BY DEF JInv, TypeOK, JobWithBooking, CancelBooking
<1>2. Shown(b)' = "none"
  BY <1>1 DEF JInv, TypeOK, Shown
<1>3. \A c \in Bookings \ {b} : Shown(c)' = Shown(c)
  BY <1>1 DEF JInv, TypeOK, Shown
<1>4. shownBar' = [c \in Bookings |-> Shown(c)']
  BY DEF shownBar
<1>5. shownBar' = [shownBar EXCEPT ![b] = "none"]
  BY <1>2, <1>3, <1>4, Zenon DEF shownBar
<1>6. owedBar' = owedBar
  BY <1>1 DEF owedBar, Owed
<1>. QED  BY <1>1, <1>5, <1>6 DEF Outbox!CancelBooked

\* The guard of finishConferenceJob: whoever records an outcome records it for a
\* job that is open, and shows it if the booking is active.
LEMMA OutcomeIsDecide ==
    ASSUME JInv, NEW w \in Workers, Discard(w) \/ Complete(w) \/ Fail(w)
    PROVE  \E b \in Bookings : Outbox!Decide(b, "link") \/ Outbox!Decide(b, "failed")
<1>0. /\ current[w] \in Work(w) /\ current[w].booking \in Bookings
      /\ job[current[w].booking] = "processing"
  BY DEF JInv, TypeOK, Claimed, Work, Discard, Complete, Fail, Finish
<1>. PICK b \in Bookings : b = current[w].booking
  BY <1>0
<1>1. /\ b \in Requesting /\ b \in Bookings /\ job[b] = "processing"
      /\ row[b] \in {"active", "cancelled"} /\ row' = row
      /\ row[b] = "active" => conf[b] = "pending" /\ ~link[b]
      /\ row[b] = "cancelled" => conf[b] = "not_requested" /\ ~link[b]
  <2>1. b \in Requesting /\ row[b] \in {"active", "cancelled"}
    BY <1>0 DEF JInv, TypeOK, WorkIsRecorded
  <2>2. row[b] = "active" => conf[b] = "pending" /\ ~link[b]
    BY <1>0, <2>1 DEF JInv, StatusAgreesWithJob
  <2>3. row[b] = "cancelled" => conf[b] = "not_requested" /\ ~link[b]
    BY DEF JInv, CancelledHasNoLink
  <2>. QED  BY <1>0, <2>1, <2>2, <2>3 DEF Discard, Complete, Fail
<1>2. PICK s \in {"done", "failed"} : job' = [job EXCEPT ![b] = s]
  BY DEF Discard, Complete, Fail, Finish
<1>3. Owed(b) /\ ~Owed(b)' /\ \A c \in Bookings \ {b} : Owed(c)' = Owed(c)
  BY <1>1, <1>2 DEF JInv, TypeOK, Owed
<1>4. CASE Discard(w)
  <2>1. row[b] = "cancelled" /\ conf' = [conf EXCEPT ![b] = "not_requested"] /\ link' = link
    BY <1>4 DEF JInv, WorkIsRecorded, Discard
  <2>2. conf' = conf
    BY <1>1, <2>1 DEF JInv, TypeOK
  <2>3. \A c \in Bookings : Shown(c)' = Shown(c)
    BY <2>1, <2>2 DEF Shown
  <2>4. Shown(b)' = IF row[b] = "active" THEN "link" ELSE Shown(b)
    BY <2>1, <2>3
  <2>5. Outbox!Decide(b, "link")
    BY <1>1, <1>3, <2>3, <2>4, OutboxDecides
  <2>. QED  BY <2>5
<1>5. CASE Complete(w)
  <2>1. /\ conf' = [conf EXCEPT ![b] = IF row[b] = "active" THEN "ready" ELSE @]
        /\ link' = [link EXCEPT ![b] = @ \/ row[b] = "active"]
    BY <1>5 DEF Complete, StoreLink
  <2>2. Shown(b)' = IF row[b] = "active" THEN "link" ELSE Shown(b)
    BY <1>1, <2>1 DEF JInv, TypeOK, Shown
  <2>3. \A c \in Bookings \ {b} : Shown(c)' = Shown(c)
    BY <2>1 DEF JInv, TypeOK, Shown
  <2>4. Outbox!Decide(b, "link")
    BY <1>1, <1>3, <2>2, <2>3, OutboxDecides
  <2>. QED  BY <2>4
<1>6. CASE Fail(w)
  <2>1. /\ conf' = [conf EXCEPT ![b] = IF row[b] = "active" THEN "failed" ELSE @]
        /\ link' = link
    BY <1>6 DEF Fail
  <2>2. Shown(b)' = IF row[b] = "active" THEN "failed" ELSE Shown(b)
    BY <1>1, <2>1 DEF JInv, TypeOK, Shown
  <2>3. \A c \in Bookings \ {b} : Shown(c)' = Shown(c)
    BY <2>1 DEF JInv, TypeOK, Shown
  <2>4. Outbox!Decide(b, "failed")
    BY <1>1, <1>3, <2>2, <2>3, OutboxDecides
  <2>. QED  BY <2>4
<1>. QED  BY <1>4, <1>5, <1>6

\* Claims, calls, reschedules, time and failures leave the job as open as it was.
LEMMA OtherStepsStutter ==
    ASSUME JInv, \/ \E b \in Bookings : RetryDue(b) \/ LeaseEnds(b)
                 \/ \E w \in Workers : \/ Claim(w) \/ LoadBooking(w) \/ LoadFails(w)
                                       \/ RequestLink(w) \/ Reschedule(w)
                                       \/ OutcomeRefused(w) \/ OutcomeLost(w)
                                       \/ WorkerStops(w)
    PROVE  UNCHANGED Outbox!ovars
<1>1. UNCHANGED <<row, conf, link>>
  BY DEF RetryDue, LeaseEnds, Claim, LoadBooking, LoadFails, RequestLink,
     Reschedule, OutcomeRefused, OutcomeLost, WorkerStops, table
<1>2. \A c \in Bookings : Owed(c)' = Owed(c)
  <2>1. CASE job' = job
    BY <2>1 DEF Owed
  <2>2. CASE \E w \in Workers : Claim(w)
    BY <2>2 DEF JInv, TypeOK, Claim, Claimable, Owed
  <2>3. CASE \E w \in Workers : Reschedule(w)
    <3>1. PICK d : job[d] = "processing" /\ job' = [job EXCEPT ![d] = "pending"]
      BY <2>3 DEF Reschedule, Finish
    <3>2. ASSUME NEW c \in Bookings PROVE job'[c] = IF c = d THEN "pending" ELSE job[c]
      BY <3>1 DEF JInv, TypeOK
    <3>. QED  BY <3>1, <3>2 DEF Owed
  <2>. QED  BY <2>1, <2>2, <2>3 DEF RetryDue, LeaseEnds, LoadBooking, LoadFails,
            RequestLink, OutcomeRefused, OutcomeLost, WorkerStops, table
<1>. QED  BY <1>1, <1>2, OutboxStutters

\* The workers with all their failures keep the promise of ConferenceOutbox.
THEOREM JobsRefineOutbox == Spec => KeepsOutbox
<1>1. JInv /\ [Next]_vars => [Outbox!ONext]_Outbox!ovars
  <2>. SUFFICES ASSUME JInv, [Next]_vars PROVE [Outbox!ONext]_Outbox!ovars
    OBVIOUS
  <2>1. ASSUME NEW b \in Bookings, CreateBooking(b) PROVE Outbox!ONext
    BY <2>1, CreateIsBook DEF Outbox!ONext
  <2>2. ASSUME NEW b \in Bookings, CancelBooking(b) PROVE Outbox!ONext
    BY <2>2, CancelIsCancelBooked DEF Outbox!ONext
  <2>3. ASSUME NEW w \in Workers, Discard(w) \/ Complete(w) \/ Fail(w)
        PROVE  Outbox!ONext
    BY <2>3, OutcomeIsDecide DEF Outbox!ONext
  <2>4. CASE UNCHANGED vars
    BY <2>4, OutboxStutters DEF vars, Owed
  <2>. QED  BY <2>1, <2>2, <2>3, <2>4, OtherStepsStutter DEF Next, WorkerStep
<1>. QED  BY <1>1, InitOutbox, JobsInvariance, PTL DEF Spec, KeepsOutbox, Outbox!OSpec
=============================================================================
