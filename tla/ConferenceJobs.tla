--------------------------- MODULE ConferenceJobs ---------------------------
(***************************************************************************)
(* The conference jobs of booking-service: the transactional outbox row    *)
(* written with a booking, and the replicas of the worker that claim jobs  *)
(* under a lease, ask the conference service for a link and record the     *)
(* outcome.                                                                *)
(*                                                                         *)
(* One action is one statement or transaction on the bookings database, or *)
(* one call of the conference service.  Time is reduced to two facts about *)
(* a job: its retry is due, its lease is over.                             *)
(***************************************************************************)
EXTENDS Naturals, FiniteSets

CONSTANTS
    Bookings,
    Requesting,    \* the bookings made with createConferenceLink
    Workers,       \* worker replicas, one goroutine each
    BatchSize,     \* conferenceJobBatchSize
    MaxAttempts,   \* maxConferenceAttempts
    Faults,        \* the kinds of failure that may happen
    MaxFaults,     \* how many database errors and crashes may happen
    NoJob

FaultKinds == {"db",      \* a statement of the worker fails
               "crash",   \* a worker's process stops
               "stall"}   \* a worker outlives the lease of a job it works on

ASSUME JobsAssumption ==
    /\ Requesting \subseteq Bookings
    /\ BatchSize \in Nat \ {0}
    /\ MaxAttempts \in Nat \ {0}
    /\ Faults \subseteq FaultKinds
    /\ MaxFaults \in Nat
    /\ NoJob \notin [booking : Bookings, attempts : Nat]

VARIABLES
    row,       \* bookings.status, "absent" while there is no row
    conf,      \* bookings.conference_status
    link,      \* bookings.conference_link is not NULL
    job,       \* conference_jobs.status, "absent" while there is no row
    attempts,  \* conference_jobs.attempts
    due,       \* next_retry_at is NULL or not after the present time
    expired,   \* locked_at is older than the lease
    batch,     \* the claimed jobs a worker has not finished with
    current,   \* the job a worker works on
    wpc,       \* what the worker does next with it
    faults,    \* failures so far, at most MaxFaults
    calls      \* history: calls of the conference service, up to MaxCalls

table == <<row, conf, link, job, attempts, due, expired>>
vars == <<row, conf, link, job, attempts, due, expired, batch, current, wpc,
          faults, calls>>

\* One more than CallsWithinLimit allows.
MaxCalls == MaxAttempts + MaxFaults + 1

Claimed == [booking : Bookings, attempts : 0..MaxAttempts]

TypeOK ==
    /\ row \in [Bookings -> {"absent", "active", "cancelled"}]
    /\ conf \in [Bookings -> {"not_requested", "pending", "ready", "failed"}]
    /\ link \in [Bookings -> BOOLEAN]
    /\ job \in [Bookings -> {"absent", "pending", "processing", "done", "failed"}]
    /\ attempts \in [Bookings -> 0..MaxAttempts]
    /\ due \in [Bookings -> BOOLEAN]
    /\ expired \in [Bookings -> BOOLEAN]
    /\ batch \in [Workers -> SUBSET Claimed]
    /\ current \in [Workers -> Claimed \cup {NoJob}]
    /\ wpc \in [Workers -> {"idle", "discard", "call", "complete", "retry"}]
    /\ \A w \in Workers : wpc[w] = "idle" <=> current[w] = NoJob
    /\ faults \in 0..MaxFaults
    /\ calls \in [Bookings -> 0..MaxCalls]

Init ==
    /\ row = [b \in Bookings |-> "absent"]
    /\ conf = [b \in Bookings |-> "not_requested"]
    /\ link = [b \in Bookings |-> FALSE]
    /\ job = [b \in Bookings |-> "absent"]
    /\ attempts = [b \in Bookings |-> 0]
    /\ due = [b \in Bookings |-> FALSE]
    /\ expired = [b \in Bookings |-> FALSE]
    /\ batch = [w \in Workers |-> {}]
    /\ current = [w \in Workers |-> NoJob]
    /\ wpc = [w \in Workers |-> "idle"]
    /\ faults = 0
    /\ calls = [b \in Bookings |-> 0]

-----------------------------------------------------------------------------
(* request handlers *)

\* CreateWithConferenceJob: the booking and its job in one transaction.
CreateBooking(b) ==
    /\ row[b] = "absent"
    /\ row' = [row EXCEPT ![b] = "active"]
    /\ IF b \in Requesting
       THEN /\ conf' = [conf EXCEPT ![b] = "pending"]
            /\ job' = [job EXCEPT ![b] = "pending"]
            /\ due' = [due EXCEPT ![b] = TRUE]
       ELSE UNCHANGED <<conf, job, due>>
    /\ UNCHANGED <<link, attempts, expired, batch, current, wpc, faults, calls>>

\* Cancel: the job is left to the worker.
CancelBooking(b) ==
    /\ row[b] # "absent"
    /\ row' = [row EXCEPT ![b] = "cancelled"]
    /\ conf' = [conf EXCEPT ![b] = IF b \in Requesting THEN "not_requested" ELSE @]
    /\ link' = [link EXCEPT ![b] = FALSE]
    /\ UNCHANGED <<job, attempts, due, expired, batch, current, wpc, faults, calls>>

-----------------------------------------------------------------------------
(* the worker *)

\* Mutation: jobs being processed are claimed again without regard to the lease.
ClaimableAnyway(b) == \/ job[b] = "pending" /\ due[b]
                      \/ job[b] = "processing"

\* Mutation: only pending jobs are claimed, a lease never ends.
ClaimablePending(b) == job[b] = "pending" /\ due[b]

Claimable(b) == \/ job[b] = "pending" /\ due[b]
                \/ job[b] = "processing" /\ expired[b]

\* ClaimConferenceJobs: no more jobs than the limit change to processing with a
\* new lease, and are returned with the attempts stored for them.  Which ones is
\* left open: rows that another transaction has locked are skipped.
Claim(w) ==
    /\ wpc[w] = "idle" /\ batch[w] = {}
    /\ \E S \in SUBSET {b \in Bookings : Claimable(b)} :
          /\ S # {} /\ Cardinality(S) <= BatchSize
          /\ job' = [b \in Bookings |-> IF b \in S THEN "processing" ELSE job[b]]
          /\ expired' = [b \in Bookings |-> expired[b] /\ b \notin S]
          /\ batch' = [batch EXCEPT ![w] =
                          {[booking |-> b, attempts |-> attempts[b]] : b \in S}]
    /\ UNCHANGED <<row, conf, link, attempts, due, current, wpc, faults, calls>>

\* processJob reads the booking; what it saw decides what it does.
LoadBooking(w) ==
    /\ wpc[w] = "idle"
    /\ \E j \in batch[w] :
          /\ batch' = [batch EXCEPT ![w] = @ \ {j}]
          /\ current' = [current EXCEPT ![w] = j]
          /\ wpc' = [wpc EXCEPT ![w] = IF row[j.booking] = "cancelled"
                                       THEN "discard" ELSE "call"]
    /\ UNCHANGED <<table, faults, calls>>

\* The read fails: the job is left as it is, to be claimed when its lease ends.
LoadFails(w) ==
    /\ "db" \in Faults /\ faults < MaxFaults
    /\ wpc[w] = "idle"
    /\ \E j \in batch[w] : batch' = [batch EXCEPT ![w] = @ \ {j}]
    /\ faults' = faults + 1
    /\ UNCHANGED <<table, current, wpc, calls>>

\* requestConferenceLink: an HTTPS link, or any error of the call.
RequestLink(w) ==
    /\ wpc[w] = "call"
    /\ \E outcome \in {"complete", "retry"} : wpc' = [wpc EXCEPT ![w] = outcome]
    /\ LET b == current[w].booking
       IN  calls' = [calls EXCEPT ![b] = IF @ < MaxCalls THEN @ + 1 ELSE @]
    /\ UNCHANGED <<table, batch, current, faults>>

\* The worker goes on to the next job of its batch.
NextJob(w) == /\ wpc' = [wpc EXCEPT ![w] = "idle"]
              /\ current' = [current EXCEPT ![w] = NoJob]

\* Mutation: the job is updated whatever its status.
FinishAnyway(b, status, n) ==
    /\ job' = [job EXCEPT ![b] = status]
    /\ attempts' = [attempts EXCEPT ![b] = n]
    /\ expired' = [expired EXCEPT ![b] = FALSE]

\* UPDATE conference_jobs ... WHERE booking_id = $1 AND status = 'processing',
\* and exactly one row changed.
Finish(b, status, n) ==
    /\ job[b] = "processing"
    /\ job' = [job EXCEPT ![b] = status]
    /\ attempts' = [attempts EXCEPT ![b] = n]
    /\ expired' = [expired EXCEPT ![b] = FALSE]

\* The booking was seen cancelled: DiscardConferenceJob.
Discard(w) ==
    /\ wpc[w] = "discard"
    /\ LET b == current[w].booking
       IN  /\ Finish(b, "done", current[w].attempts)
           /\ conf' = [conf EXCEPT ![b] = "not_requested"]
    /\ NextJob(w)
    /\ UNCHANGED <<row, link, due, batch, faults, calls>>

\* Mutation: the link is stored whatever the status of the booking.
StoreLinkAnyway(b) ==
    /\ conf' = [conf EXCEPT ![b] = "ready"]
    /\ link' = [link EXCEPT ![b] = TRUE]

\* Mutation: conference_status is forgotten.
StoreLinkOnly(b) ==
    /\ UNCHANGED conf
    /\ link' = [link EXCEPT ![b] = @ \/ row[b] = "active"]

\* UPDATE bookings ... WHERE id = $1 AND status = 'active'.
StoreLink(b) ==
    /\ conf' = [conf EXCEPT ![b] = IF row[b] = "active" THEN "ready" ELSE @]
    /\ link' = [link EXCEPT ![b] = @ \/ row[b] = "active"]

\* CompleteConferenceJob.
Complete(w) ==
    /\ wpc[w] = "complete"
    /\ LET b == current[w].booking
       IN  Finish(b, "done", current[w].attempts + 1) /\ StoreLink(b)
    /\ NextJob(w)
    /\ UNCHANGED <<row, due, batch, faults, calls>>

\* Mutation: an attempt more than the limit.
OneMore(n) == n > MaxAttempts

LastAttempt(n) == n >= MaxAttempts

\* FailConferenceJob, after the last attempt.
Fail(w) ==
    /\ wpc[w] = "retry"
    /\ LastAttempt(current[w].attempts + 1)
    /\ LET b == current[w].booking
       IN  /\ Finish(b, "failed", current[w].attempts + 1)
           /\ conf' = [conf EXCEPT ![b] = IF row[b] = "active" THEN "failed" ELSE @]
    /\ NextJob(w)
    /\ UNCHANGED <<row, link, due, batch, faults, calls>>

\* RescheduleConferenceJob with exponential backoff.
Reschedule(w) ==
    /\ wpc[w] = "retry"
    /\ ~LastAttempt(current[w].attempts + 1)
    /\ LET b == current[w].booking
       IN  /\ Finish(b, "pending", current[w].attempts + 1)
           /\ due' = [due EXCEPT ![b] = FALSE]
    /\ NextJob(w)
    /\ UNCHANGED <<row, conf, link, batch, faults, calls>>

\* expectOne found that the job is no longer processing: the transaction is
\* rolled back and the outcome is dropped.
OutcomeRefused(w) ==
    /\ wpc[w] \in {"discard", "complete", "retry"}
    /\ job[current[w].booking] # "processing"
    /\ NextJob(w)
    /\ UNCHANGED <<table, batch, faults, calls>>

\* The statement fails: the outcome is dropped, the job stays in processing.
OutcomeLost(w) ==
    /\ "db" \in Faults /\ faults < MaxFaults
    /\ wpc[w] \in {"discard", "complete", "retry"}
    /\ NextJob(w)
    /\ faults' = faults + 1
    /\ UNCHANGED <<table, batch, calls>>

\* The process stops, or COMMIT of the claim is not answered: the worker
\* forgets its batch.
WorkerStops(w) ==
    /\ "crash" \in Faults /\ faults < MaxFaults
    /\ wpc[w] # "idle" \/ batch[w] # {}
    /\ NextJob(w)
    /\ batch' = [batch EXCEPT ![w] = {}]
    /\ faults' = faults + 1
    /\ UNCHANGED <<table, calls>>

-----------------------------------------------------------------------------
(* time *)

\* The claimed jobs a worker still works on.
Work(w) == batch[w] \cup ({current[w]} \ {NoJob})

Holds(w, b) == \E j \in Work(w) : j.booking = b

\* The backoff of a job is over.
RetryDue(b) ==
    /\ job[b] = "pending" /\ ~due[b]
    /\ due' = [due EXCEPT ![b] = TRUE]
    /\ UNCHANGED <<row, conf, link, job, attempts, expired, batch, current, wpc,
                   faults, calls>>

\* The lease of a job is over.  It is 5 minutes and a batch is 10 calls of at
\* most 10 s, so only a worker that stalls still works on the job.
LeaseEnds(b) ==
    /\ job[b] = "processing" /\ ~expired[b]
    /\ "stall" \in Faults \/ \A w \in Workers : ~Holds(w, b)
    /\ expired' = [expired EXCEPT ![b] = TRUE]
    /\ UNCHANGED <<row, conf, link, job, attempts, due, batch, current, wpc,
                   faults, calls>>

-----------------------------------------------------------------------------
WorkerStep(w) ==
    \/ LoadBooking(w) \/ LoadFails(w) \/ RequestLink(w)
    \/ Discard(w) \/ Complete(w) \/ Fail(w) \/ Reschedule(w)
    \/ OutcomeRefused(w) \/ OutcomeLost(w)

Next ==
    \/ \E b \in Bookings : \/ CreateBooking(b) \/ CancelBooking(b)
                           \/ RetryDue(b) \/ LeaseEnds(b)
    \/ \E w \in Workers : Claim(w) \/ WorkerStep(w) \/ WorkerStops(w)

Spec == Init /\ [][Next]_vars

\* The ticker fires every 5 s in every replica, a call ends within 10 s, and
\* time passes.  Nobody has to make or cancel a booking.
Fairness ==
    /\ \A w \in Workers : WF_vars(Claim(w)) /\ WF_vars(WorkerStep(w))
    /\ \A b \in Bookings : WF_vars(RetryDue(b)) /\ WF_vars(LeaseEnds(b))

LiveSpec == Spec /\ Fairness

-----------------------------------------------------------------------------
(* Safety *)

\* What a user sees of an active booking agrees with its job, however many
\* workers have worked on it: waiting while the job is open, a link exactly
\* when it is done, failed exactly when it has failed (finishConferenceJob).
StatusAgreesWithJob ==
    \A b \in Requesting : row[b] = "active" =>
        /\ conf[b] = "pending" <=> job[b] \in {"pending", "processing"}
        /\ conf[b] = "ready" <=> job[b] = "done"
        /\ conf[b] = "failed" <=> job[b] = "failed"
        /\ link[b] <=> conf[b] = "ready"

\* A cancelled booking has no link and shows no conference, also when a worker
\* read it before the cancellation and answers after it.
CancelledHasNoLink ==
    \A b \in Bookings :
        row[b] = "cancelled" => ~link[b] /\ conf[b] = "not_requested"

\* As long as no worker outlives its lease, no two replicas work on one job and
\* a job is being processed while a worker works on it (FOR UPDATE SKIP LOCKED).
OneWorkerPerJob ==
    \A v, w \in Workers, b \in Bookings :
        Holds(v, b) => job[b] = "processing" /\ (Holds(w, b) => v = w)

\* As long as no worker outlives its lease, the conference service is called no
\* more often than the limit and once more for every failure of a worker, and a
\* job that failed used its attempts up: no call is counted twice or forgotten.
CallsWithinLimit ==
    \A b \in Bookings : /\ calls[b] <= MaxAttempts + faults
                        /\ job[b] = "failed" => calls[b] >= MaxAttempts

\* Failed calls are repeated, with at most five attempts (README.md:57).
AtMostMaxAttempts == \A b \in Bookings : calls[b] <= MaxAttempts

-----------------------------------------------------------------------------
(* The inductive invariant behind the safety properties *)

\* A booking that asked for no conference has no trace of one, and one that did
\* has its job as soon as it has its row.
JobWithBooking ==
    /\ \A b \in Bookings \ Requesting :
          job[b] = "absent" /\ conf[b] = "not_requested" /\ ~link[b]
    /\ \A b \in Bookings : row[b] = "absent" =>
          job[b] = "absent" /\ conf[b] = "not_requested" /\ ~link[b]

\* A job that can be claimed has an attempt left.
AttemptsLeft ==
    /\ \A b \in Bookings :
          job[b] \notin {"done", "failed"} => attempts[b] < MaxAttempts
    /\ \A w \in Workers : \A j \in Work(w) : j.attempts < MaxAttempts
    /\ \A b \in Bookings : job[b] = "failed" => attempts[b] = MaxAttempts

\* Workers work on jobs of recorded bookings, and discard only cancelled ones.
WorkIsRecorded ==
    /\ \A w \in Workers : \A j \in Work(w) :
          j.booking \in Requesting /\ row[j.booking] # "absent"
    /\ \A w \in Workers :
          wpc[w] = "discard" => row[current[w].booking] = "cancelled"

\* Without stalls a worker's claim is good until it lets go of the job.
ClaimIsGood ==
    "stall" \notin Faults =>
        /\ \A w \in Workers : \A j \in Work(w) :
              /\ job[j.booking] = "processing"
              /\ ~expired[j.booking]
              /\ attempts[j.booking] = j.attempts
        /\ \A v, w \in Workers : \A i \in Work(v), j \in Work(w) :
              i.booking = j.booking => v = w
        /\ \A w \in Workers : \A i, j \in batch[w] :
              i.booking = j.booking => i = j
        /\ \A w \in Workers : \A j \in batch[w] :
              current[w] # NoJob => j.booking # current[w].booking

\* Worker w was answered about booking b and has not recorded the outcome.
Answered(w, b) == /\ wpc[w] \in {"complete", "retry"}
                  /\ current[w].booking = b

\* Without stalls an attempt is a call, but for an answer not yet recorded and
\* the answers that failures lost.
CallsAreCounted ==
    "stall" \notin Faults =>
        /\ \A b \in Bookings : attempts[b] <= calls[b]
        /\ \A b \in Bookings : calls[b] <= attempts[b] + faults + 1
        /\ \A b \in Bookings : calls[b] <= attempts[b] + faults
                                \/ \E w \in Workers : Answered(w, b)
        /\ \A w \in Workers, b \in Bookings :
              Answered(w, b) => attempts[b] < calls[b]

JInv == /\ TypeOK /\ JobWithBooking /\ AttemptsLeft /\ WorkIsRecorded
        /\ StatusAgreesWithJob /\ CancelledHasNoLink /\ ClaimIsGood
        /\ CallsAreCounted

-----------------------------------------------------------------------------
(* Action properties *)

\* A job that is done or has failed stays so: no stale worker reopens it or
\* turns one outcome into the other (WHERE status = 'processing').
OutcomeIsFinal ==
    [][\A b \in Bookings : job[b] \in {"done", "failed"} => job'[b] = job[b]]_vars

\* As long as no worker outlives its lease, the stored number of attempts never
\* goes back: crashes and lost outcomes may repeat an attempt, not undo one.
AttemptsNeverDecrease ==
    [][\A b \in Bookings : attempts'[b] >= attempts[b]]_vars

-----------------------------------------------------------------------------
(* Liveness *)

\* Every requested conference is decided, through crashes, lost outcomes and
\* expired leases: no job stays in processing for ever.
JobEnds == \A b \in Bookings :
    job[b] = "pending" ~> job[b] \in {"done", "failed"}
-----------------------------------------------------------------------------
(* Refinement *)

\* What the row of a booking shows of its conference.
Shown(b) == CASE conf[b] = "not_requested" /\ ~link[b] -> "none"
              [] conf[b] = "pending" /\ ~link[b] -> "waiting"
              [] conf[b] = "ready" /\ link[b] -> "link"
              [] conf[b] = "failed" /\ ~link[b] -> "failed"
              [] OTHER -> "inconsistent"

Owed(b) == job[b] \in {"pending", "processing"}

shownBar == [b \in Bookings |-> Shown(b)]
owedBar == [b \in Bookings |-> Owed(b)]

Outbox == INSTANCE ConferenceOutbox
              WITH status <- row, owed <- owedBar, shown <- shownBar

\* However many workers claim a job, call for it, stall, stop or lose its
\* outcome: the booking and its job are made in one step, the job is decided at
\* most once, and its outcome is shown in that same step or, after a
\* cancellation, never (finishConferenceJob).
KeepsOutbox == Outbox!OSpec
=============================================================================
