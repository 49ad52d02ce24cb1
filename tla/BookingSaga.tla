---------------------------- MODULE BookingSaga ----------------------------
(***************************************************************************)
(* Creating and cancelling bookings: the request handlers of               *)
(* booking-service, the slot table of availability-service they call over  *)
(* HTTP, and the bookings table they write afterwards.                     *)
(*                                                                         *)
(* A create request mints one booking id (service.go:100), so a create     *)
(* handler is named by its id and the request's slot and user are          *)
(* constants; cancel handlers are reused.  One action is one atomic step   *)
(* of the real system: a transaction of either database, the sending or    *)
(* the answer of a call, or the failure of one of them.                    *)
(*                                                                         *)
(* The conference columns and jobs written by the same transactions are    *)
(* modelled in ConferenceJobs.                                             *)
(***************************************************************************)
EXTENDS Naturals, FiniteSets

CONSTANTS
    Bookings,     \* ids of create requests and of the bookings they make
    Cancels,      \* handlers of cancel requests
    Slots,        \* slot ids a request may name
    Existing,     \* the slots that are in availability-service's table
    SlotOf,       \* the slot a create request names
    Users,
    Admins,       \* the users whose token has the role admin
    UserOf,       \* the user who sends a create request
    NoBooking,    \* current_booking_id = NULL
    Faults        \* the kinds of failure that may happen

FaultKinds == {"rpc",     \* a call to availability-service fails or times out
               "gone",    \* the client goes away: the request context is done
               "db",      \* a statement of a create request fails
               "update",  \* the UPDATE of a cancellation fails
               "commit",  \* the answer to COMMIT is lost
               "late",    \* such a COMMIT may take effect after a later read
               "crash"}   \* the process running a handler stops

ASSUME SagaAssumption ==
    /\ Existing \subseteq Slots
    /\ SlotOf \in [Bookings -> Slots]
    /\ UserOf \in [Bookings -> Users]
    /\ Admins \subseteq Users
    /\ NoBooking \notin Bookings
    /\ Bookings \cap Cancels = {}
    /\ Faults \subseteq FaultKinds

Procs == Bookings \cup Cancels

VARIABLES
    owner,     \* slots.current_booking_id; NoBooking when status is free
    past,      \* slots whose start_at is before the present time
    row,       \* bookings.status of each id, "absent" while there is no row
    tx,        \* the insert transaction: "none", "open", or "detached" from
               \* its handler with COMMIT sent and no answer received
    pc,        \* what each handler does next
    target,    \* the booking a cancel handler works on
    rpc,       \* the handler's call to availability-service
    orphans,   \* statements and calls whose caller no longer waits for them
    gone,      \* handlers whose request context is done
    released   \* history: bookings for which a release was ever sent

vars == <<owner, past, row, tx, pc, target, rpc, orphans, gone, released>>

Finished == {"created", "rejected", "compensated", "uncompensated",
             "unknown", "crashed"}
CreatePc == {"idle", "booking", "inserting", "committing", "lookup",
             "compensating"} \cup Finished
CancelPc == {"idle", "releasing", "cancelling"}
Orphan == [op : {"book", "release", "cancel"}, booking : Bookings]

TypeOK ==
    /\ owner \in [Slots -> Bookings \cup {NoBooking}]
    /\ past \subseteq Slots
    /\ row \in [Bookings -> {"absent", "active", "cancelled"}]
    /\ tx \in [Bookings -> {"none", "open", "detached"}]
    /\ pc \in [Procs -> CreatePc \cup CancelPc]
    /\ \A b \in Bookings : pc[b] \in CreatePc
    /\ \A c \in Cancels : pc[c] \in CancelPc
    /\ target \in [Cancels -> Bookings \cup {NoBooking}]
    /\ \A c \in Cancels : (pc[c] = "idle") = (target[c] = NoBooking)
    /\ rpc \in [Procs -> {"none", "sent", "ok", "refused", "error"}]
    /\ orphans \subseteq Orphan
    /\ gone \subseteq Procs
    /\ released \subseteq Bookings

Init ==
    /\ owner = [s \in Slots |-> NoBooking]
    /\ past = {}
    /\ row = [b \in Bookings |-> "absent"]
    /\ tx = [b \in Bookings |-> "none"]
    /\ pc = [p \in Procs |-> "idle"]
    /\ target = [c \in Cancels |-> NoBooking]
    /\ rpc = [p \in Procs |-> "none"]
    /\ orphans = {}
    /\ gone = {}
    /\ released = {}

-----------------------------------------------------------------------------
(* availability-service *)

\* Mutation: the status of the slot is not looked at under the row lock.
BookableWhenTaken(b) == SlotOf[b] \in Existing /\ SlotOf[b] \notin past

\* BookSlot finds the row, start_at is not in the past and the slot is free.
Bookable(b) == /\ SlotOf[b] \in Existing
               /\ SlotOf[b] \notin past
               /\ owner[SlotOf[b]] = NoBooking

Booked(b) == [owner EXCEPT ![SlotOf[b]] = b]

\* Mutation: the release does not look at current_booking_id.
FreedForAnyone(b) == [owner EXCEPT ![SlotOf[b]] = NoBooking]

\* UPDATE slots ... WHERE id = $1 AND current_booking_id = $2: other bookings'
\* slots are left alone, and a second release changes nothing.
Freed(b) == [owner EXCEPT ![SlotOf[b]] = IF @ = b THEN NoBooking ELSE @]

\* The booking a handler works on.
Subject(p) == IF p \in Bookings THEN p ELSE target[p]

CallOf(p) == [op |-> IF pc[p] = "booking" THEN "book" ELSE "release",
              booking |-> Subject(p)]

\* POST /internal/slots/book: one transaction with the slot row locked.
BookSlot(b) ==
    /\ pc[b] = "booking" /\ rpc[b] = "sent"
    /\ IF Bookable(b)
       THEN owner' = Booked(b) /\ rpc' = [rpc EXCEPT ![b] = "ok"]
       ELSE UNCHANGED owner /\ rpc' = [rpc EXCEPT ![b] = "refused"]
    /\ UNCHANGED <<past, row, tx, pc, target, orphans, gone, released>>

\* POST /internal/slots/release.
ReleaseSlot(p) ==
    /\ pc[p] \in {"releasing", "compensating"} /\ rpc[p] = "sent"
    /\ owner' = Freed(Subject(p))
    /\ rpc' = [rpc EXCEPT ![p] = "ok"]
    /\ UNCHANGED <<past, row, tx, pc, target, orphans, gone, released>>

\* The call returns an error: the 10 s client timeout, a broken connection, an
\* answer of 500, an unreadable answer, or the request context is done.  The
\* server may have stopped as well, or its transaction may still take effect,
\* at once or later.
CallFails(p) ==
    /\ rpc[p] = "sent"
    /\ "rpc" \in Faults \/ p \in gone
    /\ rpc' = [rpc EXCEPT ![p] = "error"]
    /\ \/ UNCHANGED orphans
       \/ orphans' = orphans \cup {CallOf(p)}
    /\ UNCHANGED <<owner, past, row, tx, pc, target, gone, released>>

\* A statement nobody waits for takes effect, or is dropped.
OrphanRuns(m) ==
    /\ m \in orphans
    /\ orphans' = orphans \ {m}
    /\ owner' = CASE m.op = "book" /\ Bookable(m.booking) -> Booked(m.booking)
                  [] m.op = "release" -> Freed(m.booking)
                  [] OTHER -> owner
    /\ row' = IF m.op = "cancel"
              THEN [row EXCEPT ![m.booking] = "cancelled"] ELSE row
    /\ UNCHANGED <<past, tx, pc, target, rpc, gone, released>>

OrphanDropped(m) ==
    /\ m \in orphans
    /\ orphans' = orphans \ {m}
    /\ UNCHANGED <<owner, past, row, tx, pc, target, rpc, gone, released>>

\* Time passes the start of a slot.
SlotStarts(s) ==
    /\ s \in Existing \ past
    /\ past' = past \cup {s}
    /\ UNCHANGED <<owner, row, tx, pc, target, rpc, orphans, gone, released>>

-----------------------------------------------------------------------------
(* booking-service, CreateBooking *)

\* The handler refuses administrators; everybody else's request sends the call.
CreateBooking(b) ==
    /\ pc[b] = "idle"
    /\ UserOf[b] \notin Admins
    /\ pc' = [pc EXCEPT ![b] = "booking"]
    /\ rpc' = [rpc EXCEPT ![b] = "sent"]
    /\ UNCHANGED <<owner, past, row, tx, target, orphans, gone, released>>

\* Only a 200 goes on; any error of bookSlot ends the request with nothing
\* compensated.
BookSlotReturns(b) ==
    /\ pc[b] = "booking" /\ rpc[b] \in {"ok", "refused", "error"}
    /\ pc' = [pc EXCEPT ![b] = IF rpc[b] = "ok" THEN "inserting" ELSE "rejected"]
    /\ rpc' = [rpc EXCEPT ![b] = "none"]
    /\ UNCHANGED <<owner, past, row, tx, target, orphans, gone, released>>

\* Mutation: the failed request forgets the slot.
CompensateNever(b) ==
    /\ pc' = [pc EXCEPT ![b] = "uncompensated"]
    /\ UNCHANGED <<rpc, released>>

\* releaseSlot with the request's own context: once that is done nothing is
\* sent and the request ends with the slot as it was.
Compensate(b) ==
    IF b \in gone
    THEN /\ pc' = [pc EXCEPT ![b] = "uncompensated"]
         /\ UNCHANGED <<rpc, released>>
    ELSE /\ pc' = [pc EXCEPT ![b] = "compensating"]
         /\ rpc' = [rpc EXCEPT ![b] = "sent"]
         /\ released' = released \cup {b}

\* Mutation: no unique index on the slots of active bookings.
NoSameSlot(b) == {}

SameSlot(b) == {o \in Bookings \ {b} : SlotOf[o] = SlotOf[b]}

\* Mutation: the INSERT waits while the slot has an active booking.
InsertWaitsForRow(b) ==
    /\ pc[b] = "inserting"
    /\ \A o \in SameSlot(b) : tx[o] = "none" /\ row[o] # "active"
    /\ tx' = [tx EXCEPT ![b] = "open"]
    /\ pc' = [pc EXCEPT ![b] = "committing"]
    /\ UNCHANGED <<owner, past, row, target, rpc, orphans, gone, released>>

\* The INSERT waits for another transaction holding the same key of
\* idx_bookings_active_slot, and fails when an active booking has it.
InsertBooking(b) ==
    /\ pc[b] = "inserting"
    /\ \A o \in SameSlot(b) : tx[o] = "none"
    /\ IF \E o \in SameSlot(b) : row[o] = "active"
       THEN Compensate(b) /\ UNCHANGED tx
       ELSE /\ tx' = [tx EXCEPT ![b] = "open"]
            /\ pc' = [pc EXCEPT ![b] = "committing"]
            /\ UNCHANGED <<rpc, released>>
    /\ UNCHANGED <<owner, past, row, target, orphans, gone>>

\* BEGIN or an INSERT fails and the transaction is rolled back.
InsertFails(b) ==
    /\ pc[b] = "inserting"
    /\ "db" \in Faults \/ b \in gone
    /\ Compensate(b)
    /\ UNCHANGED <<owner, past, row, tx, target, orphans, gone>>

CommitSucceeds(b) ==
    /\ pc[b] = "committing"
    /\ row' = [row EXCEPT ![b] = "active"]
    /\ tx' = [tx EXCEPT ![b] = "none"]
    /\ pc' = [pc EXCEPT ![b] = "created"]
    /\ UNCHANGED <<owner, past, target, rpc, orphans, gone, released>>

\* The INSERT of the job failed, or COMMIT answered ROLLBACK
\* (pgx.ErrTxCommitRollback): the outcome is known.
CommitRolledBack(b) ==
    /\ pc[b] = "committing"
    /\ "db" \in Faults \/ b \in gone
    /\ tx' = [tx EXCEPT ![b] = "none"]
    /\ Compensate(b)
    /\ UNCHANGED <<owner, past, row, target, orphans, gone>>

\* ErrCommitOutcomeUnknown.
CommitUnknown(b) ==
    /\ pc[b] = "committing"
    /\ "commit" \in Faults \/ b \in gone
    /\ tx' = [tx EXCEPT ![b] = "detached"]
    /\ pc' = [pc EXCEPT ![b] = "lookup"]
    /\ UNCHANGED <<owner, past, row, target, rpc, orphans, gone, released>>

\* The database ends a transaction whose client is no longer there.
DetachedCommits(b) ==
    /\ tx[b] = "detached"
    /\ tx' = [tx EXCEPT ![b] = "none"]
    /\ row' = [row EXCEPT ![b] = "active"]
    /\ UNCHANGED <<owner, past, pc, target, rpc, orphans, gone, released>>

DetachedRollsBack(b) ==
    /\ tx[b] = "detached"
    /\ tx' = [tx EXCEPT ![b] = "none"]
    /\ UNCHANGED <<owner, past, row, pc, target, rpc, orphans, gone, released>>

\* Mutation: an unknown outcome is compensated without reading the row.
CompensateUnseen(b) ==
    /\ pc[b] = "lookup"
    /\ Compensate(b)
    /\ UNCHANGED <<owner, past, row, tx, target, orphans, gone>>

\* Mutation: an unknown outcome is taken for success.
TrustCommit(b) ==
    /\ pc[b] = "lookup"
    /\ pc' = [pc EXCEPT ![b] = "created"]
    /\ UNCHANGED <<owner, past, row, tx, target, rpc, orphans, gone, released>>

\* GetByID after an unknown outcome: a row is answered with 201 whatever its
\* status, no row is compensated.
LookupBooking(b) ==
    /\ pc[b] = "lookup"
    /\ b \notin gone
    /\ "late" \in Faults \/ tx[b] = "none"
    /\ IF row[b] = "absent"
       THEN Compensate(b)
       ELSE pc' = [pc EXCEPT ![b] = "created"] /\ UNCHANGED <<rpc, released>>
    /\ UNCHANGED <<owner, past, row, tx, target, orphans, gone>>

\* Any other error of GetByID: the outcome stays unknown, nothing is released.
LookupFails(b) ==
    /\ pc[b] = "lookup"
    /\ "db" \in Faults \/ b \in gone
    /\ pc' = [pc EXCEPT ![b] = "unknown"]
    /\ UNCHANGED <<owner, past, row, tx, target, rpc, orphans, gone, released>>

CompensationReturns(b) ==
    /\ pc[b] = "compensating" /\ rpc[b] \in {"ok", "error"}
    /\ pc' = [pc EXCEPT ![b] = IF rpc[b] = "ok" THEN "compensated"
                                                ELSE "uncompensated"]
    /\ rpc' = [rpc EXCEPT ![b] = "none"]
    /\ UNCHANGED <<owner, past, row, tx, target, orphans, gone, released>>

-----------------------------------------------------------------------------
(* booking-service, CancelBooking *)

\* GetByID, the ownership and status checks, and the release call they lead
\* to.  No row, another user's booking and a booking already cancelled are
\* answered without any change of state.
CancelBooking(c, u, b) ==
    /\ pc[c] = "idle"
    /\ u \notin Admins
    /\ row[b] = "active"
    /\ UserOf[b] = u
    /\ pc' = [pc EXCEPT ![c] = "releasing"]
    /\ target' = [target EXCEPT ![c] = b]
    /\ rpc' = [rpc EXCEPT ![c] = "sent"]
    /\ released' = released \cup {b}
    /\ UNCHANGED <<owner, past, row, tx, orphans, gone>>

\* The request of a cancel handler is answered.
Answered(c) == /\ pc' = [pc EXCEPT ![c] = "idle"]
               /\ target' = [target EXCEPT ![c] = NoBooking]
               /\ gone' = gone \ {c}

\* Mutation: the booking is cancelled whatever the release answered.
ReleaseAssumed(c) ==
    /\ pc[c] = "releasing" /\ rpc[c] \in {"ok", "error"}
    /\ pc' = [pc EXCEPT ![c] = "cancelling"]
    /\ rpc' = [rpc EXCEPT ![c] = "none"]
    /\ UNCHANGED <<owner, past, row, tx, target, orphans, gone, released>>

\* Only a confirmed release goes on to the UPDATE.
ReleaseConfirmed(c) ==
    /\ pc[c] = "releasing" /\ rpc[c] = "ok"
    /\ pc' = [pc EXCEPT ![c] = "cancelling"]
    /\ rpc' = [rpc EXCEPT ![c] = "none"]
    /\ UNCHANGED <<owner, past, row, tx, target, orphans, gone, released>>

\* Mutation: the release is retried without limit.
ReleaseRetried(c) ==
    /\ pc[c] = "releasing" /\ rpc[c] = "error"
    /\ rpc' = [rpc EXCEPT ![c] = "sent"]
    /\ UNCHANGED <<owner, past, row, tx, pc, target, orphans, gone, released>>

\* An unconfirmed release ends the request with the booking still active.
ReleaseNotConfirmed(c) ==
    /\ pc[c] = "releasing" /\ rpc[c] = "error"
    /\ Answered(c)
    /\ rpc' = [rpc EXCEPT ![c] = "none"]
    /\ UNCHANGED <<owner, past, row, tx, orphans, released>>

\* UPDATE bookings SET status = 'cancelled' WHERE id = $1, whatever the status.
CancelRow(c) ==
    /\ pc[c] = "cancelling"
    /\ row' = [row EXCEPT ![target[c]] = "cancelled"]
    /\ Answered(c)
    /\ UNCHANGED <<owner, past, tx, rpc, orphans, released>>

CancelRowFails(c) ==
    /\ pc[c] = "cancelling"
    /\ "update" \in Faults \/ c \in gone
    /\ \/ UNCHANGED orphans
       \/ orphans' = orphans \cup {[op |-> "cancel", booking |-> target[c]]}
    /\ Answered(c)
    /\ UNCHANGED <<owner, past, row, tx, rpc, released>>

-----------------------------------------------------------------------------
(* clients and processes *)

Running(p) == pc[p] \notin {"idle"} \cup Finished

\* The client disconnects: the context of its request is done.
ClientGone(p) ==
    /\ "gone" \in Faults
    /\ Running(p) /\ p \notin gone
    /\ gone' = gone \cup {p}
    /\ UNCHANGED <<owner, past, row, tx, pc, target, rpc, orphans, released>>

\* The process stops: a call or a statement already sent may still take effect.
CreateCrashes(b) ==
    /\ "crash" \in Faults
    /\ Running(b)
    /\ pc' = [pc EXCEPT ![b] = "crashed"]
    /\ rpc' = [rpc EXCEPT ![b] = "none"]
    /\ \/ UNCHANGED orphans
       \/ rpc[b] = "sent" /\ orphans' = orphans \cup {CallOf(b)}
    /\ IF tx[b] = "open"
       THEN \E t \in {"none", "detached"} : tx' = [tx EXCEPT ![b] = t]
       ELSE UNCHANGED tx
    /\ UNCHANGED <<owner, past, row, target, gone, released>>

CancelCrashes(c) ==
    /\ "crash" \in Faults
    /\ Running(c)
    /\ rpc' = [rpc EXCEPT ![c] = "none"]
    /\ \/ UNCHANGED orphans
       \/ rpc[c] = "sent" /\ orphans' = orphans \cup {CallOf(c)}
       \/ pc[c] = "cancelling"
          /\ orphans' = orphans \cup {[op |-> "cancel", booking |-> target[c]]}
    /\ Answered(c)
    /\ UNCHANGED <<owner, past, row, tx, released>>

-----------------------------------------------------------------------------
\* What the code and the databases do of themselves once a request runs.
CreateStep(b) ==
    \/ BookSlot(b) \/ BookSlotReturns(b)
    \/ InsertBooking(b) \/ InsertFails(b)
    \/ CommitSucceeds(b) \/ CommitRolledBack(b) \/ CommitUnknown(b)
    \/ LookupBooking(b) \/ LookupFails(b) \/ CompensationReturns(b)
CancelStep(c) ==
    \/ ReleaseConfirmed(c) \/ ReleaseNotConfirmed(c)
    \/ CancelRow(c) \/ CancelRowFails(c)
CallStep(p) == ReleaseSlot(p) \/ CallFails(p)
DetachedStep(b) == DetachedCommits(b) \/ DetachedRollsBack(b)

Next ==
    \/ \E b \in Bookings : \/ CreateBooking(b) \/ CreateStep(b)
                           \/ DetachedStep(b) \/ CreateCrashes(b)
    \/ \E c \in Cancels : \/ CancelStep(c) \/ CancelCrashes(c)
                          \/ \E u \in Users, b \in Bookings : CancelBooking(c, u, b)
    \/ \E p \in Procs : CallStep(p) \/ ClientGone(p)
    \/ \E m \in orphans : OrphanRuns(m) \/ OrphanDropped(m)
    \/ \E s \in Existing : SlotStarts(s)

Spec == Init /\ [][Next]_vars

\* Handlers are goroutines that are always scheduled, the HTTP client gives up
\* after 10 s, and PostgreSQL ends every transaction.  No client is made to
\* send a request, nothing is made to fail.
Fairness ==
    /\ \A b \in Bookings : WF_vars(CreateStep(b)) /\ WF_vars(DetachedStep(b))
    /\ \A c \in Cancels : WF_vars(CancelStep(c))
    /\ \A p \in Procs : WF_vars(CallStep(p))

LiveSpec == Spec /\ Fairness

-----------------------------------------------------------------------------
(* Safety *)

\* A cancelled booking never holds its slot, and nothing still on its way can
\* give it back: neither retries of the cancellation nor calls and UPDATEs that
\* take effect after their handler gave up (CancelBooking, ReleaseSlot).
CancelledHoldsNoSlot ==
    \A b \in Bookings : row[b] = "cancelled" =>
        /\ owner[SlotOf[b]] # b
        /\ [op |-> "book", booking |-> b] \notin orphans

\* A slot has at most one active booking, also in the window in which a slot is
\* free again while its row is still active, and with COMMITs that take effect
\* late (idx_bookings_active_slot).
OneActivePerSlot ==
    \A a, b \in Bookings :
        row[a] = "active" /\ row[b] = "active" /\ SlotOf[a] = SlotOf[b] => a = b

\* An active booking has its slot unless booking-service itself sent a release
\* for it: no other booking's call, however late, takes a slot away.
ActiveHoldsUnlessReleased ==
    \A b \in Bookings : row[b] = "active" =>
        owner[SlotOf[b]] = b \/ b \in released

\* What a create request was answered agrees with both databases: 201 only for
\* a booking that exists, a refusal only for one that never will, and after a
\* confirmed compensation the slot is not held by the request.
AnswerAgrees ==
    \A b \in Bookings :
        /\ pc[b] = "created" => row[b] # "absent"
        /\ pc[b] = "rejected" => row[b] = "absent" /\ tx[b] = "none"
        /\ pc[b] = "compensated" =>
              /\ owner[SlotOf[b]] # b
              /\ [op |-> "book", booking |-> b] \notin orphans

AtRest == /\ \A p \in Procs : ~Running(p)
          /\ \A b \in Bookings : tx[b] = "none"
          /\ orphans = {}

\* With nothing running, every slot that is taken belongs to an active booking
\* or to a request that answered that its outcome is unknown: every other local
\* write that failed has given the slot back (CreateBooking's compensation).
HeldSlotsAreBooked ==
    AtRest => \A s \in Slots : owner[s] # NoBooking =>
        row[owner[s]] = "active" \/ pc[owner[s]] = "unknown"

\* With nothing running, every active booking has its slot.
ActiveBookingsHold ==
    AtRest => \A b \in Bookings :
        row[b] = "active" => owner[SlotOf[b]] = b

\* A request whose slot was compensated has no booking: a transaction that
\* committed is never compensated (service_test.go:297).
CommittedNotCompensated ==
    \A b \in Bookings : pc[b] = "compensated" => row[b] = "absent"

\* With nothing running, a slot that is listed as free has no active booking
\* (api.yaml:530).
FreeSlotsAreUnbooked ==
    AtRest => \A b \in Bookings :
        owner[SlotOf[b]] = NoBooking => row[b] # "active"

\* When the local write failed and the request has ended, the slot it had
\* reserved has been released (README.md:48).
FailedWriteReleases ==
    \A b \in Bookings :
        pc[b] \in {"compensated", "uncompensated"} => owner[SlotOf[b]] # b

-----------------------------------------------------------------------------
(* The inductive invariant behind the safety properties *)

\* A call or statement of booking b that nobody waits for.
InFlight(op, b) == [op |-> op, booking |-> b] \in orphans

\* The book call of b can still take effect.
MayTake(b) == \/ pc[b] = "idle"
              \/ pc[b] = "booking" /\ rpc[b] = "sent"
              \/ InFlight("book", b)

\* b has a row, or a transaction that may still make one.
Written(b) == row[b] # "absent" \/ tx[b] # "none"

\* b holds, or is about to be given, its key of idx_bookings_active_slot.
HasKey(b) == row[b] = "active" \/ tx[b] # "none"

\* A slot is only ever held by a booking that asked for it, and not while the
\* call that took it could take effect again.
OwnersAsked ==
    /\ \A b \in Bookings, s \in Slots : owner[s] = b => SlotOf[b] = s
    /\ \A b \in Bookings : owner[SlotOf[b]] = b => ~MayTake(b)

\* Calls belong to handlers that wait for them.
CallsAwaited ==
    /\ \A b \in Bookings : rpc[b] # "none" => pc[b] \in {"booking", "compensating"}
    /\ \A c \in Cancels : rpc[c] # "none" => pc[c] = "releasing"

\* The local write comes after the only book call of the request, and a
\* transaction that is not over has left no row yet.
WriteAfterBook ==
    /\ \A b \in Bookings : InFlight("book", b) =>
          \/ pc[b] = "booking" /\ rpc[b] = "error"
          \/ pc[b] \in {"rejected", "crashed"}
    /\ \A b \in Bookings : Written(b) => ~MayTake(b)
    /\ \A b \in Bookings : Written(b) =>
          pc[b] \notin {"idle", "booking", "inserting", "rejected"}
    /\ \A b \in Bookings : tx[b] = "open" => pc[b] = "committing"
    /\ \A b \in Bookings : pc[b] = "committing" => tx[b] = "open"
    /\ \A b \in Bookings : tx[b] # "none" => row[b] = "absent"

KeysExclusive ==
    \A a, b \in Bookings :
        HasKey(a) /\ HasKey(b) /\ SlotOf[a] = SlotOf[b] => a = b

\* A release is sent only when it is recorded in the history.
ReleasesRecorded ==
    /\ \A b \in Bookings : pc[b] = "compensating" => b \in released
    /\ \A c \in Cancels : pc[c] # "idle" => target[c] \in released
    /\ \A b \in Bookings : InFlight("release", b) => b \in released

\* From the answer of the book call to the row, the slot is held unless it was
\* released.
HeldSinceBooked ==
    \A b \in Bookings :
        \/ row[b] = "active" \/ tx[b] # "none"
        \/ pc[b] \in {"inserting", "committing", "lookup"}
        \/ pc[b] = "booking" /\ rpc[b] = "ok"
        => owner[SlotOf[b]] = b \/ b \in released

\* b has had its slot and has given it back.
GivenBack(b) == ~MayTake(b) /\ owner[SlotOf[b]] # b

\* What follows a release happens with the slot given back.
CancelAfterRelease ==
    /\ \A c \in Cancels : pc[c] # "idle" => row[target[c]] # "absent"
    /\ \A c \in Cancels :
          pc[c] = "cancelling" \/ rpc[c] = "ok" => GivenBack(target[c])
    /\ \A b \in Bookings : InFlight("cancel", b) => row[b] # "absent"
    /\ \A b \in Bookings :
          InFlight("cancel", b) \/ row[b] = "cancelled" => GivenBack(b)

\* A compensation happens after the book call, and releases the slot.
CompensationReleases ==
    /\ \A b \in Bookings :
          pc[b] \in {"compensating", "uncompensated"} => ~MayTake(b)
    /\ \A b \in Bookings :
          \/ pc[b] = "compensating" /\ rpc[b] = "ok"
          \/ pc[b] = "compensated"
          => GivenBack(b)
    /\ \A b \in Bookings : pc[b] = "created" => row[b] # "absent"

IInv == /\ TypeOK /\ OwnersAsked /\ CallsAwaited /\ WriteAfterBook
        /\ KeysExclusive /\ ReleasesRecorded /\ HeldSinceBooked
        /\ CancelAfterRelease /\ CompensationReleases

-----------------------------------------------------------------------------
(* What holds while some kinds of failure do not happen *)

\* Unless a COMMIT takes effect after it was looked for, a request that has
\* given its booking up has no row and no transaction that may still make one.
GivenUpUnwritten ==
    "late" \notin Faults =>
        \A b \in Bookings :
            pc[b] \in {"compensating", "compensated", "uncompensated"} => ~Written(b)

\* As long as calls do not fail and clients stay, every handler that goes on has
\* the answer to its call: a compensation that is begun is confirmed.
CallsAnswered ==
    Faults \cap {"rpc", "gone"} = {} =>
        /\ gone = {}
        /\ \A p \in Procs : rpc[p] # "error"
        /\ \A b \in Bookings : pc[b] # "uncompensated"

\* If, further, no process stops, no call is left to take effect later, and a
\* refused request has not taken its slot after all.
RefusalsAreFinal ==
    Faults \cap {"rpc", "gone", "crash"} = {} =>
        /\ \A b \in Bookings : ~InFlight("book", b) /\ ~InFlight("release", b)
        /\ \A b \in Bookings : pc[b] # "crashed"
        /\ \A b \in Bookings :
              \/ pc[b] = "rejected"
              \/ pc[b] = "booking" /\ rpc[b] = "refused"
              => owner[SlotOf[b]] # b

\* If, further, UPDATEs do not fail, a booking is released only by a request
\* that gives it up before it is recorded, or by one that goes on to cancel it.
ReleasesHaveReason ==
    Faults \cap {"rpc", "gone", "crash", "update", "late"} = {} =>
        /\ \A b \in released :
              row[b] = "absent" => pc[b] \in {"compensating", "compensated"}
        /\ \A b \in released :
              row[b] = "active" =>
                  \E c \in Cancels : pc[c] # "idle" /\ target[c] = b

FInv == /\ GivenUpUnwritten /\ CallsAnswered /\ RefusalsAreFinal
        /\ ReleasesHaveReason

-----------------------------------------------------------------------------
(* Liveness *)

\* Every create request that runs is answered: no insert waits for ever behind
\* another request's transaction, no call without end.
CreateEnds == \A b \in Bookings : Running(b) ~> pc[b] \in Finished

\* Every cancel request that runs is answered.
CancelEnds == \A c \in Cancels : Running(c) ~> pc[c] = "idle"

-----------------------------------------------------------------------------
(* Refinement *)

Hold(b) == CASE owner[SlotOf[b]] = b -> "held"
             [] owner[SlotOf[b]] # b /\ MayTake(b) -> "fresh"
             [] GivenBack(b) -> "spent"

holdBar == [b \in Bookings |-> Hold(b)]

Reservation == INSTANCE SlotReservation WITH hold <- holdBar, status <- row

\* The handlers with all their failures keep the promise of SlotReservation: a
\* booking id takes its slot at most once, only a free slot, is recorded only
\* after that and cancelled only after giving the slot back.
KeepsReservations == Reservation!SSpec
=============================================================================
