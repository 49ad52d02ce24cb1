--------------------------- MODULE ConferenceLinks ---------------------------
(***************************************************************************)
(* The conference jobs of booking-service together with the conference     *)
(* service they call: conference-mock-service answers every request in a   *)
(* goroutine of its own, which looks the booking up in a map guarded by a  *)
(* read-write lock and enters a link when there is none.                   *)
(*                                                                         *)
(* The worker's call ends with the goroutine's answer or without it: after *)
(* a timeout or the death of the worker the goroutine goes on, and the     *)
(* next attempt is a second call for the same booking.  The map is in      *)
(* memory and lost when the service stops.                                 *)
(***************************************************************************)
EXTENDS ConferenceJobs

CONSTANTS
    Goroutines,    \* at most so many requests are served at once
    Links,
    LinkOf,        \* the link made of the first 8 characters of a booking's id
    MaxRestarts,   \* how often the conference service may stop
    None

ASSUME LinksAssumption ==
    /\ LinkOf \in [Bookings -> Links]
    /\ MaxRestarts \in Nat
    /\ None \notin Links \cup Goroutines \cup Bookings

VARIABLES
    links,     \* Store.links
    readers,   \* the goroutines that hold Store.mu for reading
    writer,    \* the goroutine that holds Store.mu for writing
    gpc,       \* what a goroutine does next
    asked,     \* the booking it was asked for
    reply,     \* the link it is about to answer
    call,      \* the goroutine whose answer a worker waits for
    got,       \* the link a worker was answered and has not recorded
    stored,    \* bookings.conference_link
    restarts

store == <<links, readers, writer, gpc, asked, reply, restarts>>
lvars == <<vars, store, call, got, stored>>

LTypeOK ==
    /\ TypeOK
    /\ links \in [Bookings -> Links \cup {None}]
    /\ readers \subseteq Goroutines
    /\ writer \in Goroutines \cup {None}
    /\ gpc \in [Goroutines ->
                  {"idle", "arrived", "read", "missed", "write", "answer"}]
    /\ asked \in [Goroutines -> Bookings \cup {None}]
    /\ reply \in [Goroutines -> Links \cup {None}]
    /\ call \in [Workers -> Goroutines \cup {None}]
    /\ got \in [Workers -> Links \cup {None}]
    /\ stored \in [Bookings -> Links \cup {None}]
    /\ restarts \in 0..MaxRestarts

LInit ==
    /\ Init
    /\ links = [b \in Bookings |-> None]
    /\ readers = {}
    /\ writer = None
    /\ gpc = [g \in Goroutines |-> "idle"]
    /\ asked = [g \in Goroutines |-> None]
    /\ reply = [g \in Goroutines |-> None]
    /\ call = [w \in Workers |-> None]
    /\ got = [w \in Workers |-> None]
    /\ stored = [b \in Bookings |-> None]
    /\ restarts = 0

-----------------------------------------------------------------------------
(* conference-mock-service *)

Free == {g \in Goroutines : gpc[g] = "idle" /\ \A w \in Workers : call[w] # g}

\* CreateConference begins for the call of a worker.
CallArrives(w) ==
    /\ wpc[w] = "call" /\ call[w] = None
    /\ \E g \in Free : /\ gpc' = [gpc EXCEPT ![g] = "arrived"]
                       /\ asked' = [asked EXCEPT ![g] = current[w].booking]
                       /\ call' = [call EXCEPT ![w] = g]
    /\ UNCHANGED <<vars, links, readers, writer, reply, got, stored, restarts>>

\* The goroutine returns.
Return(g) == /\ gpc' = [gpc EXCEPT ![g] = "idle"]
             /\ asked' = [asked EXCEPT ![g] = None]
             /\ reply' = [reply EXCEPT ![g] = None]

\* GetOrCreate: s.mu.RLock.
ReadLock(g) ==
    /\ gpc[g] = "arrived" /\ writer = None
    /\ readers' = readers \cup {g}
    /\ gpc' = [gpc EXCEPT ![g] = "read"]
    /\ UNCHANGED <<vars, links, writer, asked, reply, call, got, stored, restarts>>

\* Mutation: the lock is not given back when the link is there.
ReadHitHoldsLock(g) ==
    /\ gpc[g] = "read" /\ links[asked[g]] # None
    /\ reply' = [reply EXCEPT ![g] = links[asked[g]]]
    /\ gpc' = [gpc EXCEPT ![g] = "answer"]
    /\ UNCHANGED <<vars, links, readers, writer, asked, call, got, stored, restarts>>

\* The link is there: it is the answer.
ReadHit(g) ==
    /\ gpc[g] = "read" /\ links[asked[g]] # None
    /\ readers' = readers \ {g}
    /\ reply' = [reply EXCEPT ![g] = links[asked[g]]]
    /\ gpc' = [gpc EXCEPT ![g] = "answer"]
    /\ UNCHANGED <<vars, links, writer, asked, call, got, stored, restarts>>

ReadMiss(g) ==
    /\ gpc[g] = "read" /\ links[asked[g]] = None
    /\ readers' = readers \ {g}
    /\ gpc' = [gpc EXCEPT ![g] = "missed"]
    /\ UNCHANGED <<vars, links, writer, asked, reply, call, got, stored, restarts>>

\* Mutation: the entry is made under a lock that readers share.
WriteLockShared(g) ==
    /\ gpc[g] = "missed" /\ writer = None
    /\ writer' = g
    /\ gpc' = [gpc EXCEPT ![g] = "write"]
    /\ UNCHANGED <<vars, links, readers, asked, reply, call, got, stored, restarts>>

\* s.mu.Lock, after the lock for reading was given back.
WriteLock(g) ==
    /\ gpc[g] = "missed" /\ writer = None /\ readers = {}
    /\ writer' = g
    /\ gpc' = [gpc EXCEPT ![g] = "write"]
    /\ UNCHANGED <<vars, links, readers, asked, reply, call, got, stored, restarts>>

\* Mutation: the link is drawn afresh by every process.
NewLinkRandom(b) == CHOOSE l \in Links : restarts > 0 => l # LinkOf[b]

NewLink(b) == LinkOf[b]

\* The map is looked up again, for another goroutine may have been quicker; the
\* deferred s.mu.Unlock follows.
Create(g) ==
    /\ gpc[g] = "write"
    /\ LET b == asked[g]
           l == IF links[b] # None THEN links[b] ELSE NewLink(b)
       IN  /\ links' = [links EXCEPT ![b] = l]
           /\ reply' = [reply EXCEPT ![g] = l]
    /\ writer' = None
    /\ gpc' = [gpc EXCEPT ![g] = "answer"]
    /\ UNCHANGED <<vars, readers, asked, call, got, stored, restarts>>

\* The answer reaches the worker, if one waits for it.
Answer(g) ==
    /\ gpc[g] = "answer"
    /\ \/ \E w \in Workers :
             /\ call[w] = g
             /\ RequestLink(w) /\ wpc'[w] = "complete"
             /\ got' = [got EXCEPT ![w] = reply[g]]
             /\ call' = [call EXCEPT ![w] = None]
       \/ /\ \A w \in Workers : call[w] # g
          /\ UNCHANGED <<vars, call, got>>
    /\ Return(g)
    /\ UNCHANGED <<links, readers, writer, stored, restarts>>

\* The simulated failure: 500, before the map is looked at.
FailureSimulated(g) ==
    /\ gpc[g] = "arrived"
    /\ \/ \E w \in Workers :
             /\ call[w] = g
             /\ RequestLink(w) /\ wpc'[w] = "retry"
             /\ call' = [call EXCEPT ![w] = None]
       \/ /\ \A w \in Workers : call[w] # g
          /\ UNCHANGED <<vars, call>>
    /\ Return(g)
    /\ UNCHANGED <<links, readers, writer, got, stored, restarts>>

\* The process stops, and starts again with an empty map; callers still wait.
ConferenceStops ==
    /\ restarts < MaxRestarts
    /\ restarts' = restarts + 1
    /\ links' = [b \in Bookings |-> None]
    /\ readers' = {}
    /\ writer' = None
    /\ gpc' = [g \in Goroutines |-> "idle"]
    /\ asked' = [g \in Goroutines |-> None]
    /\ reply' = [g \in Goroutines |-> None]
    /\ UNCHANGED <<vars, call, got, stored>>

-----------------------------------------------------------------------------
(* booking-service *)

\* Mutation: the connection is used again while an answer is still due on it.
CallFailsKeepsConnection(w) ==
    /\ RequestLink(w) /\ wpc'[w] = "retry"
    /\ UNCHANGED <<store, call, got, stored>>

\* The call cannot be made, or is given up after 10 s: the goroutine goes on.
CallFails(w) ==
    /\ RequestLink(w) /\ wpc'[w] = "retry"
    /\ call' = [call EXCEPT ![w] = None]
    /\ UNCHANGED <<store, got, stored>>

\* CompleteConferenceJob stores the link it was answered.
RecordLink(w) ==
    /\ Complete(w)
    /\ LET b == current[w].booking
       IN  stored' = [stored EXCEPT ![b] = IF row[b] = "active" THEN got[w] ELSE @]
    /\ got' = [got EXCEPT ![w] = None]
    /\ UNCHANGED <<store, call>>

\* The outcome is recorded without a link, refused or lost.
EndJob(w) ==
    /\ \/ Discard(w) \/ Fail(w) \/ Reschedule(w)
       \/ OutcomeRefused(w) \/ OutcomeLost(w)
    /\ got' = [got EXCEPT ![w] = None]
    /\ UNCHANGED <<store, call, stored>>

\* The worker's process stops, also while it waits for an answer.
StopWorker(w) ==
    /\ WorkerStops(w)
    /\ call' = [call EXCEPT ![w] = None]
    /\ got' = [got EXCEPT ![w] = None]
    /\ UNCHANGED <<store, stored>>

\* What happens without the conference service and leaves links alone.
TakeJob(w) ==
    /\ Claim(w) \/ LoadBooking(w) \/ LoadFails(w)
    /\ UNCHANGED <<store, call, got, stored>>

Cancel(b) ==
    /\ CancelBooking(b)
    /\ stored' = [stored EXCEPT ![b] = None]
    /\ UNCHANGED <<store, call, got>>

Elsewhere(b) ==
    /\ CreateBooking(b) \/ RetryDue(b) \/ LeaseEnds(b)
    /\ UNCHANGED <<store, call, got, stored>>

-----------------------------------------------------------------------------
\* A goroutine takes its next step.
Serve(g) == \/ ReadLock(g) \/ ReadHit(g) \/ ReadMiss(g) \/ WriteLock(g)
            \/ Create(g) \/ Answer(g) \/ FailureSimulated(g)

LNext ==
    \/ \E b \in Bookings : Cancel(b) \/ Elsewhere(b)
    \/ \E w \in Workers : \/ TakeJob(w) \/ CallArrives(w) \/ CallFails(w)
                          \/ RecordLink(w) \/ EndJob(w) \/ StopWorker(w)
    \/ \E g \in Goroutines : Serve(g)
    \/ ConferenceStops

LSpec == LInit /\ [][LNext]_lvars

-----------------------------------------------------------------------------
\* Every link about booking b, wherever it is: in the map, on its way in an
\* answer, with a worker, in the database.
LinksOf(b) ==
    {links[b], stored[b]}
    \cup {reply[g] : g \in {h \in Goroutines : asked[h] = b}}
    \cup {got[w] : w \in {v \in Workers : wpc[v] = "complete"
                                          /\ current[v].booking = b}}

\* All attempts and replicas are answered the same link for a booking, which is
\* its own: also after a timeout whose goroutine answers late, when two calls
\* look the booking up together, and after a restart (README.md:59, GetOrCreate).
OneLinkPerBooking == \A b \in Bookings : LinksOf(b) \subseteq {LinkOf[b], None}

\* Nobody looks at the map while an entry is made: Go ends a process that does.
NoMapRace ==
    \A g, h \in Goroutines :
        gpc[g] = "write" => gpc[h] # "read" /\ (gpc[h] = "write" => g = h)

\* A lock is held only by a goroutine that is at the map: none keeps it while
\* it answers, so whoever waits for it waits for a step that can be taken.
LocksGivenBack ==
    /\ readers = {g \in Goroutines : gpc[g] = "read"}
    /\ \A g \in Goroutines : gpc[g] = "write" <=> writer = g

-----------------------------------------------------------------------------
(* The inductive invariant *)

\* A worker waits for a goroutine that has its booking, or has gone with the
\* process, and for one that nobody else waits for.
CallsMatch ==
    /\ \A w \in Workers : call[w] # None => wpc[w] = "call"
    /\ \A w \in Workers : call[w] # None =>
          gpc[call[w]] = "idle" \/ asked[call[w]] = current[w].booking
    /\ \A v, w \in Workers : call[v] # None /\ call[v] = call[w] => v = w

\* Goroutines at work have a booking, and readers exclude a writer.
ServingOk ==
    /\ \A g \in Goroutines : gpc[g] # "idle" => asked[g] \in Bookings
    /\ \A g \in Goroutines : gpc[g] # "answer" => reply[g] = None
    /\ \A g \in Goroutines : gpc[g] = "answer" => reply[g] = LinkOf[asked[g]]
    /\ writer # None => readers = {}

\* What is kept of links is right wherever it is.
LinksRight ==
    /\ \A b \in Bookings : links[b] \in {LinkOf[b], None}
    /\ \A b \in Bookings : stored[b] \in {LinkOf[b], None}
    /\ \A b \in Bookings : link[b] <=> stored[b] # None
    /\ \A w \in Workers :
          wpc[w] = "complete" => got[w] = LinkOf[current[w].booking]

LInv == LTypeOK /\ LocksGivenBack /\ CallsMatch /\ ServingOk /\ LinksRight

=============================================================================
