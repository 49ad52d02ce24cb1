-------------------------- MODULE MCConferenceJobs --------------------------
(***************************************************************************)
(* Small instances of ConferenceJobs: replicas are interchangeable.        *)
(***************************************************************************)
EXTENDS ConferenceJobs, TLC

CONSTANTS b1, b2, b3, w1, w2

Replicas == Permutations(Workers)
=============================================================================
