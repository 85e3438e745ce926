---------------------------- MODULE MCSubmission ----------------------------
(* Instances of Submission for TLC.                                        *)
EXTENDS Submission, TLC

CONSTANTS a1, a2, u1

\* One application, or two of one user.
Single == a1 :> u1
SharedOwner == a1 :> u1 @@ a2 :> u1
=============================================================================
