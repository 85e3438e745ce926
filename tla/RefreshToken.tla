---------------------------- MODULE RefreshToken ----------------------------
(***************************************************************************)
(* What services/redis_service.py promises of refresh_token:{user_id}: one *)
(* token per user is valid, and a token that was valid once and is no more *)
(* (rotated, overwritten by another login, revoked, expired) stays         *)
(* invalid: whatever takes the place is new.                               *)
(***************************************************************************)
CONSTANT NoToken
VARIABLES
    token,  \* the valid token
    used    \* those that are or have been valid

vars == <<token, used>>

Init == token = NoToken /\ used = {}

Renew ==
    /\ token' \notin used \cup {NoToken}
    /\ used' = used \cup {token'}

Revoke == token' = NoToken /\ UNCHANGED used

Next == Renew \/ Revoke

Spec == Init /\ [][Next]_vars
=============================================================================
