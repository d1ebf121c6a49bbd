---------------------------- MODULE LeasedClaim ----------------------------
(***************************************************************************)
(* The claim by which a call to Google is made by one worker at a time: an *)
(* instant and a token in the row it refreshes, and the instant of the     *)
(* last attempt, from which the cool-down is counted.  The locations of a  *)
(* connection, the reviews of a location and its performance each have one.*)
(* Instants are held as ages, which stop at MaxAge, beyond every threshold.*)
(***************************************************************************)
EXTENDS Naturals

CONSTANTS
    Lease,              \* SYNC_CLAIM_LEASE_MS
    Cooldown,           \* SYNC_COOLDOWN_MS
    MaxAge,             \* bound: ages beyond it are not told apart
    NoToken             \* the claim token is null

Older(age) == IF age < MaxAge THEN age + 1 ELSE age

(* claimed and attempted are the ages of the claim and the last attempt;   *)
(* no attempt yet is one of MaxAge.                                        *)
Claim(token, claimed, attempted) ==
    [token |-> token, claimed |-> claimed, attempted |-> attempted]

Unclaimed == Claim(NoToken, MaxAge, MaxAge)

LeaseFree(claim) == claim.token = NoToken \/ claim.claimed > Lease

Claimable(claim) == LeaseFree(claim) /\ claim.attempted >= Cooldown

Taken(token) == Claim(token, 0, 0)

Released(claim) == Claim(NoToken, MaxAge, claim.attempted)

Aged(claim) ==
    Claim(claim.token, Older(claim.claimed), Older(claim.attempted))

=============================================================================
