------------------------------ MODULE Credential ------------------------------
(***************************************************************************)
(* worker/src/credential.ts: what may be done with a person's Gateway leg, *)
(* by how long it still lasts.  A leg is represented by its expiry time;   *)
(* the code keeps the token and the expiry together, so 0 stands for "no   *)
(* token".  Times are natural numbers and real times are positive.         *)
(***************************************************************************)
EXTENDS Naturals

CONSTANTS
  QueueMinimum,    \* remaining life a leg needs before work is queued
  ClaimMinimum,    \* remaining life it needs before a runner gets the task
  GatewayMargin    \* remaining life below which it is not relayed any more

\* CREDENTIAL_LIMITS: 60, 15 and 10 minutes.  Only their order matters.
ASSUME CredentialLimits ==
  /\ QueueMinimum \in Nat /\ ClaimMinimum \in Nat /\ GatewayMargin \in Nat
  /\ GatewayMargin < ClaimMinimum
  /\ ClaimMinimum <= QueueMinimum

NoLeg == 0

\* credentialEligibility: the five answers, from the longest-lived leg down.
CredentialEligibility(kind, expires, now) ==
  CASE kind = "sync"                      -> "not_required"
    [] kind # "sync" /\ expires = NoLeg   -> "missing"
    [] OTHER ->
         IF expires >= now + QueueMinimum      THEN "queue_eligible"
         ELSE IF expires >= now + ClaimMinimum THEN "claim_eligible"
         ELSE IF expires > now + GatewayMargin THEN "relay_only"
         ELSE "expired"

\* The answers each use of a leg accepts: admission and review, claim, relay.
MayQueue(kind, expires, now) ==
  CredentialEligibility(kind, expires, now) = "queue_eligible"

MayClaim(kind, expires, now) ==
  CredentialEligibility(kind, expires, now)
    \in {"not_required", "queue_eligible", "claim_eligible"}

MayRelay(kind, expires, now) ==
  CredentialEligibility(kind, expires, now)
    \in {"queue_eligible", "claim_eligible", "relay_only"}

===============================================================================
