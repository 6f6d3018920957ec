--------------------------- MODULE CredentialCache ---------------------------
(***************************************************************************)
(* The exporter's two credential caches: githubApp.token (githubapp.go),   *)
(* an installation token bought with a JWT, and webIdentity.get (sigv4.go),*)
(* role credentials bought with the pod's projected token.  Both keep what *)
(* they bought and hand it out while it has more than Margin left; the     *)
(* collect that asked then uses it for as many requests as it needs, until *)
(* its context's Budget runs out (main.go:128).                            *)
(*                                                                         *)
(* Time is counted in ticks (minutes in the code) and every date is kept   *)
(* as what is left until it, so no clock bound is needed.  A credential's  *)
(* expiry is a date of the issuer's, which the pod compares with its own   *)
(* clock: "drift" is how far the issuer's clock is ahead of the pod's.     *)
(***************************************************************************)
EXTENDS Integers

CONSTANTS
    Margin,     \* a cached credential with no more than this left is not used
    Budget,     \* the timeout of one collect
    Life,       \* what a new credential has left when it is bought, by the issuer's clock
    Interval,   \* Interval[k]: what poll() sleeps between two collects of k
    Backdate,   \* appJWT: iat is this far in the past
    JwtLife,    \* appJWT: exp is this far in the future
    MaxJwt,     \* external: GitHub refuses an exp further ahead than this
    Drift       \* issuer's clock minus the pod's, the values it may have

Kind == {"githubApp", "webIdentity"}

ASSUME CacheAssumption ==
    /\ Margin \in Nat /\ Budget \in Nat /\ Life \in Nat
    /\ Interval \in [Kind -> Nat \ {0}]
    /\ Backdate \in Nat /\ JwtLife \in Nat /\ MaxJwt \in Nat
    /\ Drift \subseteq Int

\* A new credential outlives the collect that bought it: an hour against five
\* minutes (sigv4.go:63, main.go:128).
ASSUME LifeAssumption == Budget < Life

VARIABLES
    kind,       \* which of the two caches this is
    drift,      \* the issuer's clock minus the pod's
    pc,         \* the collect: "idle", "getting" a credential, "requesting"
    sleep,      \* until poll() wakes
    ctx,        \* until the collect's context is done
    held,       \* a credential is cached: cached # "", AccessKeyID # ""
    left,       \* until the cached credential expires, by the pod's clock
    revoked,    \* the issuer no longer accepts the cached credential
    issuerUp    \* the issuer, and what is read to ask it, are in order

setup == <<kind, drift>>
cache == <<held, left, revoked>>
vars  == <<kind, drift, pc, sleep, ctx, held, left, revoked, issuerUp>>

-----------------------------------------------------------------------------
Init ==
    /\ kind \in Kind
    /\ drift \in Drift
    /\ pc = "idle" /\ sleep = 0 /\ ctx = 0
    /\ held = FALSE /\ left = 0 /\ revoked = FALSE
    /\ issuerUp \in BOOLEAN

Less(t) == IF t > 0 THEN t - 1 ELSE 0

\* A tick passes, unless a timer is due: a context that is done ends the
\* collect, an interval that is over starts one.  Once a credential has expired
\* by both clocks, how long ago that was is not kept.
Tick ==
    /\ IF pc = "idle" THEN sleep > 0 ELSE ctx > 0
    /\ sleep' = Less(sleep)
    /\ ctx' = Less(ctx)
    /\ left' = IF left > 0 \/ left > drift THEN left - 1 ELSE left
    /\ UNCHANGED <<setup, pc, held, revoked, issuerUp>>

\* The issuer or a file it takes to ask it becomes unusable, or usable.
Outage ==
    /\ issuerUp' = ~issuerUp
    /\ UNCHANGED <<setup, pc, sleep, ctx, cache>>

\* The App is reinstalled, a session is revoked: the cached credential is dead.
Revoke ==
    /\ held /\ ~revoked
    /\ revoked' = TRUE
    /\ UNCHANGED <<setup, pc, sleep, ctx, held, left, issuerUp>>

\* poll() calls collect, collect calls token() or get().
Begin ==
    /\ pc = "idle" /\ sleep = 0
    /\ pc' = "getting"
    /\ ctx' = Budget
    /\ UNCHANGED <<setup, sleep, cache, issuerUp>>

\* The collect returns, and poll() sleeps.
Return ==
    /\ pc' = "idle"
    /\ ctx' = 0
    /\ sleep' = Interval[kind]

\* Mutant of Reusable: a credential is used for as long as it has not expired.
ReusableToTheEnd == held /\ left > 0

\* Mutant of Reusable: what was bought once is used for ever.
ReusableForEver == held

\* g.cached # "" and g.expires.Sub(now) > 5m; time.Until(w.cached.Expiration).
Reusable == held /\ left > Margin

Reuse ==
    /\ pc = "getting"
    /\ Reusable
    /\ pc' = "requesting"
    /\ UNCHANGED <<setup, sleep, ctx, cache, issuerUp>>

\* external: GitHub takes a JWT already issued, not yet expired, and not valid
\* for longer than its maximum, by its own clock.
JwtAccepted ==
    /\ -Backdate <= drift
    /\ drift < JwtLife
    /\ JwtLife <= drift + MaxJwt

CanExchange == issuerUp /\ (kind = "githubApp" => JwtAccepted)

\* Mutant of Bought: the margin is added to the expiry.
BoughtWithMargin ==
    /\ held' = TRUE
    /\ left' = Life + drift + Margin
    /\ revoked' = FALSE

\* The expiry is the issuer's: its clock and Life.  What is left until then by
\* the pod's clock is more if the pod's clock is behind, less if it is ahead.
Bought ==
    /\ held' = TRUE
    /\ left' = Life + drift
    /\ revoked' = FALSE

\* A new installation token is bought with a JWT signed with the App's key.
TokenExchange ==
    /\ pc = "getting" /\ kind = "githubApp"
    /\ ~Reusable
    /\ CanExchange
    /\ Bought
    /\ pc' = "requesting"
    /\ UNCHANGED <<setup, sleep, ctx, issuerUp>>

\* A 201 with no token in it is cached all the same, and used once.
BlankToken ==
    /\ pc = "getting" /\ kind = "githubApp"
    /\ ~Reusable
    /\ ~issuerUp
    /\ held' = FALSE /\ left' = 0 /\ revoked' = FALSE
    /\ pc' = "requesting"
    /\ UNCHANGED <<setup, sleep, ctx, issuerUp>>

\* New role credentials are bought with the projected token, read afresh; an
\* answer without them is an error.
RoleExchange ==
    /\ pc = "getting" /\ kind = "webIdentity"
    /\ ~Reusable
    /\ CanExchange
    /\ Bought
    /\ pc' = "requesting"
    /\ UNCHANGED <<setup, sleep, ctx, issuerUp>>

\* No credential to be had: the collect fails and the cache is as it was.
ExchangeFailed ==
    /\ pc = "getting"
    /\ ~Reusable
    /\ ~CanExchange
    /\ Return
    /\ UNCHANGED <<setup, cache, issuerUp>>

\* external: what the API accepts, by the issuer's clock.
Accepted == held /\ ~revoked /\ left > drift

\* The last request of the collect is answered.
Done ==
    /\ pc = "requesting"
    /\ Accepted
    /\ Return
    /\ UNCHANGED <<setup, cache, issuerUp>>

\* A request is refused.  The collect fails; the cache is not told.
Refused ==
    /\ pc = "requesting"
    /\ ~Accepted
    /\ Return
    /\ UNCHANGED <<setup, cache, issuerUp>>

\* context.WithTimeout: whatever is in flight is abandoned.
Deadline ==
    /\ pc # "idle" /\ ctx = 0
    /\ Return
    /\ UNCHANGED <<setup, cache, issuerUp>>

-----------------------------------------------------------------------------
Collect ==
    \/ Begin \/ Reuse \/ TokenExchange \/ BlankToken \/ RoleExchange
    \/ ExchangeFailed \/ Done \/ Refused \/ Deadline

Next == Collect \/ Tick \/ Outage \/ Revoke

\* Time passes, the goroutine runs, and an issuer that is in order does not let
\* the context of every exchange run out.
Spec == /\ Init /\ [][Next]_vars
        /\ WF_vars(Tick) /\ WF_vars(Collect)
        /\ SF_vars(TokenExchange \/ RoleExchange)

-----------------------------------------------------------------------------
\* Every variable keeps its type.
TypeOK ==
    /\ kind \in Kind /\ drift \in Drift
    /\ pc \in {"idle", "getting", "requesting"}
    /\ sleep \in 0 .. Interval[kind]
    /\ ctx \in 0 .. Budget
    /\ held \in BOOLEAN /\ left \in Int /\ revoked \in BOOLEAN
    /\ held => left <= Life + drift
    /\ issuerUp \in BOOLEAN

\* How long a collect may outlast the margin by the issuer's clock.
Excess == Budget + drift - Margin

\* A request carries a credential that has expired by the issuer's clock only in
\* the last Excess ticks of a collect, whatever was cached, revoked or refused
\* before.  The five minutes kept in hand (githubapp.go:65, sigv4.go:46) cover
\* the five a collect may take (main.go:128) to the minute, so this never happens
\* to a pod whose clock is right or ahead, and to one that is behind only for as
\* long as it is behind.
ExpiredOnlyByDrift ==
    pc = "requesting" /\ held /\ left <= drift => ctx < Excess

\* A credential the issuer has revoked is not presented for ever, although a
\* refusal never empties the cache: it ages out and is bought anew, once the
\* issuer can be asked.  It takes the backdated JWT (githubapp.go:114-115) for
\* a pod whose clock runs ahead.
RevokedIsReplaced == <>[]issuerUp => [](revoked => <>~revoked)
=============================================================================
