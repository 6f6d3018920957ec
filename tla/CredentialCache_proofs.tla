----------------------- MODULE CredentialCache_proofs -----------------------
(***************************************************************************)
(* For every margin, budget, life and set of clock drifts: when a request  *)
(* can carry an expired credential.  The property itself is not inductive. *)
(* It has to be known how what is left of the credential compares with     *)
(* what is left of the collect: one that was just bought outlives it, one  *)
(* that was reused outlives it but for what the margin does not cover.     *)
(***************************************************************************)
EXTENDS CredentialCache, TLAPS

\* The credential in use was bought in this collect, or had more than the margin
\* left when it began.
Outlives ==
    pc = "requesting" /\ held
        => left > ctx + drift \/ left > ctx + Margin - Budget

Inv == TypeOK /\ Outlives

LEMMA LessType == ASSUME NEW n \in Nat, NEW t \in 0 .. n PROVE Less(t) \in 0 .. n
BY DEF Less

LEMMA InitInv == Init => Inv
<1>. SUFFICES ASSUME Init PROVE Inv
  OBVIOUS
<1>1. Interval[kind] \in Nat /\ Budget \in Nat /\ Life \in Nat
  BY CacheAssumption DEF Init
<1>2. sleep \in 0 .. Interval[kind] /\ ctx \in 0 .. Budget /\ left \in Int
  BY <1>1 DEF Init
<1>. QED
  BY <1>2 DEF Init, Inv, TypeOK, Outlives

LEMMA TypeNext == TypeOK /\ [Next]_vars => TypeOK'
<1>. SUFFICES ASSUME TypeOK, [Next]_vars PROVE TypeOK'
  OBVIOUS
<1>. USE CacheAssumption
<1>1. CASE Tick
  <2>1. Interval[kind] \in Nat
    BY DEF TypeOK
  <2>2. /\ sleep \in 0 .. Interval[kind] /\ ctx \in 0 .. Budget
        /\ left \in Int /\ drift \in Int /\ Life \in Nat
        /\ held => left <= Life + drift
    BY DEF TypeOK
  <2>3. Less(sleep) \in 0 .. Interval[kind]
    BY <2>1, <2>2, LessType
  <2>4. Less(ctx) \in 0 .. Budget
    BY <2>2, LessType
  <2>5. UNCHANGED <<kind, drift, pc, held, revoked, issuerUp>>
    BY <1>1 DEF Tick, setup
  <2>6. sleep' = Less(sleep) /\ ctx' = Less(ctx) /\ left' \in {left, left - 1}
    BY <1>1 DEF Tick
  <2>7. left' \in Int /\ (held => left' <= Life + drift)
    BY <2>2, <2>6
  <2>. QED
    BY <2>3, <2>4, <2>5, <2>6, <2>7 DEF TypeOK
<1>2. CASE Revoke \/ Reuse
  <2>1. UNCHANGED <<kind, drift, sleep, ctx, held, left, issuerUp>>
        /\ pc' \in {pc, "requesting"}
    BY <1>2 DEF Revoke, Reuse, setup, cache
  <2>2. revoked' \in BOOLEAN
    BY <1>2, Zenon DEF Revoke, Reuse, cache, TypeOK
  <2>. QED
    BY <2>1, <2>2 DEF TypeOK
<1>7. CASE Outage
  BY <1>7 DEF Outage, TypeOK, setup, cache
<1>8. CASE Begin
  <2>1. Budget \in 0 .. Budget
    OBVIOUS
  <2>. QED
    BY <1>8, <2>1 DEF Begin, TypeOK, setup, cache
<1>6. /\ Interval[kind] \in 0 .. Interval[kind] /\ 0 \in 0 .. Budget
      /\ Life + drift \in Int /\ Life + drift <= Life + drift
  <2>1. Interval[kind] \in Nat \ {0}
    BY DEF TypeOK
  <2>2. drift \in Int
    BY DEF TypeOK
  <2>. QED
    BY <2>1, <2>2
<1>3. CASE TokenExchange \/ BlankToken \/ RoleExchange
  <2>1. /\ pc' = "requesting" /\ UNCHANGED <<kind, drift, sleep, ctx, issuerUp>>
        /\ revoked' = FALSE
    BY <1>3 DEF TokenExchange, BlankToken, RoleExchange, Bought, setup
  <2>2. \/ held' = TRUE /\ left' = Life + drift
        \/ held' = FALSE /\ left' = 0
    BY <1>3, Zenon DEF TokenExchange, BlankToken, RoleExchange, Bought
  <2>3. left' \in Int /\ (held' => left' <= Life + drift)
    BY <1>6, <2>2
  <2>4. held' \in BOOLEAN /\ revoked' \in BOOLEAN
    BY <2>1, <2>2, Zenon
  <2>. QED
    BY <2>1, <2>3, <2>4 DEF TypeOK
<1>4. CASE ExchangeFailed \/ Done \/ Refused \/ Deadline
  BY <1>4, <1>6 DEF ExchangeFailed, Done, Refused, Deadline, Return, TypeOK, setup, cache
<1>5. CASE UNCHANGED vars
  BY <1>5 DEF vars, TypeOK
<1>. QED
  BY <1>1, <1>2, <1>3, <1>4, <1>5, <1>7, <1>8 DEF Next, Collect

LEMMA OutlivesNext == TypeOK /\ Outlives /\ [Next]_vars => Outlives'
<1>. SUFFICES ASSUME TypeOK, Outlives, [Next]_vars PROVE Outlives'
  OBVIOUS
<1>. USE CacheAssumption
<1>1. /\ left \in Int /\ ctx \in Nat /\ ctx <= Budget /\ drift \in Int
      /\ Budget < Life
  BY LifeAssumption DEF TypeOK
<1>2. CASE Tick
  BY <1>1, <1>2 DEF Tick, Less, Outlives, setup
<1>3. CASE Reuse
  BY <1>1, <1>3 DEF Reuse, Reusable, Outlives, setup, cache
<1>4. CASE TokenExchange \/ RoleExchange
  BY <1>1, <1>4 DEF TokenExchange, RoleExchange, Bought, Outlives, setup
<1>5. CASE BlankToken
  BY <1>5 DEF BlankToken, Outlives
<1>6. CASE Outage \/ Revoke \/ Begin
  BY <1>6 DEF Outage, Revoke, Begin, Outlives, setup, cache
<1>7. CASE ExchangeFailed \/ Done \/ Refused \/ Deadline
  BY <1>7 DEF ExchangeFailed, Done, Refused, Deadline, Return, Outlives
<1>8. CASE UNCHANGED vars
  BY <1>8 DEF vars, Outlives
<1>. QED
  BY <1>2, <1>3, <1>4, <1>5, <1>6, <1>7, <1>8 DEF Next, Collect

\* Every variable of the cache keeps its type.
THEOREM CacheTypes == Spec => []TypeOK
<1>1. Init => TypeOK
  BY InitInv DEF Inv
<1>. QED
  BY <1>1, TypeNext, PTL DEF Spec

\* Whatever the drift, a request carries an expired credential only in the last
\* ticks of a collect, as many as drift and budget exceed the margin by.
THEOREM ExpiredByDriftOnly == Spec => []ExpiredOnlyByDrift
<1>1. Inv => ExpiredOnlyByDrift
  BY CacheAssumption DEF Inv, TypeOK, Outlives, ExpiredOnlyByDrift, Excess
<1>2. Inv /\ [Next]_vars => Inv'
  BY TypeNext, OutlivesNext DEF Inv
<1>. QED
  BY <1>1, <1>2, InitInv, PTL DEF Spec

\* With the margin no shorter than the budget, as in the code, a pod whose clock is
\* not behind the issuer's presents no expired credential at all.
THEOREM NeverExpired ==
    ASSUME Budget <= Margin
    PROVE  Spec => [](pc = "requesting" /\ held /\ drift <= 0 => left > drift)
<1>1. TypeOK /\ ExpiredOnlyByDrift
         => (pc = "requesting" /\ held /\ drift <= 0 => left > drift)
  BY CacheAssumption DEF TypeOK, ExpiredOnlyByDrift, Excess
<1>. QED
  BY <1>1, CacheTypes, ExpiredByDriftOnly, PTL
=============================================================================
