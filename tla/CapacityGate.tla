---------------------------- MODULE CapacityGate ----------------------------
(***************************************************************************)
(* The capacity gate of an instance: reservations, the constitutional      *)
(* reserve, preemption, fair share and burst, spend and the ladder.        *)
(*   packages/platform-runtime/src/capacityGate.ts, request and release    *)
(*   packages/contracts/src/scheduling.ts, the tables                      *)
(*                                                                         *)
(* Both methods are synchronous: one call is one step.  A class is its     *)
(* priority, 0 for P0_CONSTITUTIONAL to 4 for P4_EVOLUTION; a level is its *)
(* rung, 0 for normal to 5 for protect_critical.  The reservations are a   *)
(* sequence in the order in which the store's Map lists them, and a        *)
(* reservation is known by its place.  Requests that are malformed, or     *)
(* turned away by the ladder or by a budget, change nothing.               *)
(***************************************************************************)
EXTENDS Integers, FiniteSets, SequencesExt, Totals

CONSTANTS
  DimSet,         \* the limited dimensions
  Total, Reserve, \* Total[d]: limits[d]; Reserve[d]: the part of it kept for P0
  Share,          \* Share[d]: what one tenant may hold of the rest
  BurstMax,       \* burstTokens
  DegradeAbove, RecoverBelow,  \* in percent of the general limit
  SpendCeiling,   \* tenantSpendCeiling
  Tenants, NoTenant,
  Works,          \* the requests callers make
  Actuals         \* what a released work may report to have spent, if it does

VARIABLES
  held,      \* the reservations, oldest first
  rung,      \* the degradation level
  spent,     \* spent[t]: what tenant t has been charged
  tokens     \* tokens[t]: its burst tokens as of now

gateVars == <<held, rung, spent, tokens>>

General(d) == Total[d] - Reserve[d]

\* dims: the keys of the demand in their order; of other dimensions it asks nothing.
Work == [class : 0 .. 4, tenant : Tenants \cup {NoTenant},
         dims : Seq(DimSet), demand : [DimSet -> Nat], spend : Nat]

ASSUME GateAssumption ==
  /\ Total \in [DimSet -> Nat] /\ Share \in [DimSet -> Nat]
  /\ \A d \in DimSet : Reserve[d] \in 0 .. Total[d]
  /\ BurstMax \in Nat /\ SpendCeiling \in Nat
  /\ RecoverBelow \in Nat \ {0} /\ DegradeAbove \in Nat /\ RecoverBelow < DegradeAbove
  /\ NoTenant \notin Tenants
  /\ Works \subseteq Work /\ Actuals \subseteq Nat
  /\ \A work \in Works : \A d \in DimSet \ ToSet(work.dims) : work.demand[d] = 0

GateInit ==
  /\ held = <<>> /\ rung = 0
  /\ spent = [t \in Tenants |-> 0]
  /\ tokens = [t \in Tenants |-> BurstMax]

-----------------------------------------------------------------------------
(* The tables                                                              *)

\* `mayPreempt': P0 takes from P2 to P4, P1 from P3 and P4, P2 from P4.
MayPreempt(class, victim) == class <= 2 /\ victim >= class + 2

\* `admissibleAt'
AdmissibleAt(level) ==
  CASE level = 0 -> 0 .. 4
    [] level = 1 -> 0 .. 3
    [] level \in 2 .. 4 -> 0 .. 2
    [] level = 5 -> 0 .. 1

-----------------------------------------------------------------------------
(* What is held                                                            *)

\* usedIn, over the reservations of h at the places in S
Used(h, S, d) == TotalOf([i \in DOMAIN h |-> h[i].demand[d]], S)

NotP0(h) == {i \in DOMAIN h : h[i].class # 0}
Of(h, t) == {i \in DOMAIN h : h[i].tenant = t}

\* recomputeLevel: one rung per call, with a gap between the two thresholds.
Recomputed(h, level) ==
  LET Above(percent) ==
        \E d \in DimSet : 100 * Used(h, NotP0(h), d) > percent * General(d) /\ General(d) > 0
      Below(percent) ==
        \A d \in DimSet : General(d) > 0 => 100 * Used(h, NotP0(h), d) < percent * General(d)
  IN CASE Above(DegradeAbove) /\ level < 5 -> level + 1
       [] ~Above(DegradeAbove) /\ Below(RecoverBelow) /\ level > 0 -> level - 1
       [] OTHER -> level

-----------------------------------------------------------------------------
(* request                                                                 *)

\* The reservations counted against work's limit, and that limit.
Counted(h, work) == IF work.class = 0 THEN DOMAIN h ELSE NotP0(h)

\* Mutant: the reserve is lent out while nobody needs it.
CeilingLent(work, d) == Total[d]

Ceiling(work, d) == IF work.class = 0 THEN Total[d] ELSE General(d)

\* The places evicted for dimension d: the least important first, of equals the
\* oldest, as long as what is held leaves no room.
Victims(h, work, d) ==
  LET preemptible == {i \in DOMAIN h : /\ MayPreempt(work.class, h[i].class)
                                       /\ h[i].demand[d] > 0}
      Before(j, i) == \/ h[j].class > h[i].class
                      \/ h[j].class = h[i].class /\ j < i
  IN {i \in preemptible :
        Used(h, Counted(h, work) \ {j \in preemptible : Before(j, i)}, d)
          + work.demand[d] > Ceiling(work, d)}

Without(h, S) ==
  LET keep == DOMAIN h \ S
      Place(n) == CHOOSE i \in keep : Cardinality({j \in keep : j <= i}) = n
  IN [n \in 1 .. Cardinality(keep) |-> h[Place(n)]]

\* Mutant: only what this work asks for counts as over the share.
OverOwn(h, work, d) == work.demand[d] - Share[d]

\* By how much work takes its tenant over the fair share.  P0 is never throttled.
Over(h, work, d) ==
  IF work.class = 0 \/ work.tenant = NoTenant THEN 0
  ELSE Used(h, Of(h, work.tenant), d) + work.demand[d] - Share[d]

\* One dimension of the loop: st is what the earlier ones left, with its
\* evictions and tokens, also when this one then defers the work.
TryDim(work, st, d) ==
  LET evict == Victims(st.h, work, d)
      h == Without(st.h, evict)
      full == Used(h, Counted(h, work), d) + work.demand[d] > Ceiling(work, d)
      over == Over(h, work, d)
      burst == over > 0 /\ over <= st.burst
  IN IF st.deferred THEN st
     ELSE [h |-> h, evicted |-> st.evicted + Cardinality(evict),
           burst |-> IF burst /\ ~full THEN st.burst - over ELSE st.burst,
           deferred |-> full \/ (over > 0 /\ ~burst)]

\* The loop over the dimensions that the demand names.
Tried(work) ==
  LET st[n \in 0 .. Len(work.dims)] ==
        IF n = 0
          THEN [h |-> held, evicted |-> 0, deferred |-> FALSE,
                burst |-> IF work.tenant = NoTenant THEN 0 ELSE tokens[work.tenant]]
          ELSE TryDim(work, st[n - 1], work.dims[n])
  IN st[Len(work.dims)]

OverBudget(work) ==
  work.tenant # NoTenant /\ spent[work.tenant] + work.spend > SpendCeiling

Outcome(work) ==
  CASE work.class \notin AdmissibleAt(rung) -> "deferred"
    [] OverBudget(work) /\ work.class \in AdmissibleAt(rung) -> "rejected"
    [] OTHER -> IF Tried(work).deferred THEN "deferred" ELSE "admitted"

\* Charge t, or nobody.
Plus(amounts, t, n) == [u \in Tenants |-> amounts[u] + IF u = t THEN n ELSE 0]

SetTokens(work, n) ==
  tokens' = [t \in Tenants |-> IF t = work.tenant THEN n ELSE tokens[t]]

\* What is evicted for a work that is then deferred stays evicted, and the
\* answer does not say so; nor is the level computed again.
Defer(work) ==
  LET tried == Tried(work) IN
  /\ work.class \in AdmissibleAt(rung) /\ ~OverBudget(work)
  /\ tried.deferred
  /\ held' = tried.h
  /\ SetTokens(work, tried.burst)
  /\ UNCHANGED <<rung, spent>>

Admit(work) ==
  LET tried == Tried(work) IN
  /\ work.class \in AdmissibleAt(rung) /\ ~OverBudget(work)
  /\ ~tried.deferred
  /\ held' = Append(tried.h, work)
  /\ rung' = Recomputed(held', rung)
  /\ spent' = Plus(spent, work.tenant, work.spend)
  /\ SetTokens(work, tried.burst)

-----------------------------------------------------------------------------

\* release: spend is reconciled against what was charged, with `actual' equal
\* to it when the caller reports none.  Releasing a reservation that was
\* evicted changes nothing.
Release(i, actual) ==
  LET work == held[i]
      final == Plus(spent, work.tenant, actual - work.spend)
  IN
  /\ held' = Without(held, {i})
  /\ rung' = Recomputed(held', rung)
  /\ spent' = [t \in Tenants |-> IF final[t] < 0 THEN 0 ELSE final[t]]
  /\ UNCHANGED tokens

\* Mutant: what comes back is not capped.
RefillUncapped(t) ==
  /\ tokens' = [tokens EXCEPT ![t] = @ + 1]
  /\ UNCHANGED <<held, rung, spent>>

\* Burst tokens come back with time, up to burstTokens.
Refill(t) ==
  /\ tokens[t] < BurstMax
  /\ tokens' = [tokens EXCEPT ![t] = @ + 1]
  /\ UNCHANGED <<held, rung, spent>>

GateNext ==
  \/ \E work \in Works : Defer(work) \/ Admit(work)
  \/ \E i \in DOMAIN held : \E actual \in Actuals \cup {held[i].spend} : Release(i, actual)
  \/ \E t \in Tenants : Refill(t)

GateSpec == GateInit /\ [][GateNext]_gateVars

-----------------------------------------------------------------------------
(* Properties                                                              *)

GateTypeOK ==
  /\ held \in Seq(Work)
  /\ rung \in 0 .. 5
  /\ spent \in [Tenants -> Nat]
  /\ tokens \in [Tenants -> 0 .. BurstMax]

\* There is always room for a constitutional action within the reserve,
\* whatever was admitted, preempted and released before it and however low the
\* ladder stands: no other class ever holds any of the reserve.
ReserveRunnable ==
  \A work \in Works :
    /\ work.class = 0 /\ work.tenant = NoTenant
    /\ \A d \in DimSet :
         Used(held, DOMAIN held \ NotP0(held), d) + work.demand[d] <= Reserve[d]
    => Outcome(work) = "admitted" /\ Tried(work).evicted = 0

\* One tenant does not starve another: but for its constitutional actions a
\* tenant holds at most its share and one burst, however often tokens refill.
TenantBounded ==
  \A t \in Tenants, d \in DimSet :
    Used(held, Of(held, t) \cap NotP0(held), d) <= Share[d] + BurstMax
=============================================================================
