----------------------------- MODULE MCRuntime -----------------------------
(***************************************************************************)
(* Small instances of the parts of platform-runtime.  They share no state: *)
(* a behaviour is one of the part it has chosen, the others stand still.   *)
(* The job queue has two instances: with workers that may outlast their    *)
(* leases ("jobs"), and with workers that keep them alive ("punctual").    *)
(* Of the two readers of the outbox one has handlers that never time out.  *)
(***************************************************************************)
EXTENDS JobQueue, OutboxRelay, CapacityGate, CircuitBreaker

CONSTANTS nest, cut, parse, floor, any, forge, receipt, shop, web

VARIABLE part

parts == {"jobs", "punctual", "relay", "gate", "breaker"}
allVars == <<part, vars, relayVars, gateVars, breakerVars>>

MCJobType == [j \in Jobs |-> IF j = parse THEN receipt ELSE forge]
MCPriority == [j \in Jobs |-> IF j = cut THEN 1 ELSE 0]
MCServes == [w \in Workers |-> IF w = any THEN {forge, receipt} ELSE {forge}]

MCReaders == <<"floor", "audit">>
MCWanted == [r \in {"floor", "audit"} |-> IF r = "floor" THEN 1 .. MaxEntries ELSE 2 .. MaxEntries]

Amounts(c, m) == [d \in {"compute", "model"} |-> IF d = "compute" THEN c ELSE m]
Asks(class, tenant, dims, demand, spend) ==
  [class |-> class, tenant |-> tenant, dims |-> dims, demand |-> demand, spend |-> spend]
MCTotal == Amounts(4, 2)
MCReserve == Amounts(1, 1)
MCShare == Amounts(1, 1)
Both == <<"compute", "model">>
MCWorks == {Asks(0, NoTenant, Both, Amounts(1, 1), 0),
            Asks(0, shop, <<"compute">>, Amounts(2, 0), 1),
            Asks(1, shop, <<"model", "compute">>, Amounts(1, 1), 0),
            Asks(2, shop, <<"compute">>, Amounts(1, 0), 0),
            Asks(3, web, <<"compute">>, Amounts(2, 0), 1),
            Asks(4, web, Both, Amounts(1, 1), 1)}

Punctual == INSTANCE JobQueue WITH SlowWorkers <- FALSE, Backoffs <- {1}

-----------------------------------------------------------------------------

RuntimeInit ==
  /\ part \in parts
  /\ Init /\ RelayInit /\ GateInit /\ BreakerInit

\* The steps of one part, with the others standing still.
OfJobs(name, A) == part = name /\ A /\ UNCHANGED <<part, relayVars, gateVars, breakerVars>>
OfRelay(A) == part = "relay" /\ A /\ UNCHANGED <<part, vars, gateVars, breakerVars>>
OfGate(A) == part = "gate" /\ A /\ UNCHANGED <<part, vars, relayVars, breakerVars>>
OfBreaker(A) == part = "breaker" /\ A /\ UNCHANGED <<part, vars, relayVars, gateVars>>

RuntimeNext ==
  \/ OfJobs("jobs", Next /\ jobs'[cut].status = "absent")
  \/ OfJobs("punctual", Punctual!Next /\ jobs'[parse].status = "absent")
  \/ OfRelay(RelayNext /\ \A z \in zombies' : z[1] = "floor")
  \/ OfGate(GateNext)
  \/ OfBreaker(BreakerNext)

\* Workers poll and report, callers drain, a drain under way goes on, callers
\* call, some of their calls succeed when they can, and time passes.  The parts
\* exclude each other, so that one conjunct states the fairness of several.
RuntimeFairness ==
  /\ \A w \in Workers :
       /\ WF_allVars(\/ OfJobs("punctual", Punctual!Claim(w) \/ Punctual!ClaimNothing(w))
                     \/ OfRelay(StartDrain(w)))
       /\ WF_allVars(\/ OfJobs("punctual", Punctual!Report(w))
                     \/ OfRelay(DrainStep(w)))
  /\ WF_allVars(OfJobs("punctual", Punctual!Tick) \/ OfBreaker(OpenTick))
  /\ WF_allVars(OfBreaker(\E c \in Calls : Begin(c) \/ Probe(c)))
  /\ SF_allVars(OfBreaker(\E c \in Calls : Succeed(c)))

RuntimeSpec == RuntimeInit /\ [][RuntimeNext]_allVars /\ RuntimeFairness

-----------------------------------------------------------------------------

\* Each part's variables have their types, the claims and counters that drive
\* its loops within their bounds.
RuntimeTypes == TypeOK /\ RelayTypeOK /\ GateTypeOK /\ BreakerTypeOK

\* Every job a punctual worker may claim is completed or failed in the end,
\* although workers crash with jobs in their hands.
PunctualJobsSettle == part = "punctual" => EveryJobSettles
=============================================================================
