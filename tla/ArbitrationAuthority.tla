------------------------- MODULE ArbitrationAuthority -------------------------
(* The Arbitration Authority (core/arbitration_authority): which of the       *)
(* requests for a resource is served, by the sum of its policies' scores, and *)
(* how long each has waited. A round is synchronous, so it is one step, which *)
(* an event handler or a provider that throws may end at any of its stages.   *)
EXTENDS Integers, Sequences, FiniteSets

CONSTANTS
  Requests,        \* request ids, as numbers in their lexicographic order
  ResourceOf,      \* request -> its contested resource key
  OwnerOf,         \* request -> its owner
  Claim,           \* request -> [priority, exclusive, reserved, emergency]
  Tick,            \* seconds between two instants of the clock
  Threshold,       \* instants after which a request starves
  None,
  MaxNow, MaxGrants   \* bounds of the model

VARIABLES
  now,             \* the injected clock
  firstSeen,       \* StarvationDetector.firstSeen: request -> instant, or None
  grants,          \* grantsByResourceOwner: <<resource, owner>> -> number
  round,           \* the last record of ArbitrationRegistry: [eligible, stage, winner]
  asking           \* history: request -> since when it asks without having been served, or None

vars == <<now, firstSeen, grants, round, asking>>

Resources == {ResourceOf[r] : r \in Requests}
Owners == {OwnerOf[r] : r \in Requests}

ArbitrationAssumption ==
  /\ Requests \subseteq Nat /\ IsFiniteSet(Requests) /\ None \notin Nat
  /\ Tick \in Nat \ {0} /\ Threshold \in Nat /\ MaxNow \in Nat /\ MaxGrants \in Nat
  /\ \A r \in Requests : /\ Claim[r].priority \in Int
                         /\ {Claim[r].exclusive, Claim[r].reserved, Claim[r].emergency} \subseteq BOOLEAN

\* What is on record of a round; nothing reads the rounds before it.
Entry(eligible, stage, winner) == [eligible |-> eligible, stage |-> stage, winner |-> winner]

Init ==
  /\ now = 0
  /\ firstSeen = [r \in Requests |-> None]
  /\ grants = [k \in Resources \X Owners |-> 0]
  /\ round = Entry({}, "history-archived", None)
  /\ asking = [r \in Requests |-> None]

-----------------------------------------------------------------------------
(* Starvation. *)

\* Withdrawn requests are never forgotten: one whose id comes back goes on waiting.
Observed(competing) == [r \in Requests |-> IF r \in competing /\ firstSeen[r] = None THEN now ELSE firstSeen[r]]
Since(competing, r) == IF r \in competing /\ asking[r] = None THEN now ELSE asking[r]

Wait(seen, r) == now - seen[r]
Starved(seen, r) == Wait(seen, r) >= Threshold

Granted(r) == grants[<<ResourceOf[r], OwnerOf[r]>>]

\* Mutant: whoever took part starts anew.
MutRecorded(seen, competing, winner) ==
  /\ firstSeen' = [r \in Requests |-> IF winner # None /\ r \in competing THEN None ELSE seen[r]]
  /\ grants' = IF winner = None THEN grants ELSE [grants EXCEPT ![<<ResourceOf[winner], OwnerOf[winner]>>] = @ + 1]

Recorded(seen, competing, winner) ==
  /\ firstSeen' = [r \in Requests |-> IF r = winner THEN None ELSE seen[r]]
  /\ grants' = IF winner = None THEN grants ELSE [grants EXCEPT ![<<ResourceOf[winner], OwnerOf[winner]>>] = @ + 1]

-----------------------------------------------------------------------------
(* The policies' scores. *)

FirstComeFirstServed(seen, r) == Tick * Wait(seen, r)
PriorityBased(r) == 100 * Claim[r].priority
\* Mutant: relief ends where it should begin.
MutFairShare(seen, r) == Tick * Wait(seen, r) + (IF Starved(seen, r) THEN 0 ELSE 100000) - 100 * Granted(r)
FairShare(seen, r) == Tick * Wait(seen, r) + (IF Starved(seen, r) THEN 100000 ELSE 0) - 100 * Granted(r)
ReservationFirst(r) == IF Claim[r].reserved THEN 10000 ELSE 0
ExclusiveAccess(r) == IF Claim[r].exclusive THEN 20 ELSE 0
SharedAllocation(r) == IF Claim[r].exclusive THEN 0 ELSE 10
EmergencyOverride(r) == IF Claim[r].emergency THEN 1000000 ELSE 0

Total(seen, r) == FirstComeFirstServed(seen, r) + PriorityBased(r) + FairShare(seen, r) + ReservationFirst(r)
                  + ExclusiveAccess(r) + SharedAllocation(r) + EmergencyOverride(r)

Beats(seen, r, s) == Total(seen, r) > Total(seen, s) \/ (Total(seen, r) = Total(seen, s) /\ r < s)
SelectWinner(seen, eligible) ==
  IF eligible = {} THEN None ELSE CHOOSE r \in eligible : \A s \in eligible \ {r} : Beats(seen, r, s)

-----------------------------------------------------------------------------
(* Rounds. *)

Contested(competing) == competing # {} /\ Cardinality({ResourceOf[r] : r \in competing}) = 1

\* The providers, an exclusive allocation and the capacity that is left say which are eligible.
ArbitrateGroup(competing, eligible) ==
  LET seen == Observed(competing)  winner == SelectWinner(seen, eligible) IN
  /\ Contested(competing) /\ \A k \in DOMAIN grants : grants[k] < MaxGrants
  /\ round' = Entry(eligible, "history-archived", winner)
  /\ Recorded(seen, competing, winner)
  /\ asking' = [r \in Requests |-> IF r = winner THEN None ELSE Since(competing, r)]
  /\ UNCHANGED now

\* A handler of an event, or a provider, throws before there is a decision: the requests count as seen.
FailsEarly(competing, stage) ==
  /\ Contested(competing)
  /\ stage = "contention-detected" => Cardinality(competing) > 1
  /\ round' = Entry({}, stage, None)
  /\ firstSeen' = Observed(competing)
  /\ asking' = [r \in Requests |-> Since(competing, r)]
  /\ UNCHANGED <<now, grants>>

\* A handler throws once the decision is published: it stands, but is not counted, and the winner
\* goes on waiting.
FailsLate(competing, eligible) ==
  LET seen == Observed(competing) IN
  /\ Contested(competing)
  /\ round' = Entry(eligible, "decision-published", SelectWinner(seen, eligible))
  /\ firstSeen' = seen
  /\ asking' = [r \in Requests |-> Since(competing, r)]
  /\ UNCHANGED <<now, grants>>

TimePasses == now < MaxNow /\ now' = now + 1 /\ UNCHANGED <<firstSeen, grants, round, asking>>

Next ==
  \/ \E competing \in SUBSET Requests :
       \/ \E stage \in {"request-received", "contention-detected", "policy-evaluation"} : FailsEarly(competing, stage)
       \/ \E eligible \in SUBSET competing : ArbitrateGroup(competing, eligible) \/ FailsLate(competing, eligible)
  \/ TimePasses

Spec == Init /\ [][Next]_vars

-----------------------------------------------------------------------------
(* Properties. *)

Equals(r, s) == Claim[r] = Claim[s] /\ ResourceOf[r] = ResourceOf[s]

\* The round just held decided for w and against r, which could have been served.
PassedOver(r, w) == round'.winner = w /\ r \in round'.eligible \ {w}
Asked(r) == Since(round'.eligible, r)

\* No request is passed over for its equal that asked later, unless its owner has been granted more,
\* whatever was served, failed or withdrawn before.
NoneJumps ==
  \A r, w \in Requests :
    PassedOver(r, w) /\ Equals(r, w) /\ Granted(r) <= Granted(w) => Asked(w) <= Asked(r)

\* A request that starves is only passed over for an emergency or for another that starves, as
\* long as no reservation, priority or number of grants outweighs the relief.
RelievedFirst ==
  \A r, w \in Requests :
    PassedOver(r, w) /\ now - Asked(r) >= Threshold => Claim[w].emergency \/ now - Asked(w) >= Threshold

FairTurns == [][TimePasses \/ (NoneJumps /\ RelievedFirst)]_vars
=============================================================================
