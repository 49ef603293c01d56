-------------------------- MODULE QuantitiesProofs --------------------------
(***************************************************************************)
(* Facts about resource lists and their way over the wire, for every size  *)
(* of the wire format's unit.                                              *)
(***************************************************************************)
EXTENDS Quantities, SchedulingProofs

\* Division that rounds down: off by less than the divisor, exact on multiples.
LEMMA RoundedDown ==
    ASSUME NEW n \in Nat
    PROVE  /\ n \div Unit \in Nat
           /\ (n \div Unit) * Unit <= n
           /\ n % Unit = 0 => (n \div Unit) * Unit = n
           /\ n >= Unit => n \div Unit >= 1
           /\ (n * Unit) \div Unit = n
           /\ (n * Unit) % Unit = 0
<1> DEFINE u == Unit
<1>1. u \in Nat /\ u # 0
  BY UnitAssumption
<1> HIDE DEF u
<1>2. n \div u \in Nat /\ (n \div u) * u <= n
  BY <1>1
<1>3. n % u = 0 => (n \div u) * u = n
  BY <1>1
<1>4. n >= u => n \div u >= 1
  BY <1>1
<1>5. (n * u) \div u = n /\ (n * u) % u = 0
  BY <1>1
<1>6. QED
  BY <1>2, <1>3, <1>4, <1>5 DEF u

\* Division that rounds up.
LEMMA RoundedUp ==
    ASSUME NEW n \in Nat
    PROVE  /\ (n + Unit - 1) \div Unit \in Nat
           /\ ((n + Unit - 1) \div Unit) * Unit >= n
           /\ n % Unit = 0 => ((n + Unit - 1) \div Unit) * Unit = n
           /\ (n * Unit + Unit - 1) \div Unit = n
<1> DEFINE u == Unit
<1>1. u \in Nat /\ u # 0
  BY UnitAssumption
<1> HIDE DEF u
<1>2. (n + u - 1) \div u \in Nat /\ ((n + u - 1) \div u) * u >= n
  BY <1>1
<1>3. \A q \in Nat : (q * u + u - 1) \div u = q
  BY <1>1
<1>4. n % u = 0 => ((n + u - 1) \div u) * u = n
  <2> SUFFICES ASSUME n % u = 0 PROVE ((n + u - 1) \div u) * u = n
    OBVIOUS
  <2>1. PICK q \in Nat : q * u = n
    BY <1>1
  <2>2. (q * u + u - 1) \div u = q
    BY <1>3
  <2>3. QED
    BY <2>1, <2>2
<1>5. QED
  BY <1>2, <1>3, <1>4 DEF u

-----------------------------------------------------------------------------
\* What a list amounts to are resources, a pair of resources is a list that
\* amounts to itself, and what is sent of a list are resources.
LEMMA AmountFacts ==
    /\ \A l : IsList(l) => Amount(l) \in Resource /\ Wire(l) \in Resource
    /\ \A r \in Resource : IsList(r) /\ Amount(r) = r /\ DOMAIN r = Kinds
    /\ IsList(Nothing) /\ Amount(Nothing) = NoResource /\ Wire(Nothing) = NoResource
    /\ NoResource \in Resource
<1>1. ASSUME NEW l, IsList(l)
      PROVE  Amount(l) \in Resource /\ Wire(l) \in Resource
  <2>1. Amount(l) \in Resource
    BY <1>1 DEF IsList, Amount, Resource
  <2>2. Amount(l).cpu \in Nat /\ Amount(l).mem \in Nat
    BY <2>1 DEF Resource
  <2> HIDE DEF Amount
  <2>3. QED
    BY <2>1, <2>2, RoundedUp, RoundedDown DEF Wire, Resource
<1>2. ASSUME NEW r \in Resource
      PROVE  IsList(r) /\ Amount(r) = r /\ DOMAIN r = Kinds
  BY DEF Resource, IsList, Amount, Kinds
<1>3. IsList(Nothing) /\ Amount(Nothing) = NoResource
  BY DEF IsList, Nothing, Amount, NoResource, Kinds
<1>4. Wire(Nothing) = NoResource
  <2>1. (0 + Unit - 1) \div Unit = 0 /\ 0 \div Unit = 0
    <3>1. (0 * Unit + Unit - 1) \div Unit = 0 /\ (0 * Unit) \div Unit = 0
      BY RoundedUp, RoundedDown
    <3>2. 0 * Unit = 0
      BY UnitAssumption
    <3>3. QED
      BY <3>1, <3>2
  <2>2. QED
    BY <1>3, <2>1 DEF Wire, NoResource
<1>5. QED
  BY <1>1, <1>2, <1>3, <1>4 DEF NoResource, Resource

\* What comes back from the wire: a multiple of what was sent, which is sent
\* again without a loss.
LEMMA QuantityFacts ==
    ASSUME NEW w \in Resource
    PROVE  /\ Quantity(w) = Times(w, Unit)
           /\ Quantity(w) \in Resource
           /\ IsList(Quantity(w)) /\ Amount(Quantity(w)) = Quantity(w)
           /\ DOMAIN Quantity(w) = Kinds
           /\ Wire(Quantity(w)) = w
<1>1. Quantity(w) = Times(w, Unit)
  BY DEF Quantity, Times
<1>2. w.cpu \in Nat /\ w.mem \in Nat /\ w = [cpu |-> w.cpu, mem |-> w.mem]
  BY DEF Resource
<1>3. w.cpu * Unit \in Nat /\ w.mem * Unit \in Nat
  BY <1>2, UnitAssumption
<1>4. Quantity(w) \in Resource /\ Quantity(w).cpu = w.cpu * Unit /\ Quantity(w).mem = w.mem * Unit
  BY <1>3 DEF Quantity, Resource
<1>5. IsList(Quantity(w)) /\ Amount(Quantity(w)) = Quantity(w) /\ DOMAIN Quantity(w) = Kinds
  BY <1>4, AmountFacts
<1>6. Wire(Quantity(w)) = w
  <2>1. (w.cpu * Unit + Unit - 1) \div Unit = w.cpu /\ (w.mem * Unit) \div Unit = w.mem
    BY <1>2, RoundedUp, RoundedDown
  <2>2. QED
    BY <1>2, <1>4, <1>5, <2>1 DEF Wire
<1>7. QED
  BY <1>1, <1>4, <1>5, <1>6

\* What the way over the wire and back makes of a list: the CPU is rounded up,
\* the memory down, and whole amounts arrive as they were.
LEMMA WireRounds ==
    ASSUME NEW l, IsList(l)
    PROVE  LET a == Amount(l)
               q == Quantity(Wire(l))
           IN  /\ q \in Resource
               /\ a.cpu <= q.cpu /\ q.mem <= a.mem
               /\ a.cpu % Unit = 0 => q.cpu = a.cpu
               /\ a.mem % Unit = 0 => q.mem = a.mem
               /\ a.mem >= Unit => q.mem > 0
               /\ a.cpu % Unit = 0 /\ a.mem % Unit = 0 => q = a
<1> DEFINE a == Amount(l)
           q == Quantity(Wire(l))
<1>1. a \in Resource /\ Wire(l) \in Resource /\ q \in Resource
  BY AmountFacts, QuantityFacts
<1>2. a.cpu \in Nat /\ a.mem \in Nat
  BY <1>1 DEF Resource
<1>3. q.cpu = ((a.cpu + Unit - 1) \div Unit) * Unit /\ q.mem = (a.mem \div Unit) * Unit
  BY DEF Quantity, Wire
<1>4. a = [cpu |-> a.cpu, mem |-> a.mem] /\ q = [cpu |-> q.cpu, mem |-> q.mem]
  BY <1>1 DEF Resource
<1> HIDE DEF a, q
<1>5. a.cpu <= q.cpu /\ q.mem <= a.mem
  BY <1>2, <1>3, RoundedUp, RoundedDown
<1>6. (a.cpu % Unit = 0 => q.cpu = a.cpu) /\ (a.mem % Unit = 0 => q.mem = a.mem)
  BY <1>2, <1>3, RoundedUp, RoundedDown
<1>7. a.mem >= Unit => q.mem > 0
  <2>1. \A x \in Nat : x >= 1 => x * Unit > 0
    BY UnitAssumption
  <2>2. a.mem >= Unit => a.mem \div Unit >= 1 /\ a.mem \div Unit \in Nat
    BY <1>2, RoundedDown
  <2>3. QED
    BY <1>3, <2>1, <2>2
<1>8. a.cpu % Unit = 0 /\ a.mem % Unit = 0 => q = a
  BY <1>4, <1>6
<1>9. QED
  BY <1>1, <1>5, <1>6, <1>7, <1>8 DEF a, q

\* Amounts grow with their unit, and so does the order among them.
LEMMA QuantityOrder ==
    ASSUME NEW v \in Resource, NEW w \in Resource
    PROVE  /\ AtMost(v, w) => AtMost(Quantity(v), Quantity(w))
           /\ Within(Quantity(v), Quantity(w)) <=> Within(v, w)
           /\ Quantity(v) = Quantity(w) => v = w
<1>1. /\ v.cpu \in Nat /\ v.mem \in Nat /\ w.cpu \in Nat /\ w.mem \in Nat
      /\ v = [cpu |-> v.cpu, mem |-> v.mem] /\ w = [cpu |-> w.cpu, mem |-> w.mem]
  BY DEF Resource
<1>2. \A x, y \in Nat : x <= y <=> x * Unit <= y * Unit
  BY UnitAssumption
<1>3. \A x \in Nat : x = 0 <=> x * Unit = 0
  BY UnitAssumption
<1>4. \A x, y \in Nat : x * Unit = y * Unit => x = y
  BY UnitAssumption
<1>5. AtMost(v, w) => AtMost(Quantity(v), Quantity(w))
  BY <1>1, <1>2 DEF AtMost, Quantity
<1>6. Within(Quantity(v), Quantity(w)) <=> Within(v, w)
  <2>1. /\ v.cpu * Unit = 0 <=> v.cpu = 0
        /\ v.mem * Unit = 0 <=> v.mem = 0
        /\ w.cpu * Unit <= v.cpu * Unit <=> w.cpu <= v.cpu
        /\ w.mem * Unit <= v.mem * Unit <=> w.mem <= v.mem
    BY <1>1, <1>2, <1>3
  <2>2. QED
    BY <2>1 DEF Within, Quantity
<1>7. Quantity(v) = Quantity(w) => v = w
  <2> SUFFICES ASSUME Quantity(v) = Quantity(w) PROVE v = w
    OBVIOUS
  <2>1. v.cpu * Unit = w.cpu * Unit /\ v.mem * Unit = w.mem * Unit
    BY DEF Quantity
  <2>2. v.cpu = w.cpu /\ v.mem = w.mem
    BY <1>1, <1>4, <2>1
  <2>3. QED
    BY <1>1, <2>2
<1>8. QED
  BY <1>5, <1>6, <1>7

\* Limits with 50% or 100% on top cover the requests.
LEMMA HeadroomFacts ==
    ASSUME NEW w \in Resource
    PROVE  /\ Headroom(w) \in Resource /\ AtMost(w, Headroom(w))
           /\ Twice(w) \in Resource /\ AtMost(w, Twice(w))
<1>1. w.cpu \in Nat /\ w.mem \in Nat
  BY DEF Resource
<1>2. \A n \in Nat : (3 * n) \div 2 \in Nat /\ n <= (3 * n) \div 2
  OBVIOUS
<1>3. Headroom(w) \in Resource /\ AtMost(w, Headroom(w))
  BY <1>1, <1>2 DEF Headroom, Resource, AtMost
<1>4. QED
  BY <1>3, PlusFacts DEF Twice

\* What the optimizer falls back on.
LEMMA DefaultFacts ==
    /\ DefaultResources \in Resource
    /\ IsRequirement(DefaultRequirement)
    /\ Amount(DefaultRequirement.req) = Quantity(DefaultResources)
    /\ AtMost(DefaultRequirement.req, DefaultRequirement.lim)
<1>1. DefaultResources \in Resource
  BY DEF DefaultResources, Resource
<1>2. Twice(DefaultResources) \in Resource /\ AtMost(DefaultResources, Twice(DefaultResources))
  BY <1>1, HeadroomFacts
<1>3. /\ DefaultRequirement.req = Quantity(DefaultResources)
      /\ DefaultRequirement.lim = Quantity(Twice(DefaultResources))
  BY DEF DefaultRequirement
<1>4. QED
  BY <1>1, <1>2, <1>3, QuantityFacts, QuantityOrder DEF IsRequirement

\* The optimizer's choice is a requirement, if what it chooses from is.
LEMMA ResolveType ==
    ASSUME NEW in, NEW t \in TaskNames, IsRequirement(in.base[t]),
           \A u \in DOMAIN in.pred : IsRequirement(in.pred[u])
    PROVE  IsRequirement(GoResolve(in, t))
BY DefaultFacts DEF GoResolve
=============================================================================
