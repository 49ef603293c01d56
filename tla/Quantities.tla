----------------------------- MODULE Quantities -----------------------------
(***************************************************************************)
(* Resource lists as the Go code holds them and as they travel over gRPC.  *)
(* A Quantity is finer than the wire format: here it counts in fractions,  *)
(* Unit of them to a milli-CPU or a MiB, and the clients under             *)
(* src/internal/grpcclient convert both ways.                              *)
(***************************************************************************)
EXTENDS Scheduling

CONSTANTS
    Unit        \* fractions of a Quantity in one milli-CPU, and in one MiB

ASSUME UnitAssumption == Unit \in Nat \ {0}

Kinds == {"cpu", "mem"}

\* corev1.ResourceList: a map, whose absent keys read as zero.
IsList(l) == DOMAIN l \subseteq Kinds /\ \A k \in DOMAIN l : l[k] \in Nat

Nothing == [k \in {} |-> 0]

Amount(l) == [cpu |-> IF "cpu" \in DOMAIN l THEN l["cpu"] ELSE 0,
              mem |-> IF "mem" \in DOMAIN l THEN l["mem"] ELSE 0]

\* corev1.ResourceRequirements.
IsRequirement(r) == IsList(r.req) /\ IsList(r.lim)

Unset == [req |-> Nothing, lim |-> Nothing]

-----------------------------------------------------------------------------
(***************************************************************************)
(* The wire format: whole milli-CPUs and MiB.                              *)
(***************************************************************************)

\* Quantity.MilliValue rounds up; the division by 1024 * 1024 rounds down.
Wire(l) == [cpu |-> (Amount(l).cpu + Unit - 1) \div Unit,
            mem |-> Amount(l).mem \div Unit]

\* resource.MustParse of "%dm" and "%dMi": always a list with both keys.
Quantity(w) == [cpu |-> w.cpu * Unit, mem |-> w.mem * Unit]

\* int64(x * 1.5), on requests that came over the wire.
Headroom(w) == [cpu |-> (3 * w.cpu) \div 2, mem |-> (3 * w.mem) \div 2]

Twice(w) == Plus(w, w)

-----------------------------------------------------------------------------
DefaultRequirement ==
    [req |-> Quantity(DefaultResources), lim |-> Quantity(Twice(DefaultResources))]

\* resolveResources of greedy.go.
GoResolve(in, t) ==
    IF t \in DOMAIN in.pred THEN in.pred[t]
    ELSE IF in.base[t] # Unset THEN in.base[t]
    ELSE DefaultRequirement
=============================================================================
