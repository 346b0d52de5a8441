--------------------------------- MODULE Sums ---------------------------------
(***************************************************************************)
(* Facts about finite sets and about sums over them (SumFunctionOnSet, a   *)
(* fold), as formulas: the lemmas about the models have them as            *)
(* hypotheses, and SumProofs proves them.                                  *)
(***************************************************************************)
EXTENDS Integers, FiniteSets, Functions

\* f1 over S1 extends f over S, whose indices are at most n, by index n + 1.
Appended(f, S, f1, S1, n) ==
    /\ S \subseteq 1 .. n /\ S1 \subseteq 1 .. n + 1
    /\ \A i \in 1 .. n : (i \in S1 <=> i \in S) /\ (i \in S => f1[i] = f[i] /\ f[i] \in Int)
    /\ n + 1 \in S1 => f1[n + 1] \in Int

\* f1 over S1 is f over S without index 1, the others moved down by one.
Tailed(f, S, f1, S1, n) ==
    /\ S \subseteq 1 .. n /\ S1 \subseteq 1 .. n - 1
    /\ \A i \in 1 .. n - 1 : (i \in S1 <=> i + 1 \in S) /\ (i \in S1 => f1[i] = f[i + 1])
    /\ \A i \in S : f[i] \in Int

\* f1 over S1 and f over S are the same but for x.
Differs(f, S, f1, S1, x) ==
    /\ IsFiniteSet(S) /\ IsFiniteSet(S1)
    /\ \A y \in S : f[y] \in Int
    /\ \A y \in S1 : f1[y] \in Int
    /\ \A y : y # x => (y \in S1 <=> y \in S) /\ (y \in S => f1[y] = f[y])

Naturals(f, S) == IsFiniteSet(S) /\ \A y \in S : f[y] \in Nat

-----------------------------------------------------------------------------
SumOfNone == \A f : SumFunctionOnSet(f, {}) = 0

SumOfOne == \A f, x : f[x] \in Int => SumFunctionOnSet(f, {x}) = f[x]

SumAppends ==
    \A n \in Nat : \A f, S, f1, S1 : Appended(f, S, f1, S1, n) =>
       /\ SumFunctionOnSet(f1, S1) = SumFunctionOnSet(f, S) + (IF n + 1 \in S1 THEN f1[n + 1] ELSE 0)
       /\ SumFunctionOnSet(f, S) \in Int

SumTails ==
    \A n \in Nat \ {0} : \A f, S, f1, S1 : Tailed(f, S, f1, S1, n) =>
       /\ SumFunctionOnSet(f, S) = SumFunctionOnSet(f1, S1) + (IF 1 \in S THEN f[1] ELSE 0)
       /\ SumFunctionOnSet(f1, S1) \in Int

SumDiffers ==
    \A f, S, f1, S1, x : Differs(f, S, f1, S1, x) =>
       /\ SumFunctionOnSet(f1, S1) - (IF x \in S1 THEN f1[x] ELSE 0)
             = SumFunctionOnSet(f, S) - (IF x \in S THEN f[x] ELSE 0)
       /\ SumFunctionOnSet(f, S) \in Int /\ SumFunctionOnSet(f1, S1) \in Int

SumOfNaturals ==
    \A f, S : Naturals(f, S) =>
       /\ SumFunctionOnSet(f, S) \in Nat
       /\ \A x \in S : f[x] =< SumFunctionOnSet(f, S)
       /\ \A m \in Nat : (\A x \in S : f[x] =< m) => SumFunctionOnSet(f, S) =< Cardinality(S) * m

FiniteSetFacts ==
    /\ IsFiniteSet({}) /\ Cardinality({}) = 0
    /\ \A S : IsFiniteSet(S) => Cardinality(S) \in Nat
    /\ \A S, T : IsFiniteSet(S) /\ T \subseteq S => IsFiniteSet(T) /\ Cardinality(T) =< Cardinality(S)
    /\ \A S, x : IsFiniteSet(S) => /\ IsFiniteSet(S \cup {x})
                                   /\ x \notin S => Cardinality(S \cup {x}) = Cardinality(S) + 1
    /\ \A S, x : IsFiniteSet(S) => /\ IsFiniteSet(S \ {x})
                                   /\ x \in S => Cardinality(S \ {x}) = Cardinality(S) - 1

SumFacts == SumOfNone /\ SumOfOne /\ SumAppends /\ SumTails /\ SumDiffers /\ SumOfNaturals
============================================================================
