---------------------------- MODULE BootstrapProofs ---------------------------
(***************************************************************************)
(* What a bootstrap says and leaves behind, for every number of attempts,  *)
(* every host, recipe, package manager and set of catalog packages, every  *)
(* interleaving with agents that earlier attempts left running, and every  *)
(* number of faults.  Three inductive invariants, each on top of the last: *)
(* who does what (ControlInv), what the command has heard (ReportInv) and  *)
(* how far an attempt that nothing disturbed has come (CleanInv).          *)
(***************************************************************************)
EXTENDS Bootstrap, FiniteSetTheorems, SequenceTheorems, WellFoundedInduction, TLAPS

-----------------------------------------------------------------------------
(* Sequences of steps in the order of a plan.                              *)

StepNames == {"packages-repair", "packages-refresh", "packages-install", "pwntools-venv", "pwntools-base", "pip-extra",
              "pip-check", "pwntools-verify", "pwndbg-install", "docker-enable", "docker-service", "docker-group"}

\* The place of a step in every plan.
Rank(step) ==
  CASE step = "packages-repair" -> 1
    [] step = "packages-refresh" -> 2
    [] step = "packages-install" -> 3
    [] step = "pwntools-venv" -> 4
    [] step = "pwntools-base" -> 5
    [] step = "pip-extra" -> 6
    [] step = "pip-check" -> 7
    [] step = "pwntools-verify" -> 8
    [] step = "pwndbg-install" -> 9
    [] step = "docker-enable" -> 10
    [] step = "docker-service" -> 11
    [] step = "docker-group" -> 12
    [] OTHER -> 0

Rising(s) == \A i, j \in 1..Len(s) : i < j => Rank(s[i]) < Rank(s[j])
Within(s, low, high) == s \in Seq(StepNames) /\ Rising(s) /\ \A i \in 1..Len(s) : low <= Rank(s[i]) /\ Rank(s[i]) <= high

LEMMA RankTyped == \A s \in StepNames : Rank(s) \in 1..12 /\ Rank(s) \in Int
  BY DEF StepNames, Rank

\* Two steps have two places.
LEMMA RankApart == \A s, t \in StepNames : Rank(s) = Rank(t) => s = t
<1> DEFINE name == [r \in 1..12 |->
      CASE r = 1 -> "packages-repair" [] r = 2 -> "packages-refresh" [] r = 3 -> "packages-install" [] r = 4 -> "pwntools-venv"
        [] r = 5 -> "pwntools-base" [] r = 6 -> "pip-extra" [] r = 7 -> "pip-check" [] r = 8 -> "pwntools-verify"
        [] r = 9 -> "pwndbg-install" [] r = 10 -> "docker-enable" [] r = 11 -> "docker-service" [] OTHER -> "docker-group"]
<1>1. \A s \in StepNames : name[Rank(s)] = s BY SMTT(60) DEF StepNames, Rank
<1> HIDE DEF name
<1> QED BY <1>1

LEMMA EmptyWithin == \A low, high : Within(<<>>, low, high)
  BY DEF Within, Rising

LEMMA ToSetFacts == ASSUME NEW S, NEW s \in Seq(S) PROVE ToSet(s) = {s[i] : i \in 1..Len(s)} /\ ToSet(s) \subseteq S
  BY DEF ToSet

LEMMA InSet == ASSUME NEW S, NEW s \in Seq(S), NEW i \in 1..Len(s) PROVE s[i] \in ToSet(s)
  BY ToSetFacts

LEMMA OfSet == ASSUME NEW S, NEW s \in Seq(S), NEW e \in ToSet(s) PROVE \E i \in 1..Len(s) : e = s[i]
  BY ToSetFacts

LEMMA EmptySet == ToSet(<<>>) = {}
  BY DEF ToSet

LEMMA Joined ==
  ASSUME NEW a \in Int, NEW b \in Int, NEW c \in Int, NEW d \in Int, a <= b, b < c, c <= d,
         NEW s, NEW t, Within(s, a, b), Within(t, c, d)
  PROVE  Within(s \o t, a, d) /\ ToSet(s \o t) = ToSet(s) \cup ToSet(t)
<1> DEFINE u == s \o t
<1>1. s \in Seq(StepNames) /\ t \in Seq(StepNames) /\ Len(s) \in Nat /\ Len(t) \in Nat BY DEF Within
<1>2. /\ u \in Seq(StepNames) /\ Len(u) = Len(s) + Len(t)
      /\ \A i \in 1..Len(u) : u[i] = IF i <= Len(s) THEN s[i] ELSE t[i - Len(s)]
  BY <1>1, ConcatProperties
<1> HIDE DEF u
<1>3. \A i \in 1..Len(u) : Rank(u[i]) \in Int BY <1>2, RankTyped, ElementOfSeq
<1>4. ASSUME NEW i \in 1..Len(u) PROVE a <= Rank(u[i]) /\ Rank(u[i]) <= d /\ (i <= Len(s) => Rank(u[i]) <= b) /\ (i > Len(s) => c <= Rank(u[i]))
  <2>1. CASE i <= Len(s)
    <3>1. i \in 1..Len(s) /\ u[i] = s[i] BY <1>1, <1>2, <2>1
    <3>2. a <= Rank(u[i]) /\ Rank(u[i]) <= b BY <3>1 DEF Within
    <3> QED BY <1>3, <2>1, <3>2
  <2>2. CASE i > Len(s)
    <3>1. i - Len(s) \in 1..Len(t) /\ u[i] = t[i - Len(s)] BY <1>1, <1>2, <2>2
    <3>2. c <= Rank(u[i]) /\ Rank(u[i]) <= d BY <3>1 DEF Within
    <3> QED BY <1>3, <2>2, <3>2
  <2> QED BY <1>1, <1>2, <2>1, <2>2
<1>5. ASSUME NEW i \in 1..Len(u), NEW j \in 1..Len(u), i < j PROVE Rank(u[i]) < Rank(u[j])
  <2>1. CASE j <= Len(s)
    <3>1. i \in 1..Len(s) /\ j \in 1..Len(s) /\ u[i] = s[i] /\ u[j] = s[j] BY <1>1, <1>2, <1>5, <2>1
    <3> QED BY <1>5, <3>1 DEF Within, Rising
  <2>2. CASE i > Len(s)
    <3>1. i - Len(s) \in 1..Len(t) /\ j - Len(s) \in 1..Len(t) /\ i - Len(s) < j - Len(s)
          /\ u[i] = t[i - Len(s)] /\ u[j] = t[j - Len(s)]
      BY <1>1, <1>2, <1>5, <2>2
    <3> QED BY <3>1 DEF Within, Rising
  <2>3. CASE i <= Len(s) /\ j > Len(s) BY <1>3, <1>4, <2>3
  <2> QED BY <1>1, <1>2, <2>1, <2>2, <2>3
<1>6. Within(u, a, d) BY <1>2, <1>4, <1>5 DEF Within, Rising
<1>7. ToSet(u) = ToSet(s) \cup ToSet(t)
  <2>1. ToSet(s) \cup ToSet(t) \subseteq ToSet(u)
    <3>1. ASSUME NEW i \in 1..Len(s) PROVE s[i] \in ToSet(u)
      <4>1. i \in 1..Len(u) /\ u[i] = s[i] BY <1>1, <1>2
      <4> QED BY <1>2, <4>1, ToSetFacts
    <3>2. ASSUME NEW i \in 1..Len(t) PROVE t[i] \in ToSet(u)
      <4> PICK k \in Int : k = i + Len(s) BY <1>1
      <4>1. k \in 1..Len(u) /\ ~(k <= Len(s)) /\ k - Len(s) = i BY <1>1, <1>2
      <4>2. u[k] = t[i] BY <1>2, <4>1
      <4>3. u[k] \in ToSet(u) BY <1>2, <4>1, InSet
      <4> QED BY <4>2, <4>3
    <3> QED BY <1>1, <3>1, <3>2, ToSetFacts
  <2>2. ToSet(u) \subseteq ToSet(s) \cup ToSet(t)
    <3>1. ASSUME NEW i \in 1..Len(u) PROVE u[i] \in ToSet(s) \cup ToSet(t)
      <4>1. CASE i <= Len(s)
        <5>1. i \in 1..Len(s) /\ u[i] = s[i] BY <1>1, <1>2, <4>1
        <5> QED BY <1>1, <5>1, ToSetFacts
      <4>2. CASE i > Len(s)
        <5>1. i - Len(s) \in 1..Len(t) /\ u[i] = t[i - Len(s)] BY <1>1, <1>2, <4>2
        <5> QED BY <1>1, <5>1, ToSetFacts
      <4> QED BY <1>1, <1>2, <4>1, <4>2
    <3> QED BY <1>2, <3>1, ToSetFacts
  <2> QED BY <2>1, <2>2
<1> QED BY <1>6, <1>7 DEF u

\* Induction, for a set: what holds of a number holds of the next.
LEMMA NatSetInduction == ASSUME NEW T, 0 \in T, \A n \in Nat : n \in T => n + 1 \in T PROVE \A n \in Nat : n \in T
<1> DEFINE U == {n \in Nat : n \notin T}
<1>1. SUFFICES ASSUME U # {} PROVE FALSE OBVIOUS
<1>2. PICK x \in U : \A y \in U : ~ (<<y, x>> \in OpToRel(<, Nat)) BY <1>1, NatLessThanWellFounded, WFMin
<1>3. \A y \in U : ~(y < x) BY <1>2 DEF OpToRel
<1>4. x # 0 /\ x - 1 \in Nat /\ x - 1 < x OBVIOUS
<1>5. x - 1 \in T BY <1>3, <1>4
<1> QED BY <1>4, <1>5

\* The loop of filterUserSteps after n rounds.
Rounds(g, n, s, manager) ==
  g = [i \in 0..n |-> IF i = 0 THEN <<>>
                      ELSE IF Sudo(s[i], manager) THEN g[i - 1] ELSE Append(g[i - 1], s[i])]

LEMMA RoundsExist == ASSUME NEW s, NEW manager PROVE \A n \in Nat : \E g : Rounds(g, n, s, manager)
<1> DEFINE T == {n \in Nat : \E g : Rounds(g, n, s, manager)}
<1>1. 0 \in T
  <2>1. Rounds([i \in 0..0 |-> <<>>], 0, s, manager) BY DEF Rounds
  <2> QED BY <2>1
<1>2. ASSUME NEW n \in Nat, n \in T PROVE n + 1 \in T
  <2>1. PICK g : Rounds(g, n, s, manager) BY <1>2
  <2> PICK m \in Nat : m = n + 1 OBVIOUS
  <2> DEFINE last == IF Sudo(s[m], manager) THEN g[n] ELSE Append(g[n], s[m])
             h == [i \in 0..m |-> IF i = m THEN last ELSE g[i]]
             step(i) == IF i = 0 THEN <<>> ELSE IF Sudo(s[i], manager) THEN h[i - 1] ELSE Append(h[i - 1], s[i])
  <2>2. ASSUME NEW i \in 0..m PROVE h[i] = step(i)
    <3>1. CASE i = m
      <4>1. h[i] = last /\ i # 0 /\ i - 1 = n /\ n \in 0..m /\ n # m BY <3>1
      <4>2. h[n] = g[n] BY <4>1
      <4> HIDE DEF h
      <4> QED BY <3>1, <4>1, <4>2
    <3>2. CASE i # m
      <4>1. i \in 0..n /\ h[i] = g[i] BY <3>2
      <4>2. g[i] = IF i = 0 THEN <<>> ELSE IF Sudo(s[i], manager) THEN g[i - 1] ELSE Append(g[i - 1], s[i])
        BY <2>1, <4>1 DEF Rounds
      <4>3. i # 0 => i - 1 \in 0..m /\ i - 1 # m BY <4>1
      <4>4. i # 0 => h[i - 1] = g[i - 1] BY <4>3
      <4> HIDE DEF h
      <4> QED BY <4>1, <4>2, <4>4
    <3> QED BY <3>1, <3>2
  <2>3. h = [i \in 0..m |-> h[i]] OBVIOUS
  <2>4. Rounds(h, m, s, manager)
    <3> HIDE DEF h
    <3> QED BY <2>2, <2>3 DEF Rounds
  <2> QED BY <2>4
<1> HIDE DEF T
<1>3. \A n \in Nat : n \in T BY <1>1, <1>2, NatSetInduction
<1> QED BY <1>3 DEF T

\* What is left of the first n steps: those without sudo, in their order.
LEMMA RoundsKeep ==
  ASSUME NEW s \in Seq(StepNames), NEW manager, NEW low \in Int, NEW high \in Int, Within(s, low, high),
         NEW g, Rounds(g, Len(s), s, manager)
  PROVE  /\ Within(g[Len(s)], low, high)
         /\ ToSet(g[Len(s)]) = {t \in ToSet(s) : ~Sudo(t, manager)}
<1>0. Len(s) \in Nat OBVIOUS
<1> DEFINE kept(n) == {s[i] : i \in {j \in 1..n : ~Sudo(s[j], manager)}}
           Good(n) == /\ g[n] \in Seq(StepNames) /\ ToSet(g[n]) = kept(n) /\ Rising(g[n])
           T == {n \in Nat : n <= Len(s) => Good(n)}
<1>1. 0 \in T
  <2>0. 0 \in 0..Len(s) BY <1>0
  <2>1. g[0] = <<>> BY <2>0 DEF Rounds
  <2>4. kept(0) = {} OBVIOUS
  <2>2. ToSet(g[0]) = kept(0) BY <2>1, <2>4, EmptySet
  <2>3. Rising(g[0]) /\ g[0] \in Seq(StepNames) BY <2>1 DEF Rising
  <2> QED BY <2>2, <2>3
<1>2. ASSUME NEW n \in Nat, n \in T PROVE n + 1 \in T
  <2> PICK m \in Nat : m = n + 1 OBVIOUS
  <2> SUFFICES ASSUME m <= Len(s) PROVE Good(m) OBVIOUS
  <2>1. n <= Len(s) /\ m \in 1..Len(s) /\ m - 1 = n /\ m # 0 /\ s[m] \in StepNames BY <1>0
  <2>2. Good(n) BY <1>2, <2>1
  <2>m. m \in 0..Len(s) BY <2>1
  <2>3. g[m] = IF Sudo(s[m], manager) THEN g[n] ELSE Append(g[n], s[m])
    <3>1. g[m] = IF m = 0 THEN <<>> ELSE IF Sudo(s[m], manager) THEN g[m - 1] ELSE Append(g[m - 1], s[m])
      BY <2>m DEF Rounds
    <3> QED BY <2>1, <3>1
  <2>4. kept(m) = IF Sudo(s[m], manager) THEN kept(n) ELSE kept(n) \cup {s[m]}
    <3>1. \A j \in 1..m : j \in 1..n \/ j = m OBVIOUS
    <3>2. \A j \in 1..n : j \in 1..m OBVIOUS
    <3>3. m \in 1..m OBVIOUS
    <3> QED BY <3>1, <3>2, <3>3
  <2>5. CASE Sudo(s[m], manager) BY <2>2, <2>3, <2>4, <2>5
  <2>6. CASE ~Sudo(s[m], manager)
    <3> PICK f \in Seq(StepNames) : f = g[n] BY <2>2
    <3> DEFINE h == Append(f, s[m])
    <3>1. g[m] = h BY <2>3, <2>6
    <3>2. h \in Seq(StepNames) /\ Len(f) \in Nat /\ Len(h) = Len(f) + 1 /\ h[Len(f) + 1] = s[m]
          /\ \A i \in 1..Len(f) : h[i] = f[i]
      BY <2>1
    <3> HIDE DEF h
    <3>3. ToSet(h) = ToSet(f) \cup {s[m]}
      <4>1. \A i \in 1..Len(h) : i \in 1..Len(f) \/ i = Len(f) + 1 BY <3>2
      <4>2. ASSUME NEW e \in ToSet(h) PROVE e \in ToSet(f) \cup {s[m]}
        <5>1. PICK i \in 1..Len(h) : e = h[i] BY <3>2, OfSet
        <5>2. CASE i \in 1..Len(f) BY <3>2, <5>1, <5>2, InSet
        <5> QED BY <3>2, <4>1, <5>1, <5>2
      <4>3. \A i \in 1..Len(f) : i \in 1..Len(h) BY <3>2
      <4>4. Len(f) + 1 \in 1..Len(h) BY <3>2
      <4>5. ASSUME NEW e \in ToSet(f) PROVE e \in ToSet(h)
        <5>1. PICK i \in 1..Len(f) : e = f[i] BY OfSet
        <5>2. i \in 1..Len(h) /\ h[i] = e BY <3>2, <4>3, <5>1
        <5> QED BY <3>2, <5>2, InSet
      <4>6. s[m] \in ToSet(h) BY <3>2, <4>4, InSet
      <4> QED BY <4>2, <4>5, <4>6
    <3>4. \A i \in 1..Len(f) : Rank(f[i]) < Rank(s[m])
      <4>1. ASSUME NEW i \in 1..Len(f) PROVE Rank(f[i]) < Rank(s[m])
        <5>1. f[i] \in ToSet(f) /\ ToSet(f) = kept(n)
          <6>1. f[i] \in ToSet(f) BY InSet
          <6> QED BY <2>2, <6>1
        <5>2. PICK j \in 1..n : f[i] = s[j] BY <5>1
        <5>3. j \in 1..Len(s) /\ j < m BY <2>1
        <5> QED BY <2>1, <5>2, <5>3 DEF Within, Rising
      <4> QED BY <4>1
    <3>5. Rising(h)
      <4>1. ASSUME NEW i \in 1..Len(h), NEW j \in 1..Len(h), i < j PROVE Rank(h[i]) < Rank(h[j])
        <5>1. i \in 1..Len(f) /\ h[i] = f[i] BY SMTT(60), <3>2, <4>1
        <5>2. CASE j \in 1..Len(f) BY <2>2, <3>2, <4>1, <5>1, <5>2 DEF Rising
        <5>3. CASE j = Len(f) + 1 BY <3>2, <3>4, <5>1, <5>3
        <5> QED BY <3>2, <5>2, <5>3
      <4> QED BY <4>1 DEF Rising
    <3> QED BY <2>2, <2>4, <2>6, <3>1, <3>2, <3>3, <3>5
  <2> QED BY <2>5, <2>6
<1> HIDE DEF T
<1>3. \A n \in Nat : n \in T BY <1>1, <1>2, NatSetInduction
<1>4. Good(Len(s))
  <2>1. Len(s) \in T BY <1>0, <1>3
  <2> QED BY <1>0, <2>1 DEF T
<1>5. kept(Len(s)) = {t \in ToSet(s) : ~Sudo(t, manager)} BY ToSetFacts
<1>6. ASSUME NEW i \in 1..Len(g[Len(s)]) PROVE low <= Rank(g[Len(s)][i]) /\ Rank(g[Len(s)][i]) <= high
  <2>1. g[Len(s)][i] \in ToSet(g[Len(s)]) BY <1>4, InSet
  <2>2. PICK j \in 1..Len(s) : g[Len(s)][i] = s[j] BY <1>4, <2>1
  <2> QED BY <2>2 DEF Within
<1> QED BY <1>4, <1>5, <1>6 DEF Within

\* filterUserSteps keeps the steps that need no sudo, in their order.
LEMMA FilterKeeps ==
  ASSUME NEW s, NEW manager, NEW low \in Int, NEW high \in Int, Within(s, low, high)
  PROVE  /\ Within(FilterUserSteps(s, manager), low, high)
         /\ ToSet(FilterUserSteps(s, manager)) = {t \in ToSet(s) : ~Sudo(t, manager)}
<1>1. s \in Seq(StepNames) /\ Len(s) \in Nat BY DEF Within
<1> DEFINE g == CHOOSE result : result =
              [i \in 0..Len(s) |-> IF i = 0 THEN <<>>
                                   ELSE IF Sudo(s[i], manager) THEN result[i - 1] ELSE Append(result[i - 1], s[i])]
<1>2. FilterUserSteps(s, manager) = g[Len(s)] BY DEF FilterUserSteps
<1>3. \E h : Rounds(h, Len(s), s, manager) BY <1>1, RoundsExist
<1>4. Rounds(g, Len(s), s, manager) BY <1>3 DEF Rounds
<1> HIDE DEF g
<1> QED BY <1>1, <1>2, <1>4, RoundsKeep

-----------------------------------------------------------------------------
(* What BuildPlan plans.                                                   *)

\* Something is to be installed by a package manager that is known.
Packaged(inv, recipe, options) == PlannedPackages(inv, recipe, options) # {} /\ inv.manager # "unknown"
Pwntooled(inv, recipe) == ~ComponentHealthy(inv, "pwntools") \/ recipe.pip
Dockered(inv, recipe, options) == DockerPending(inv, recipe) /\ (inv.root \/ options.accept)

\* The steps of a plan, before those under sudo are left out.
Needed(inv, recipe, options) ==
  {s \in StepNames :
     \/ s = "packages-repair" /\ Packaged(inv, recipe, options) /\ inv.manager = "apt"
     \/ s = "packages-refresh" /\ Packaged(inv, recipe, options) /\ inv.manager \in {"apt", "zypper"}
     \/ s = "packages-install" /\ Packaged(inv, recipe, options)
     \/ s \in {"pwntools-venv", "pwntools-base", "pip-check", "pwntools-verify"} /\ Pwntooled(inv, recipe)
     \/ s = "pip-extra" /\ Pwntooled(inv, recipe) /\ recipe.pip
     \/ s = "pwndbg-install" /\ "pwndbg" \in recipe.components /\ ~inv.pwndbg /\ ~inv.musl
     \/ s = "docker-enable" /\ Dockered(inv, recipe, options) /\ inv.service = "openrc"
     \/ s = "docker-service" /\ Dockered(inv, recipe, options) /\ inv.service \in {"systemd", "sysv", "openrc"}
     \/ s = "docker-group" /\ Dockered(inv, recipe, options) /\ ~inv.root}

LEMMA Places ==
  /\ Rank("packages-repair") = 1 /\ Rank("packages-refresh") = 2 /\ Rank("packages-install") = 3
  /\ Rank("pwntools-venv") = 4 /\ Rank("pwntools-base") = 5 /\ Rank("pip-extra") = 6 /\ Rank("pip-check") = 7
  /\ Rank("pwntools-verify") = 8 /\ Rank("pwndbg-install") = 9 /\ Rank("docker-enable") = 10
  /\ Rank("docker-service") = 11 /\ Rank("docker-group") = 12
  BY DEF Rank

LEMMA One ==
  ASSUME NEW s \in StepNames, NEW low \in Int, NEW high \in Int, low <= Rank(s), Rank(s) <= high
  PROVE  Within(<<s>>, low, high) /\ ToSet(<<s>>) = {s}
<1> DEFINE q == <<s>>
<1>1. q \in Seq(StepNames) /\ Len(q) = 1 /\ q[1] = s OBVIOUS
<1> HIDE DEF q
<1>3. \A i \in 1..Len(q) : i = 1 BY <1>1
<1>2. ToSet(q) = {s}
  <2>1. 1 \in 1..Len(q) BY <1>1
  <2>2. s \in ToSet(q) BY <1>1, <2>1, InSet
  <2>3. \A e \in ToSet(q) : e = s BY <1>1, <1>3, OfSet
  <2> QED BY <2>2, <2>3
<1>4. Within(q, low, high) BY <1>1, <1>3 DEF Within, Rising
<1> QED BY <1>2, <1>4 DEF q

LEMMA Two ==
  ASSUME NEW s \in StepNames, NEW t \in StepNames, NEW low \in Int, NEW high \in Int, low <= Rank(s), Rank(s) < Rank(t),
         Rank(t) <= high
  PROVE  Within(<<s, t>>, low, high) /\ ToSet(<<s, t>>) = {s, t}
<1> DEFINE q == <<s, t>>
<1>1. q \in Seq(StepNames) /\ Len(q) = 2 /\ q[1] = s /\ q[2] = t OBVIOUS
<1> HIDE DEF q
<1>2. \A i \in 1..Len(q) : i = 1 \/ i = 2 BY <1>1
<1>3. 1 \in 1..Len(q) /\ 2 \in 1..Len(q) BY <1>1
<1>4. ToSet(q) = {s, t}
  <2>1. s \in ToSet(q) /\ t \in ToSet(q) BY <1>1, <1>3, InSet
  <2>2. \A e \in ToSet(q) : e = s \/ e = t BY <1>1, <1>2, OfSet
  <2> QED BY <2>1, <2>2
<1>5. Within(q, low, high) BY <1>1, <1>2, RankTyped DEF Within, Rising
<1> QED BY <1>4, <1>5 DEF q

LEMMA PackageStepsShape ==
  ASSUME NEW manager
  PROVE  /\ Within(PackageSteps(manager), 1, 3)
         /\ ToSet(PackageSteps(manager)) =
              {"packages-install"} \cup (IF manager = "apt" THEN {"packages-repair", "packages-refresh"}
                                         ELSE IF manager = "zypper" THEN {"packages-refresh"} ELSE {})
<1> DEFINE first == IF manager = "apt" THEN <<"packages-repair", "packages-refresh">>
                    ELSE IF manager = "zypper" THEN <<"packages-refresh">> ELSE <<>>
           last == <<"packages-install">>
<1>1. PackageSteps(manager) = first \o last BY DEF PackageSteps
<1>2. "packages-repair" \in StepNames /\ "packages-refresh" \in StepNames /\ "packages-install" \in StepNames BY DEF StepNames
<1>3. Within(first, 1, 2) /\ ToSet(first) = IF manager = "apt" THEN {"packages-repair", "packages-refresh"}
                                            ELSE IF manager = "zypper" THEN {"packages-refresh"} ELSE {}
  <2>1. CASE manager = "apt" BY <1>2, <2>1, Places, Two
  <2>2. CASE manager = "zypper" BY <1>2, <2>2, Places, One
  <2>3. CASE manager \notin {"apt", "zypper"} BY <2>3, EmptyWithin, EmptySet
  <2> QED BY <2>1, <2>2, <2>3
<1>4. Within(last, 3, 3) /\ ToSet(last) = {"packages-install"} BY <1>2, Places, One
<1> HIDE DEF first, last
<1>5. Within(first \o last, 1, 3) /\ ToSet(first \o last) = ToSet(first) \cup ToSet(last) BY <1>3, <1>4, Joined
<1> QED BY <1>1, <1>3, <1>4, <1>5

LEMMA PwntoolsStepsShape ==
  ASSUME NEW pip \in BOOLEAN
  PROVE  /\ Within(PwntoolsSteps(pip), 4, 8)
         /\ ToSet(PwntoolsSteps(pip)) = {"pwntools-venv", "pwntools-base", "pip-check", "pwntools-verify"}
                                        \cup (IF pip THEN {"pip-extra"} ELSE {})
<1> DEFINE first == <<"pwntools-venv", "pwntools-base">>
           extra == IF pip THEN <<"pip-extra">> ELSE <<>>
           last == <<"pip-check", "pwntools-verify">>
<1>1. PwntoolsSteps(pip) = first \o extra \o last BY DEF PwntoolsSteps
<1>2. /\ "pwntools-venv" \in StepNames /\ "pwntools-base" \in StepNames /\ "pip-extra" \in StepNames
      /\ "pip-check" \in StepNames /\ "pwntools-verify" \in StepNames
  BY DEF StepNames
<1>3. Within(first, 4, 5) /\ ToSet(first) = {"pwntools-venv", "pwntools-base"} BY <1>2, Places, Two
<1>4. Within(extra, 6, 6) /\ ToSet(extra) = IF pip THEN {"pip-extra"} ELSE {}
  <2>1. CASE pip BY <1>2, <2>1, Places, One
  <2>2. CASE ~pip BY <2>2, EmptyWithin, EmptySet
  <2> QED BY <2>1, <2>2
<1>5. Within(last, 7, 8) /\ ToSet(last) = {"pip-check", "pwntools-verify"} BY <1>2, Places, Two
<1> HIDE DEF first, extra, last
<1>6. Within(first \o extra, 4, 6) /\ ToSet(first \o extra) = ToSet(first) \cup ToSet(extra) BY <1>3, <1>4, Joined
<1>7. /\ Within(first \o extra \o last, 4, 8)
      /\ ToSet(first \o extra \o last) = ToSet(first \o extra) \cup ToSet(last)
  BY <1>5, <1>6, Joined
<1>8. ToSet(PwntoolsSteps(pip)) = ToSet(first) \cup ToSet(extra) \cup ToSet(last) BY <1>1, <1>6, <1>7
<1>9. ToSet(PwntoolsSteps(pip)) = {"pwntools-venv", "pwntools-base"} \cup (IF pip THEN {"pip-extra"} ELSE {})
                                  \cup {"pip-check", "pwntools-verify"}
  BY <1>3, <1>4, <1>5, <1>8
<1> QED BY <1>1, <1>7, <1>9

LEMMA DockerStepsShape ==
  ASSUME NEW inv, inv.root \in BOOLEAN
  PROVE  /\ Within(DockerSetupSteps(inv), 10, 12)
         /\ ToSet(DockerSetupSteps(inv)) =
              (IF inv.service = "openrc" THEN {"docker-enable", "docker-service"}
               ELSE IF inv.service \in {"systemd", "sysv"} THEN {"docker-service"} ELSE {})
              \cup (IF inv.root THEN {} ELSE {"docker-group"})
<1> DEFINE daemon == CASE inv.service = "openrc" -> <<"docker-enable", "docker-service">>
                       [] inv.service \in {"systemd", "sysv"} -> <<"docker-service">>
                       [] OTHER -> <<>>
           group == IF inv.root THEN <<>> ELSE <<"docker-group">>
<1>1. DockerSetupSteps(inv) = daemon \o group BY DEF DockerSetupSteps
<1>2. "docker-enable" \in StepNames /\ "docker-service" \in StepNames /\ "docker-group" \in StepNames BY DEF StepNames
<1>3. Within(daemon, 10, 11) /\ ToSet(daemon) =
        IF inv.service = "openrc" THEN {"docker-enable", "docker-service"}
        ELSE IF inv.service \in {"systemd", "sysv"} THEN {"docker-service"} ELSE {}
  <2>1. CASE inv.service = "openrc"
    <3>1. daemon = <<"docker-enable", "docker-service">> BY <2>1
    <3> HIDE DEF daemon
    <3> QED BY <1>2, <2>1, <3>1, Places, Two
  <2>2. CASE inv.service \in {"systemd", "sysv"}
    <3>1. daemon = <<"docker-service">> /\ inv.service # "openrc" BY <2>2
    <3> HIDE DEF daemon
    <3> QED BY <1>2, <2>2, <3>1, Places, One
  <2>3. CASE inv.service \notin {"openrc", "systemd", "sysv"} BY <2>3, EmptyWithin, EmptySet
  <2> QED BY <2>1, <2>2, <2>3
<1>4. Within(group, 12, 12) /\ ToSet(group) = IF inv.root THEN {} ELSE {"docker-group"}
  <2>1. CASE inv.root BY <2>1, EmptyWithin, EmptySet
  <2>2. CASE ~inv.root BY <1>2, <2>2, Places, One
  <2> QED BY <2>1, <2>2
<1> HIDE DEF daemon, group
<1>5. Within(daemon \o group, 10, 12) /\ ToSet(daemon \o group) = ToSet(daemon) \cup ToSet(group) BY <1>3, <1>4, Joined
<1> QED BY <1>1, <1>3, <1>4, <1>5

\* The steps of a plan and their order.
LEMMA StepsShape ==
  ASSUME NEW inv, NEW recipe, NEW options, inv.root \in BOOLEAN, recipe.pip \in BOOLEAN, options.noSudo \in BOOLEAN
  PROVE  /\ Within(Steps(inv, recipe, options), 1, 12)
         /\ ToSet(Steps(inv, recipe, options)) =
              {s \in Needed(inv, recipe, options) : options.noSudo => ~Sudo(s, inv.manager)}
<1> DEFINE packages == IF Packaged(inv, recipe, options) THEN PackageSteps(inv.manager) ELSE <<>>
           pwntools == IF Pwntooled(inv, recipe) THEN PwntoolsSteps(recipe.pip) ELSE <<>>
           pwndbgs == "pwndbg" \in recipe.components /\ ~inv.pwndbg /\ ~inv.musl
           pwndbg == IF pwndbgs THEN <<"pwndbg-install">> ELSE <<>>
           docker == IF Dockered(inv, recipe, options) THEN DockerSetupSteps(inv) ELSE <<>>
           all == packages \o pwntools \o pwndbg \o docker
           P == IF Packaged(inv, recipe, options)
                THEN {"packages-install"} \cup (IF inv.manager = "apt" THEN {"packages-repair", "packages-refresh"}
                                         ELSE IF inv.manager = "zypper" THEN {"packages-refresh"} ELSE {})
                ELSE {}
           W == IF Pwntooled(inv, recipe)
                THEN {"pwntools-venv", "pwntools-base", "pip-check", "pwntools-verify"}
                     \cup (IF recipe.pip THEN {"pip-extra"} ELSE {})
                ELSE {}
           G == IF pwndbgs THEN {"pwndbg-install"} ELSE {}
           D == IF Dockered(inv, recipe, options)
                THEN (IF inv.service = "openrc" THEN {"docker-enable", "docker-service"}
                      ELSE IF inv.service \in {"systemd", "sysv"} THEN {"docker-service"} ELSE {})
                     \cup (IF inv.root THEN {} ELSE {"docker-group"})
                ELSE {}
<1>1. Within(packages, 1, 3) /\ ToSet(packages) = P
  <2>1. CASE Packaged(inv, recipe, options) BY <2>1, PackageStepsShape
  <2>2. CASE ~Packaged(inv, recipe, options) BY <2>2, EmptyWithin, EmptySet
  <2> QED BY <2>1, <2>2
<1>2. Within(pwntools, 4, 8) /\ ToSet(pwntools) = W
  <2>1. CASE Pwntooled(inv, recipe) BY <2>1, PwntoolsStepsShape
  <2>2. CASE ~Pwntooled(inv, recipe) BY <2>2, EmptyWithin, EmptySet
  <2> QED BY <2>1, <2>2
<1>3. Within(pwndbg, 9, 9) /\ ToSet(pwndbg) = G
  <2>1. CASE pwndbgs
    <3>1. "pwndbg-install" \in StepNames BY DEF StepNames
    <3> QED BY <2>1, <3>1, Places, One
  <2>2. CASE ~pwndbgs BY <2>2, EmptyWithin, EmptySet
  <2> QED BY <2>1, <2>2
<1>4. Within(docker, 10, 12) /\ ToSet(docker) = D
  <2>1. CASE Dockered(inv, recipe, options) BY <2>1, DockerStepsShape
  <2>2. CASE ~Dockered(inv, recipe, options) BY <2>2, EmptyWithin, EmptySet
  <2> QED BY <2>1, <2>2
<1>5. Steps(inv, recipe, options) = IF options.noSudo THEN FilterUserSteps(all, inv.manager) ELSE all
  BY DEF Steps, Packaged, Pwntooled, Dockered
<1>6. P \cup W \cup G \cup D = Needed(inv, recipe, options)
  <2> HIDE DEF packages, pwntools, pwndbg, docker, all
  <2>1. P \cup W \cup G \cup D \subseteq Needed(inv, recipe, options) BY DEF Needed, StepNames
  <2>2. Needed(inv, recipe, options) \subseteq P \cup W \cup G \cup D BY DEF Needed
  <2> QED BY <2>1, <2>2
<1> HIDE DEF packages, pwntools, pwndbg, docker, P, W, G, D
<1>7. Within(packages \o pwntools, 1, 8) /\ ToSet(packages \o pwntools) = P \cup W BY <1>1, <1>2, Joined
<1>8. Within(packages \o pwntools \o pwndbg, 1, 9) /\ ToSet(packages \o pwntools \o pwndbg) = P \cup W \cup G
  BY <1>3, <1>7, Joined
<1>9. Within(all, 1, 12) /\ ToSet(all) = Needed(inv, recipe, options)
  <2> DEFINE most == packages \o pwntools \o pwndbg
  <2>1. Within(most, 1, 9) /\ ToSet(most) = P \cup W \cup G BY <1>8
  <2>2. all = most \o docker OBVIOUS
  <2> HIDE DEF all, most
  <2>3. Within(most \o docker, 1, 12) /\ ToSet(most \o docker) = ToSet(most) \cup ToSet(docker) BY <1>4, <2>1, Joined
  <2> QED BY <1>4, <1>6, <2>1, <2>2, <2>3
<1> HIDE DEF all
<1>10. CASE options.noSudo
  <2>1. Within(FilterUserSteps(all, inv.manager), 1, 12)
        /\ ToSet(FilterUserSteps(all, inv.manager)) = {t \in ToSet(all) : ~Sudo(t, inv.manager)}
    BY <1>9, FilterKeeps
  <2> QED BY <1>5, <1>9, <1>10, <2>1
<1>11. CASE ~options.noSudo BY <1>5, <1>9, <1>11
<1> QED BY <1>10, <1>11

-----------------------------------------------------------------------------
(* What ResolveRecipe resolves.                                            *)

LEMMA ResolvedFacts ==
  ASSUME NEW wanted, wanted \subseteq Components
  PROVE  /\ Resolved(wanted) \subseteq Components /\ Mandatory \cup wanted \subseteq Resolved(wanted)
         /\ \A id \in Resolved(wanted) : Dependencies(id) \subseteq Resolved(wanted)
<1> DEFINE start == Mandatory \cup wanted
           closed(S) == \A id \in S : Dependencies(id) \subseteq S
           least(S) == /\ start \subseteq S /\ closed(S)
                       /\ \A T \in SUBSET S : start \subseteq T /\ closed(T) => T = S
           S == {c \in Components : \A T \in SUBSET Components : start \subseteq T /\ closed(T) => c \in T}
<1>1. start \subseteq Components /\ \A id \in Components : Dependencies(id) \subseteq Components
  BY DEF Mandatory, Components, Dependencies
<1>2. start \subseteq S BY <1>1
<1>3. closed(S)
  <2>1. ASSUME NEW id \in S, NEW d \in Dependencies(id) PROVE d \in S
    <3>1. d \in Components BY <1>1, <2>1
    <3>2. ASSUME NEW T \in SUBSET Components, start \subseteq T, closed(T) PROVE d \in T BY <2>1, <3>2
    <3> QED BY <3>1, <3>2
  <2> QED BY <2>1
<1>4. ASSUME NEW T \in SUBSET S, start \subseteq T, closed(T) PROVE T = S
  <2>1. T \in SUBSET Components OBVIOUS
  <2>2. S \subseteq T BY <1>4, <2>1
  <2> QED BY <2>2
<1>5. S \in SUBSET Components /\ least(S) BY <1>2, <1>3, <1>4
<1>6. Resolved(wanted) = CHOOSE U \in SUBSET Components : least(U) BY DEF Resolved
<1>7. \E U \in SUBSET Components : least(U) BY <1>5
<1> HIDE DEF S
<1>8. Resolved(wanted) \in SUBSET Components /\ least(Resolved(wanted))
  <2> HIDE DEF least
  <2> QED BY <1>6, <1>7
<1> QED BY <1>8

-----------------------------------------------------------------------------
(* Typing.                                                                 *)

Inventories ==
  [manager : Managers, root : BOOLEAN, sudo : BOOLEAN, service : {"systemd", "openrc", "sysv", "runit", "unknown"},
   immutable : BOOLEAN, musl : BOOLEAN, fit : BOOLEAN, tools : SUBSET Software, version : {"none", "old", "pinned"},
   pwndbg : BOOLEAN, group : BOOLEAN]
ClientStates ==
  [pc : {"idle", "confirm", "deploy", "apply", "running", "postflight", "choice"}, n : 0..MaxAttempts,
   mode : {"preview", "yes", "wizard"}, inv : Inventories, consent : BOOLEAN, accepted : BOOLEAN,
   reviewed : SUBSET StepNames, completed : Seq(StepNames), pending : Seq(StepNames), auth : BOOLEAN,
   missed : BOOLEAN, clean : BOOLEAN, outcome : {"none", "previewed", "cancelled", "blocked", "failed", "ok"}]
AgentStates ==
  [stage : {"none", "auth", "next", "checking", "doing", "ended"}, steps : Seq(StepNames), packages : SUBSET Software,
   next : Nat \ {0}, attached : BOOLEAN, ok : BOOLEAN]
Events == [type : {"auth"}, step : {"auth"}] \cup [type : {"start", "done", "failed"}, step : StepNames]

TypedInv ==
  /\ setting \in Settings /\ budget \in 0..setting.limit /\ host \in Host /\ client \in ClientStates
  /\ agents \in [Attempts -> AgentStates] /\ wire \in Seq(Events)

LEMMA SettingFacts ==
  ASSUME setting \in Settings
  PROVE  /\ setting \in Setting /\ setting.limit \in Nat /\ setting.attempts \in Attempts /\ setting.wants \subseteq Components
         /\ MaxAttempts \in Nat /\ MaxWire \in Nat \ {0} /\ setting.start \in Host
         /\ setting.start.current = "pinned" => setting.start.dest = "whole"
         /\ setting.start.dpkg = "interrupted" => setting.manager = "apt"
         /\ setting.root \in BOOLEAN /\ setting.noSudo \in BOOLEAN /\ setting.accept \in BOOLEAN /\ setting.pip \in BOOLEAN
         /\ setting.modes \subseteq {"preview", "yes", "wizard"} /\ setting.system \subseteq Software
  BY BootstrapAssumption DEF Setting

LEMMA VersionTyped == ASSUME NEW h \in Host PROVE Version(h) \in {"none", "old", "pinned"}
  BY DEF Version, Host

LEMMA InspectTyped == ASSUME setting \in Settings, host \in Host PROVE Inspect \in Inventories
<1>1. setting \in Setting BY SettingFacts
<1>2. Version(host) \in {"none", "old", "pinned"} BY VersionTyped
<1>3. ActivePwndbg(host) \in BOOLEAN BY DEF ActivePwndbg
<1>4. host.tools \in SUBSET Software /\ host.group \in BOOLEAN BY DEF Host
<1> QED BY <1>1, <1>2, <1>3, <1>4 DEF Inspect, Inventories, Setting

LEMMA PlannedTyped ==
  ASSUME NEW inv, NEW recipe, NEW options, inv.manager \in Managers, recipe.system \subseteq Software
  PROVE  PlannedPackages(inv, recipe, options) \subseteq Software
<1> DEFINE kept == {id \in recipe.components : Install(inv, id)} \cap Privileged
           all == UNION {Packages(id, inv.manager) : id \in kept}
<1>1. \A id \in kept : Packages(id, inv.manager) \subseteq Cataloged
  <2>1. \A id \in kept : id \in Components BY DEF Privileged, Components
  <2> HIDE DEF kept
  <2> QED BY <2>1 DEF Cataloged
<1>2. all \subseteq Cataloged BY <1>1
<1>3. \A e \in PlannedPackages(inv, recipe, options) : e \in all \/ e = "python3-pwntools" \/ e \in recipe.system
  BY DEF PlannedPackages
<1>4. "python3-pwntools" \in Cataloged
  <2> DEFINE named == UNION {UNION {Packages(id, m) : m \in Managers} : id \in Components}
  <2>1. Cataloged = {"python3-pwntools"} \cup named BY DEF Cataloged
  <2> HIDE DEF named
  <2> QED BY <2>1
<1> QED BY <1>2, <1>3, <1>4 DEF Software

LEMMA RecipeFacts ==
  ASSUME setting \in Settings
  PROVE  /\ Recipe.components \subseteq Components /\ Mandatory \cup setting.wants \subseteq Recipe.components
         /\ \A id \in Recipe.components : Dependencies(id) \subseteq Recipe.components
         /\ Recipe.pip = setting.pip /\ Recipe.system = setting.system /\ Recipe.pip \in BOOLEAN /\ Recipe.system \subseteq Software
  BY SettingFacts, ResolvedFacts DEF Recipe

\* The plan for what a client knows: its steps come in their order.
LEMMA PlanShape ==
  ASSUME setting \in Settings, NEW c \in ClientStates
  PROVE  /\ Within(PlanOf(c).steps, 1, 12) /\ PlanOf(c).packages \subseteq Software
         /\ PlanOf(c).steps = Steps(c.inv, Recipe, Options(c)) /\ PlanOf(c).packages = PlannedPackages(c.inv, Recipe, Options(c))
         /\ PlanOf(c).blockers = Blockers(c.inv, Recipe, Options(c))
         /\ ToSet(PlanOf(c).steps) = {s \in Needed(c.inv, Recipe, Options(c)) : setting.noSudo => ~Sudo(s, c.inv.manager)}
<1>1. c.inv.root \in BOOLEAN /\ c.inv.manager \in Managers BY DEF ClientStates, Inventories
<1>2. Options(c).noSudo \in BOOLEAN /\ Options(c).noSudo = setting.noSudo BY SettingFacts DEF Options
<1>3. PlanOf(c).steps = Steps(c.inv, Recipe, Options(c)) /\ PlanOf(c).packages = PlannedPackages(c.inv, Recipe, Options(c))
      /\ PlanOf(c).blockers = Blockers(c.inv, Recipe, Options(c))
  BY DEF PlanOf, BuildPlan
<1> QED BY <1>1, <1>2, <1>3, RecipeFacts, StepsShape, PlannedTyped

-----------------------------------------------------------------------------
(* What an agent does in a step.                                           *)

\* A step moves one agent, and makes of the host what the step in progress may.
AgentBecomes(n, stage, next, ok) ==
  agents' = [agents EXCEPT ![n] = [agents[n] EXCEPT !.stage = stage, !.next = next, !.ok = ok]]

Remade(h) == [h EXCEPT !.python = FALSE, !.pip = FALSE, !.version = "none", !.wrapper = FALSE, !.checked = FALSE]

Acts(n, stage, next, ok) ==
  LET a == agents[n]
  IN /\ ~Idle(a) /\ UNCHANGED setting /\ client' \in {client, Blamed(client)}
     /\ \/ /\ a.stage = "auth" /\ stage = "next" /\ next = a.next /\ ok = a.ok /\ UNCHANGED <<host, client>>
        \/ /\ a.stage = "auth" /\ stage = "ended" /\ next = a.next /\ ok = a.ok
           /\ UNCHANGED host /\ client' = Blamed(client)
        \/ /\ a.stage = "next" /\ a.next <= Len(a.steps) /\ stage \in {"checking", "doing"}
           /\ (stage = "checking" <=> Step(n) = "pwntools-venv")
           /\ next = a.next /\ ok = a.ok /\ UNCHANGED <<host, client>>
        \/ /\ a.stage = "checking" /\ host.python /\ host.pip /\ stage = "next" /\ next = a.next + 1 /\ ok = a.ok
           /\ UNCHANGED <<host, client>>
        \/ /\ a.stage = "checking" /\ stage = "doing" /\ next = a.next /\ ok = a.ok
           /\ host' = Remade(host) /\ UNCHANGED client
        \/ /\ a.stage = "doing" /\ Works(Step(n), host) /\ stage = "next" /\ next = a.next + 1 /\ ok = a.ok
           /\ host' = Performed(Step(n), a.packages, host) /\ UNCHANGED client
        \/ /\ a.stage = "doing" /\ stage = "ended" /\ next = a.next /\ ok = a.ok
           /\ host' \in Begun(Step(n), a.packages, host)
           /\ client' = Blamed(client) \/ ~Works(Step(n), host) \/ ~a.attached
        \/ /\ a.stage = "next" /\ a.next > Len(a.steps) /\ stage = "ended" /\ next = a.next /\ ok = TRUE
           /\ UNCHANGED <<host, client>>
        \/ /\ ~a.attached /\ stage = "ended" /\ next = a.next /\ ok = a.ok /\ UNCHANGED <<host, client>>

LEMMA AgentActs ==
  ASSUME TypedInv, NEW n \in Attempts, Agent(n)
  PROVE  \E stage \in {"next", "checking", "doing", "ended"}, next \in Nat \ {0}, ok \in BOOLEAN :
           AgentBecomes(n, stage, next, ok) /\ Acts(n, stage, next, ok)
<1> PICK a \in AgentStates : a = agents[n] BY DEF TypedInv
<1>1. a.next \in Nat \ {0} /\ a.next + 1 \in Nat \ {0} /\ a.ok \in BOOLEAN BY DEF AgentStates
<1>2a. \A st : [a EXCEPT !.stage = st] = [a EXCEPT !.stage = st, !.next = a.next, !.ok = a.ok] BY DEF AgentStates
<1>2b. \A st, nx : [a EXCEPT !.stage = st, !.next = nx] = [a EXCEPT !.stage = st, !.next = nx, !.ok = a.ok] BY DEF AgentStates
<1>2c. \A st, ok : [a EXCEPT !.stage = st, !.ok = ok] = [a EXCEPT !.stage = st, !.next = a.next, !.ok = ok] BY DEF AgentStates
<1>3. ASSUME Authenticate(n)
      PROVE  \E stage \in {"next", "checking", "doing", "ended"}, next \in Nat \ {0}, ok \in BOOLEAN :
               AgentBecomes(n, stage, next, ok) /\ Acts(n, stage, next, ok)
  <2>1. CASE agents' = [agents EXCEPT ![n].stage = "next"] /\ UNCHANGED client
    <3>1. AgentBecomes(n, "next", a.next, a.ok) BY <1>2a, <2>1 DEF AgentBecomes
    <3>2. Acts(n, "next", a.next, a.ok) BY <1>3, <2>1 DEF Authenticate, Acts, Idle
    <3> QED BY <1>1, <3>1, <3>2
  <2>2. CASE agents' = [agents EXCEPT ![n].stage = "ended"] /\ client' = Blamed(client)
    <3>1. AgentBecomes(n, "ended", a.next, a.ok) BY <1>2a, <2>2 DEF AgentBecomes
    <3>2. Acts(n, "ended", a.next, a.ok) BY <1>3, <2>2 DEF Authenticate, Acts, Idle
    <3> QED BY <1>1, <3>1, <3>2
  <2> QED BY <1>3, <2>1, <2>2 DEF Authenticate
<1>4. ASSUME StepStarts(n)
      PROVE  \E stage \in {"next", "checking", "doing", "ended"}, next \in Nat \ {0}, ok \in BOOLEAN :
               AgentBecomes(n, stage, next, ok) /\ Acts(n, stage, next, ok)
  <2> DEFINE st == IF Step(n) = "pwntools-venv" THEN "checking" ELSE "doing"
  <2>1. st \in {"checking", "doing"} OBVIOUS
  <2>2. agents' = [agents EXCEPT ![n].stage = st] BY <1>4 DEF StepStarts
  <2>3. AgentBecomes(n, st, a.next, a.ok)
    <3> HIDE DEF st
    <3> QED BY <1>2a, <2>2 DEF AgentBecomes
  <2>4. Acts(n, st, a.next, a.ok) BY <1>4, <2>1 DEF StepStarts, Acts, Idle
  <2> HIDE DEF st
  <2> QED BY <1>1, <2>1, <2>3, <2>4
<1>5. ASSUME VenvChecks(n)
      PROVE  \E stage \in {"next", "checking", "doing", "ended"}, next \in Nat \ {0}, ok \in BOOLEAN :
               AgentBecomes(n, stage, next, ok) /\ Acts(n, stage, next, ok)
  <2>1. CASE host.python /\ host.pip
    <3>1. AgentBecomes(n, "next", a.next + 1, a.ok)
      <4>1. agents' = [agents EXCEPT ![n].stage = "next", ![n].next = @ + 1] BY <1>5, <2>1 DEF VenvChecks, Finished
      <4>2. agents' = [agents EXCEPT ![n] = [a EXCEPT !.stage = "next", !.next = a.next + 1]] BY <4>1 DEF AgentStates, TypedInv
      <4> QED BY <1>2b, <4>2 DEF AgentBecomes
    <3>2. Acts(n, "next", a.next + 1, a.ok) BY <1>5, <2>1 DEF VenvChecks, Acts, Idle
    <3> QED BY <1>1, <3>1, <3>2
  <2>2. CASE ~(host.python /\ host.pip)
    <3>1. AgentBecomes(n, "doing", a.next, a.ok) BY <1>2a, <1>5, <2>2 DEF VenvChecks, AgentBecomes
    <3>2. Acts(n, "doing", a.next, a.ok) BY <1>5, <2>2 DEF VenvChecks, Acts, Idle, Remade
    <3> QED BY <1>1, <3>1, <3>2
  <2> QED BY <2>1, <2>2
<1>6. ASSUME StepDone(n)
      PROVE  \E stage \in {"next", "checking", "doing", "ended"}, next \in Nat \ {0}, ok \in BOOLEAN :
               AgentBecomes(n, stage, next, ok) /\ Acts(n, stage, next, ok)
  <2>1. AgentBecomes(n, "next", a.next + 1, a.ok)
    <3>1. agents' = [agents EXCEPT ![n].stage = "next", ![n].next = @ + 1] BY <1>6 DEF StepDone, Finished
    <3>2. agents' = [agents EXCEPT ![n] = [a EXCEPT !.stage = "next", !.next = a.next + 1]] BY <3>1 DEF AgentStates, TypedInv
    <3> QED BY <1>2b, <3>2 DEF AgentBecomes
  <2>2. Acts(n, "next", a.next + 1, a.ok) BY <1>6 DEF StepDone, Acts, Idle
  <2> QED BY <1>1, <2>1, <2>2
<1>7. ASSUME StepFails(n)
      PROVE  \E stage \in {"next", "checking", "doing", "ended"}, next \in Nat \ {0}, ok \in BOOLEAN :
               AgentBecomes(n, stage, next, ok) /\ Acts(n, stage, next, ok)
  <2>1. AgentBecomes(n, "ended", a.next, a.ok) BY <1>2a, <1>7 DEF StepFails, AgentBecomes
  <2>2. Acts(n, "ended", a.next, a.ok) BY <1>7 DEF StepFails, Acts, Idle
  <2> QED BY <1>1, <2>1, <2>2
<1>8. ASSUME AgentEnds(n)
      PROVE  \E stage \in {"next", "checking", "doing", "ended"}, next \in Nat \ {0}, ok \in BOOLEAN :
               AgentBecomes(n, stage, next, ok) /\ Acts(n, stage, next, ok)
  <2>1. AgentBecomes(n, "ended", a.next, TRUE)
    <3>1. agents' = [agents EXCEPT ![n] = [a EXCEPT !.stage = "ended", !.ok = TRUE]] BY <1>8 DEF AgentEnds, TypedInv, AgentStates
    <3> QED BY <1>2c, <3>1 DEF AgentBecomes
  <2>2. Acts(n, "ended", a.next, TRUE) BY <1>8 DEF AgentEnds, Acts, Idle
  <2> QED BY <1>1, <2>1, <2>2
<1>9. ASSUME HangUp(n)
      PROVE  \E stage \in {"next", "checking", "doing", "ended"}, next \in Nat \ {0}, ok \in BOOLEAN :
               AgentBecomes(n, stage, next, ok) /\ Acts(n, stage, next, ok)
  <2>1. AgentBecomes(n, "ended", a.next, a.ok) BY <1>2a, <1>9 DEF HangUp, AgentBecomes
  <2>2. Acts(n, "ended", a.next, a.ok)
    <3>1. CASE a.stage = "doing" BY <1>9, <3>1 DEF HangUp, Acts, Idle
    <3>2. CASE a.stage # "doing" BY <1>9, <3>2 DEF HangUp, Acts, Idle
    <3> QED BY <3>1, <3>2
  <2> QED BY <1>1, <2>1, <2>2
<1> QED BY <1>3, <1>4, <1>5, <1>6, <1>7, <1>8, <1>9 DEF Agent

-----------------------------------------------------------------------------
(* The inductive invariant.                                                *)

\* The steps that an agent has done.
DoneBy(a) == {a.steps[i] : i \in 1..(a.next - 1)}
\* What no step of a plan changes.
Static(inv) ==
  /\ inv.manager = setting.manager /\ inv.root = setting.root /\ inv.sudo = setting.sudo /\ inv.service = setting.service
  /\ inv.immutable = setting.immutable /\ inv.musl = setting.musl /\ inv.fit = setting.fit

\* What a plan that runs may contain.
LegalPlan(a) ==
  /\ Within(a.steps, 1, 12)
  /\ setting.noSudo => \A s \in ToSet(a.steps) : ~Sudo(s, setting.manager)
  /\ "docker-group" \in ToSet(a.steps) => client.accepted /\ "docker-service" \in ToSet(a.steps)

\* Where an agent is, and whose it is.
AgentInv(n) ==
  LET a == agents[n]
  IN /\ LegalPlan(a) /\ a.next <= Len(a.steps) + 1
     /\ a.stage \in {"checking", "doing"} => a.next <= Len(a.steps)
     /\ a.stage = "checking" => Step(n) = "pwntools-venv"
     /\ a.ok => a.stage = "ended" /\ a.next = Len(a.steps) + 1
     /\ ~Idle(a) /\ (a.attached \/ client.clean) => n = client.n /\ client.pc = "running"
     /\ n > client.n => a = NoAgent
     /\ "docker-service" \in DoneBy(a) => host.daemon

\* What every state of the host keeps, in the middle of a step too.
HostInv ==
  /\ ActivePwndbgWorks /\ UserOwnedOnly
  /\ host.dpkg = "interrupted" => setting.manager = "apt"
  /\ host.group /\ ~setting.start.group => client.accepted /\ host.daemon
  /\ setting.start.group => host.group
  /\ setting.start.tools \subseteq host.tools

\* Where the command is, whose agent it waits for and what it knows of the host.
Preparing == {"confirm", "deploy", "apply"}
Running == {"running", "postflight"}
ClientInv ==
  /\ client.pc # "idle" \/ client.outcome # "none" => client.n \in Attempts
  /\ client.consent \/ setting.accept => client.accepted
  /\ Static(client.inv)
  /\ client.pc \in Preparing \cup Running => client.outcome = "none"
  /\ client.pc = "choice" => client.outcome # "ok"
  /\ client.pc \in Preparing => Current = NoAgent /\ (client.clean => client.inv = Inspect)
  /\ client.pc \in Running =>
       /\ Current.attached /\ Current.stage # "none" /\ Current.steps = PlanOf(client).steps
       /\ Current.packages = PlanOf(client).packages /\ PlanOf(client).blockers = {}
  /\ client.pc = "postflight" => Current.ok

\* What the command heard of its agent.
\* Unheard: the ends of steps on the way are in order, and with what was heard they are all there were.
Finishes(i) == wire[i].type = "done"
Heard(c, a) ==
  /\ Rising(c.completed) /\ ToSet(c.completed) \subseteq DoneBy(a)
  /\ Rising(c.pending) /\ ToSet(c.pending) = ToSet(a.steps) \ ToSet(c.completed)
Unheard(c, a) ==
  /\ \A i \in 1..Len(wire) : Finishes(i) =>
       /\ wire[i].step \in DoneBy(a)
       /\ \A s \in ToSet(c.completed) : Rank(s) < Rank(wire[i].step)
       /\ \A j \in 1..Len(wire) : j < i /\ Finishes(j) => Rank(wire[j].step) < Rank(wire[i].step)
  /\ ~c.missed => \A s \in DoneBy(a) : s \in ToSet(c.completed) \/ \E i \in 1..Len(wire) : Finishes(i) /\ wire[i].step = s
Exact(c, a) == a.attached /\ ~c.missed => DoneBy(a) \subseteq ToSet(c.completed)
ReportInv ==
  /\ client.pc \in Preparing => client.completed = <<>> /\ client.pending = <<>>
  /\ client.pc \in Running \/ client.outcome = "failed" => Heard(client, Current)
  /\ client.pc = "running" => Unheard(client, Current)
  /\ client.pc = "postflight" \/ client.outcome = "failed" => Exact(client, Current)

\* How far an attempt that nothing disturbed has come: what its steps have done to the host,
\* and what it found there.
Effects(h, done, packages) ==
  /\ "packages-repair" \in done => h.dpkg = "whole"
  /\ "packages-install" \in done => packages \subseteq h.tools
  /\ "pwntools-venv" \in done => h.python /\ h.pip
  /\ "pwntools-base" \in done => h.version = "pinned"
  /\ "pwndbg-install" \in done => h.current = "pinned"
  /\ "docker-group" \in done => h.group
\* What was healthy when the plan was made still is.
Keeps(h, inv, steps) ==
  /\ inv.tools \subseteq h.tools /\ (inv.group => h.group) /\ (inv.pwndbg => ActivePwndbg(h))
  /\ inv.version = "pinned" /\ "pwntools-venv" \notin steps => Version(h) = "pinned"
Failing(a) == a.stage = "ended" /\ ~a.ok
\* Such an attempt fails only where the python there is has no venv package, or at a host that
\* cannot be prepared.
CleanInv ==
  client.clean =>
    /\ client.pc \in Running /\ ~Failing(Current) =>
         Effects(host, DoneBy(Current), Current.packages) /\ Keeps(host, client.inv, ToSet(Current.steps))
    /\ client.pc = "running" /\ Failing(Current) => VenvStarved
    /\ client.outcome = "failed" => VenvStarved \/ ~Preparable
    /\ client.outcome = "ok" => OkayMeansReady /\ OkayMeansSettled

-----------------------------------------------------------------------------
(* One step of an agent changes that agent.                                *)

LEMMA Moved ==
  ASSUME TypedInv, NEW n \in Attempts, NEW stage \in {"next", "checking", "doing", "ended"}, NEW next \in Nat \ {0},
         NEW ok \in BOOLEAN, AgentBecomes(n, stage, next, ok)
  PROVE  /\ agents' \in [Attempts -> AgentStates]
         /\ \A k \in Attempts : k # n => agents'[k] = agents[k]
         /\ agents'[n].stage = stage /\ agents'[n].next = next /\ agents'[n].ok = ok
         /\ agents'[n].steps = agents[n].steps /\ agents'[n].packages = agents[n].packages
         /\ agents'[n].attached = agents[n].attached
<1> DEFINE b == [agents[n] EXCEPT !.stage = stage, !.next = next, !.ok = ok]
<1>1. agents[n] \in AgentStates BY DEF TypedInv
<1>2. /\ b \in AgentStates /\ b.stage = stage /\ b.next = next /\ b.ok = ok
      /\ b.steps = agents[n].steps /\ b.packages = agents[n].packages /\ b.attached = agents[n].attached
  BY <1>1 DEF AgentStates
<1>3. agents' = [agents EXCEPT ![n] = b] BY DEF AgentBecomes
<1> HIDE DEF b
<1>4. agents \in [Attempts -> AgentStates] BY DEF TypedInv
<1> QED BY <1>2, <1>3, <1>4

\* What an agent writes.
Tells(n) ==
  \/ UNCHANGED wire /\ (agents'[n].next = agents[n].next \/ ~agents[n].attached)
  \/ /\ agents[n].attached /\ agents'[n].next = agents[n].next /\ agents[n].next <= Len(agents[n].steps)
     /\ \E type \in {"start", "failed"} : wire' = Append(wire, [type |-> type, step |-> Step(n)])
  \/ /\ agents[n].attached /\ agents'[n].next = agents[n].next + 1 /\ agents[n].next <= Len(agents[n].steps)
     /\ wire' = Append(wire, [type |-> "done", step |-> Step(n)])

LEMMA AgentTells ==
  ASSUME TypedInv, NEW n \in Attempts, AgentInv(n), Agent(n)
  PROVE  Tells(n)
<1>1. agents[n] \in AgentStates /\ agents \in [Attempts -> AgentStates] BY DEF TypedInv
<1>2. CASE Authenticate(n)
  <2>1. UNCHANGED wire BY <1>2 DEF Authenticate
  <2>2. agents'[n].next = agents[n].next BY <1>1, <1>2 DEF Authenticate, AgentStates
  <2> QED BY <2>1, <2>2 DEF Tells
<1>3. CASE StepStarts(n)
  <2> DEFINE st == IF Step(n) = "pwntools-venv" THEN "checking" ELSE "doing"
  <2>1. agents' = [agents EXCEPT ![n].stage = st] BY <1>3 DEF StepStarts
  <2>2. agents'[n].next = agents[n].next
    <3> HIDE DEF st
    <3> QED BY <1>1, <2>1 DEF AgentStates
  <2>3. Emit(n, "start", Step(n)) /\ agents[n].next <= Len(agents[n].steps) BY <1>3 DEF StepStarts
  <2>4. agents[n].attached => wire' = Append(wire, [type |-> "start", step |-> Step(n)]) BY <2>3 DEF Emit
  <2>5. ~agents[n].attached => UNCHANGED wire BY <2>3 DEF Emit
  <2> QED BY <1>1, <2>2, <2>3, <2>4, <2>5 DEF Tells
<1>4. CASE VenvChecks(n)
  <2>1. CASE host.python /\ host.pip
    <3>1. agents' = [agents EXCEPT ![n].stage = "next", ![n].next = @ + 1] /\ Emit(n, "done", Step(n)) /\ agents[n].stage = "checking"
      BY <1>4, <2>1 DEF VenvChecks, Finished
    <3>2. agents'[n].next = agents[n].next + 1 BY <1>1, <3>1 DEF AgentStates
    <3>3. agents[n].next <= Len(agents[n].steps) BY <3>1 DEF AgentInv
    <3>4. agents[n].attached => wire' = Append(wire, [type |-> "done", step |-> Step(n)]) BY <3>1 DEF Emit
    <3>5. ~agents[n].attached => UNCHANGED wire BY <3>1 DEF Emit
    <3> QED BY <1>1, <3>2, <3>3, <3>4, <3>5 DEF Tells
  <2>2. CASE ~(host.python /\ host.pip)
    <3>1. agents' = [agents EXCEPT ![n].stage = "doing"] /\ UNCHANGED wire BY <1>4, <2>2 DEF VenvChecks
    <3>2. agents'[n].next = agents[n].next BY <1>1, <3>1 DEF AgentStates
    <3> QED BY <3>1, <3>2 DEF Tells
  <2> QED BY <2>1, <2>2
<1>5. CASE StepDone(n)
  <2>1. agents' = [agents EXCEPT ![n].stage = "next", ![n].next = @ + 1] /\ Emit(n, "done", Step(n)) /\ agents[n].stage = "doing"
    BY <1>5 DEF StepDone, Finished
  <2>2. agents'[n].next = agents[n].next + 1 BY <1>1, <2>1 DEF AgentStates
  <2>3. agents[n].next <= Len(agents[n].steps) BY <2>1 DEF AgentInv
  <2>4. agents[n].attached => wire' = Append(wire, [type |-> "done", step |-> Step(n)]) BY <2>1 DEF Emit
  <2>5. ~agents[n].attached => UNCHANGED wire BY <2>1 DEF Emit
  <2> QED BY <1>1, <2>2, <2>3, <2>4, <2>5 DEF Tells
<1>6. CASE StepFails(n)
  <2>1. agents' = [agents EXCEPT ![n].stage = "ended"] /\ Emit(n, "failed", Step(n)) /\ agents[n].stage = "doing" BY <1>6 DEF StepFails
  <2>2. agents'[n].next = agents[n].next BY <1>1, <2>1 DEF AgentStates
  <2>3. agents[n].next <= Len(agents[n].steps) BY <2>1 DEF AgentInv
  <2>4. agents[n].attached => wire' = Append(wire, [type |-> "failed", step |-> Step(n)]) BY <2>1 DEF Emit
  <2>5. ~agents[n].attached => UNCHANGED wire BY <2>1 DEF Emit
  <2> QED BY <1>1, <2>2, <2>3, <2>4, <2>5 DEF Tells
<1>7. CASE AgentEnds(n)
  <2>1. UNCHANGED wire BY <1>7 DEF AgentEnds
  <2>2. agents'[n].next = agents[n].next BY <1>1, <1>7 DEF AgentEnds, AgentStates
  <2> QED BY <2>1, <2>2 DEF Tells
<1>8. CASE HangUp(n)
  <2>1. UNCHANGED wire /\ ~agents[n].attached BY <1>8 DEF HangUp
  <2> QED BY <2>1 DEF Tells
<1> QED BY <1>2, <1>3, <1>4, <1>5, <1>6, <1>7, <1>8 DEF Agent

\* The step in progress is one of the plan's.
LEMMA StepIsPlanned ==
  ASSUME TypedInv, NEW n \in Attempts, agents[n].next <= Len(agents[n].steps)
  PROVE  /\ Step(n) \in StepNames /\ Step(n) \in ToSet(agents[n].steps) /\ agents[n].next \in 1..Len(agents[n].steps)
         /\ Step(n) = agents[n].steps[agents[n].next]
<1>1. agents[n].steps \in Seq(StepNames) /\ agents[n].next \in Nat \ {0} BY DEF TypedInv, AgentStates
<1>2. agents[n].next \in 1..Len(agents[n].steps) BY <1>1
<1>3. Step(n) = agents[n].steps[agents[n].next] BY DEF Step
<1>4. Step(n) \in ToSet(agents[n].steps) BY <1>1, <1>2, <1>3, InSet
<1> QED BY <1>1, <1>2, <1>3, <1>4

-----------------------------------------------------------------------------
(* What a step may do to the host, whether it ends or is interrupted.      *)

\* What a step in progress may make of the host.
HostMoves(h, g, step, packages) ==
  /\ g \in Host /\ h.tools \subseteq g.tools /\ (step # "packages-install" => g.tools = h.tools)
  /\ (h.group => g.group) /\ (step # "docker-group" => g.group = h.group)
  /\ (h.daemon => g.daemon) /\ (step \notin {"docker-enable", "docker-service"} => g.daemon = h.daemon)
  /\ (step \notin {"packages-install", "packages-repair"} => g.dpkg = h.dpkg)
  /\ (g.dpkg = "interrupted" => h.dpkg = "interrupted" \/ setting.manager = "apt")
  /\ (setting.manager # "apt" /\ step # "packages-repair" => g.dpkg = h.dpkg)
  /\ ((h.current = "pinned" => h.dest = "whole") => (g.current = "pinned" => g.dest = "whole"))

LEMMA SameMoves == ASSUME NEW h \in Host, NEW step, NEW packages PROVE HostMoves(h, h, step, packages)
  BY DEF HostMoves

LEMMA RemadeMoves == ASSUME NEW h \in Host, NEW step, NEW packages PROVE HostMoves(h, Remade(h), step, packages)
<1> DEFINE g == Remade(h)
<1>1. /\ g \in Host /\ g.tools = h.tools /\ g.group = h.group /\ g.daemon = h.daemon /\ g.dpkg = h.dpkg
      /\ g.current = h.current /\ g.dest = h.dest
  BY DEF Remade, Host
<1> HIDE DEF g
<1>2. HostMoves(h, g, step, packages) BY <1>1 DEF HostMoves, Host
<1> QED BY <1>2 DEF g

LEMMA PerformedMoves ==
  ASSUME NEW h \in Host, NEW step \in StepNames, NEW packages \in SUBSET Software
  PROVE  HostMoves(h, Performed(step, packages, h), step, packages)
<1>1. CASE step = "packages-install"
  <2> PICK g : g = [h EXCEPT !.tools = @ \cup packages] OBVIOUS
  <2>1. Performed(step, packages, h) = g BY <1>1 DEF Performed
  <2>2. g \in Host /\ g.tools = h.tools \cup packages /\ g.group = h.group /\ g.daemon = h.daemon /\ g.dpkg = h.dpkg
        /\ g.current = h.current /\ g.dest = h.dest
    BY DEF Host
  <2> QED BY <1>1, <2>1, <2>2 DEF HostMoves
<1>2. CASE step = "packages-repair"
  <2> PICK g : g = [h EXCEPT !.dpkg = "whole"] OBVIOUS
  <2>1. Performed(step, packages, h) = g BY <1>2 DEF Performed
  <2>2. g \in Host /\ g.tools = h.tools /\ g.group = h.group /\ g.daemon = h.daemon /\ g.dpkg = "whole"
        /\ g.current = h.current /\ g.dest = h.dest
    BY DEF Host
  <2> QED BY <1>2, <2>1, <2>2 DEF HostMoves
<1>3. CASE step \in {"pwntools-venv", "pwntools-base", "pip-check"}
  <2> PICK g : g = Performed(step, packages, h) OBVIOUS
  <2>1. g \in Host /\ g.tools = h.tools /\ g.group = h.group /\ g.daemon = h.daemon /\ g.dpkg = h.dpkg
        /\ g.current = h.current /\ g.dest = h.dest
    <3>1. CASE step = "pwntools-venv"
      <4>1. g = [h EXCEPT !.python = TRUE, !.pip = TRUE] BY <3>1 DEF Performed
      <4> QED BY <4>1 DEF Host
    <3>2. CASE step = "pwntools-base"
      <4>1. g = [h EXCEPT !.version = "pinned", !.pip = TRUE, !.checked = FALSE] BY <3>2 DEF Performed
      <4> QED BY <4>1 DEF Host
    <3>3. CASE step = "pip-check"
      <4>1. g = [h EXCEPT !.checked = TRUE] BY <3>3 DEF Performed
      <4> QED BY <4>1 DEF Host
    <3> QED BY <1>3, <3>1, <3>2, <3>3
  <2> QED BY <1>3, <2>1 DEF HostMoves
<1>4. CASE step = "pwndbg-install"
  <2> PICK g : g = [h EXCEPT !.dest = "whole", !.current = "pinned", !.wrapper = TRUE] OBVIOUS
  <2>1. Performed(step, packages, h) = g BY <1>4 DEF Performed
  <2>2. g \in Host /\ g.tools = h.tools /\ g.group = h.group /\ g.daemon = h.daemon /\ g.dpkg = h.dpkg /\ g.dest = "whole"
    BY DEF Host
  <2> QED BY <1>4, <2>1, <2>2 DEF HostMoves
<1>5. CASE step \in {"docker-enable", "docker-service"}
  <2> PICK g : g = [h EXCEPT !.daemon = TRUE] OBVIOUS
  <2>1. Performed(step, packages, h) = g BY <1>5 DEF Performed
  <2>2. g \in Host /\ g.tools = h.tools /\ g.group = h.group /\ g.daemon = TRUE /\ g.dpkg = h.dpkg
        /\ g.current = h.current /\ g.dest = h.dest
    BY DEF Host
  <2> QED BY <1>5, <2>1, <2>2 DEF HostMoves
<1>6. CASE step = "docker-group"
  <2> PICK g : g = [h EXCEPT !.group = TRUE] OBVIOUS
  <2>1. Performed(step, packages, h) = g BY <1>6 DEF Performed
  <2>2. g \in Host /\ g.tools = h.tools /\ g.group = TRUE /\ g.daemon = h.daemon /\ g.dpkg = h.dpkg
        /\ g.current = h.current /\ g.dest = h.dest
    BY DEF Host
  <2> QED BY <1>6, <2>1, <2>2 DEF HostMoves
<1>7. CASE step \in {"packages-refresh", "pip-extra", "pwntools-verify"}
  <2>1. Performed(step, packages, h) = h BY <1>7 DEF Performed
  <2> QED BY <2>1, SameMoves
<1> QED BY <1>1, <1>2, <1>3, <1>4, <1>5, <1>6, <1>7 DEF StepNames

LEMMA BegunMoves ==
  ASSUME setting \in Settings, NEW h \in Host, NEW step \in StepNames, NEW packages \in SUBSET Software,
         NEW g \in Begun(step, packages, h)
  PROVE  HostMoves(h, g, step, packages)
<1>1. CASE step = "packages-install"
  <2>1. g \in PartlyInstalled(packages, h) BY <1>1 DEF Begun
  <2> PICK databases : databases = IF setting.manager = "apt" THEN {"whole", "interrupted"} ELSE {h.dpkg} OBVIOUS
  <2>1a. g \in UNION {{[h EXCEPT !.tools = @ \cup some, !.dpkg = d] : some \in SUBSET packages} : d \in databases}
    BY <2>1 DEF PartlyInstalled
  <2>1b. PICK e \in databases : g \in {[h EXCEPT !.tools = @ \cup some, !.dpkg = e] : some \in SUBSET packages} BY <2>1a
  <2>2. PICK some \in SUBSET packages : g = [h EXCEPT !.tools = @ \cup some, !.dpkg = e] BY <2>1b
  <2>3. g = [h EXCEPT !.tools = h.tools \cup some, !.dpkg = e] BY <2>2 DEF Host
  <2>4. e \in {"whole", "interrupted"} /\ (setting.manager # "apt" => e = h.dpkg) BY DEF Host
  <2>5. g \in Host /\ g.tools = h.tools \cup some /\ g.group = h.group /\ g.daemon = h.daemon /\ g.dpkg = e
        /\ g.current = h.current /\ g.dest = h.dest
    BY <2>3, <2>4 DEF Host
  <2> QED BY <1>1, <2>4, <2>5 DEF HostMoves
<1>2. CASE step = "pwntools-venv"
  <2>1. g = h \/ g = [h EXCEPT !.python = TRUE] BY <1>2 DEF Begun
  <2>2. g \in Host /\ g.tools = h.tools /\ g.group = h.group /\ g.daemon = h.daemon /\ g.dpkg = h.dpkg
        /\ g.current = h.current /\ g.dest = h.dest
    BY <2>1 DEF Host
  <2> QED BY <1>2, <2>2 DEF HostMoves
<1>3. CASE step = "pwntools-base"
  <2>1. \/ g = h \/ g = [h EXCEPT !.pip = FALSE, !.checked = FALSE] \/ g = [h EXCEPT !.version = "none", !.checked = FALSE]
        \/ g = [h EXCEPT !.version = "pinned", !.checked = FALSE]
    BY <1>3 DEF Begun
  <2>2. g \in Host /\ g.tools = h.tools /\ g.group = h.group /\ g.daemon = h.daemon /\ g.dpkg = h.dpkg
        /\ g.current = h.current /\ g.dest = h.dest
    BY <2>1 DEF Host
  <2> QED BY <1>3, <2>2 DEF HostMoves
<1>4. CASE step = "pwndbg-install"
  <2>1. PICK cleared : cleared = [h EXCEPT !.dest = IF @ = "broken" THEN "none" ELSE @] OBVIOUS
  <2>2. PICK moved : moved = [h EXCEPT !.dest = "whole"] OBVIOUS
  <2>3. PICK linked : linked = [moved EXCEPT !.current = "pinned"] OBVIOUS
  <2>4. g \in {h, cleared, moved, linked} BY <1>4, <2>1, <2>2, <2>3 DEF Begun
  <2>5. PICK e : e = IF h.dest = "broken" THEN "none" ELSE h.dest OBVIOUS
  <2>6. cleared = [h EXCEPT !.dest = e] BY <2>1, <2>5 DEF Host
  <2>7. e \in {"none", "broken", "whole"} /\ (h.dest = "whole" => e = "whole") BY <2>5 DEF Host
  <2>8. CASE g = h BY <2>8, SameMoves
  <2>9. CASE g = cleared
    <3>1. g \in Host /\ g.tools = h.tools /\ g.group = h.group /\ g.daemon = h.daemon /\ g.dpkg = h.dpkg
          /\ g.current = h.current /\ g.dest = e
      BY <2>6, <2>7, <2>9 DEF Host
    <3> QED BY <1>4, <2>7, <3>1 DEF HostMoves
  <2>10. CASE g = moved
    <3>1. g \in Host /\ g.tools = h.tools /\ g.group = h.group /\ g.daemon = h.daemon /\ g.dpkg = h.dpkg /\ g.dest = "whole"
      BY <2>2, <2>10 DEF Host
    <3> QED BY <1>4, <3>1 DEF HostMoves
  <2>11. CASE g = linked
    <3>1. g \in Host /\ g.tools = h.tools /\ g.group = h.group /\ g.daemon = h.daemon /\ g.dpkg = h.dpkg /\ g.dest = "whole"
      BY <2>2, <2>3, <2>11 DEF Host
    <3> QED BY <1>4, <3>1 DEF HostMoves
  <2> QED BY <2>4, <2>8, <2>9, <2>10, <2>11
<1>5. CASE step \notin {"packages-install", "pwntools-venv", "pwntools-base", "pwndbg-install"}
  <2> PICK done : done = Performed(step, packages, h) OBVIOUS
  <2>0. Begun(step, packages, h) = {h, done} BY <1>5 DEF Begun
  <2>1. g = h \/ g = Performed(step, packages, h) BY <2>0
  <2> QED BY <2>1, SameMoves, PerformedMoves
<1> QED BY <1>1, <1>2, <1>3, <1>4, <1>5

\* A step of an agent moves the host by the step in progress, and hears nothing but blame.
LEMMA AgentMoves ==
  ASSUME TypedInv, NEW n \in Attempts, AgentInv(n), NEW stage, NEW next, NEW ok, Acts(n, stage, next, ok)
  PROVE  /\ \/ host' = host
            \/ agents[n].stage \in {"checking", "doing"} /\ HostMoves(host, host', Step(n), agents[n].packages)
         /\ host' \in Host /\ setting' = setting
         /\ client' = client \/ client' = Blamed(client)
<1>1. host \in Host /\ setting \in Settings BY DEF TypedInv
<1>2. agents[n].packages \in SUBSET Software BY DEF TypedInv, AgentStates
<1>3. agents[n].stage \in {"checking", "doing"} => Step(n) \in StepNames BY StepIsPlanned DEF AgentInv
<1>4. \/ host' = host
      \/ agents[n].stage = "checking" /\ host' = Remade(host)
      \/ agents[n].stage = "doing" /\ host' = Performed(Step(n), agents[n].packages, host)
      \/ agents[n].stage = "doing" /\ host' \in Begun(Step(n), agents[n].packages, host)
  BY DEF Acts
<1>5. \/ host' = host
      \/ agents[n].stage \in {"checking", "doing"} /\ HostMoves(host, host', Step(n), agents[n].packages)
  BY <1>1, <1>2, <1>3, <1>4, RemadeMoves, PerformedMoves, BegunMoves
<1>6. setting' = setting /\ (client' = client \/ client' = Blamed(client)) BY DEF Acts
<1> QED BY <1>1, <1>5, <1>6 DEF HostMoves

LEMMA BlamedTyped ==
  ASSUME TypedInv
  PROVE  /\ Blamed(client) \in ClientStates /\ Blamed(client).clean = FALSE
         /\ Blamed(client).pc = client.pc /\ Blamed(client).n = client.n /\ Blamed(client).inv = client.inv
         /\ Blamed(client).consent = client.consent /\ Blamed(client).accepted = client.accepted
         /\ Blamed(client).completed = client.completed /\ Blamed(client).pending = client.pending
         /\ Blamed(client).missed = client.missed /\ Blamed(client).outcome = client.outcome
         /\ Blamed(client).mode = client.mode
  BY DEF Blamed, TypedInv, ClientStates

-----------------------------------------------------------------------------
(* A step of an agent keeps who it is, what it may do and the host.        *)

\* Where the agents and the command stand, and what the host owes them.
ControlInv == TypedInv /\ (\A n \in Attempts : AgentInv(n)) /\ HostInv /\ ClientInv

LEMMA TailTyped == ASSUME NEW S, NEW s \in Seq(S), s # <<>> PROVE Tail(s) \in Seq(S) /\ Head(s) \in S
  BY HeadTailProperties

LEMMA TellsTyped ==
  ASSUME TypedInv, NEW n \in Attempts, Tells(n)
  PROVE  wire' \in Seq(Events)
<1>1. wire \in Seq(Events) BY DEF TypedInv
<1>2. CASE UNCHANGED wire BY <1>1, <1>2
<1>3. CASE agents[n].next <= Len(agents[n].steps) /\ \E type \in {"start", "failed", "done"} :
             wire' = Append(wire, [type |-> type, step |-> Step(n)])
  <2>1. PICK type \in {"start", "failed", "done"} : wire' = Append(wire, [type |-> type, step |-> Step(n)]) BY <1>3
  <2>2. Step(n) \in StepNames BY <1>3, StepIsPlanned
  <2>3. [type |-> type, step |-> Step(n)] \in Events BY <2>2 DEF Events
  <2> QED BY <1>1, <2>1, <2>3
<1> QED BY <1>2, <1>3 DEF Tells

LEMMA AgentTyped ==
  ASSUME TypedInv, NEW n \in Attempts, AgentInv(n), Agent(n), budget' \in 0..setting.limit
  PROVE  TypedInv'
<1>1. PICK stage \in {"next", "checking", "doing", "ended"}, next \in Nat \ {0}, ok \in BOOLEAN :
        AgentBecomes(n, stage, next, ok) /\ Acts(n, stage, next, ok)
  BY AgentActs
<1>2. agents' \in [Attempts -> AgentStates] BY <1>1, Moved
<1>3. host' \in Host /\ setting' = setting /\ (client' = client \/ client' = Blamed(client)) BY <1>1, AgentMoves
<1>4. client' \in ClientStates BY <1>3, BlamedTyped DEF TypedInv
<1>5. wire' \in Seq(Events) BY AgentTells, TellsTyped
<1>6. budget' \in 0..(setting.limit)' BY <1>3
<1> QED BY <1>2, <1>3, <1>4, <1>5, <1>6 DEF TypedInv

LEMMA Budgets ==
  ASSUME TypedInv, Next
  PROVE  budget' \in 0..setting.limit
<1>1. setting.limit \in Nat /\ budget \in 0..setting.limit BY SettingFacts DEF TypedInv
<1>2. budget' = budget \/ Spend
  <2>1. CASE Begin \/ Retry \/ Leave \/ Over BY <2>1 DEF Begin, Retry, Leave, Over, vars
  <2>2. CASE Command
    BY <2>2 DEF Command, Confirm, Deploy, ApplyRefused, ApplyNothing, Apply, Follow, Returned, Sever, Postflight
  <2>3. ASSUME NEW n \in Attempts, Agent(n) PROVE budget' = budget \/ Spend
    <3>1. CASE Authenticate(n) \/ StepStarts(n) \/ AgentEnds(n) \/ HangUp(n)
      BY <3>1 DEF Authenticate, StepStarts, AgentEnds, HangUp
    <3>2. CASE VenvChecks(n) \/ StepDone(n) \/ StepFails(n) BY <3>2 DEF VenvChecks, StepDone, StepFails
    <3> QED BY <2>3, <3>1, <3>2 DEF Agent
  <2> QED BY <2>1, <2>2, <2>3 DEF Next
<1> QED BY <1>1, <1>2 DEF Spend

\* What is done grows by the step that ends.
LEMMA DoneGrows ==
  ASSUME NEW a \in AgentStates, NEW b \in AgentStates, b.steps = a.steps, b.next = a.next + 1
  PROVE  DoneBy(b) = DoneBy(a) \cup {a.steps[a.next]}
<1>1. a.next \in Nat \ {0} BY DEF AgentStates
<1>2. 1..(b.next - 1) = (1..(a.next - 1)) \cup {a.next} BY <1>1
<1> QED BY <1>2 DEF DoneBy

LEMMA DoneSame == ASSUME NEW a, NEW b, b.steps = a.steps, b.next = a.next PROVE DoneBy(b) = DoneBy(a)
  BY DEF DoneBy

\* The steps before the one in progress are done.
LEMMA EarlierDone ==
  ASSUME NEW a \in AgentStates, Rising(a.steps), a.next <= Len(a.steps), NEW s \in ToSet(a.steps),
         Rank(s) < Rank(a.steps[a.next])
  PROVE  s \in DoneBy(a)
<1>1. a.steps \in Seq(StepNames) /\ a.next \in Nat \ {0} BY DEF AgentStates
<1>2. PICK i \in 1..Len(a.steps) : s = a.steps[i] BY <1>1, OfSet
<1>3. a.steps[i] \in StepNames /\ a.steps[a.next] \in StepNames BY <1>1
<1>4. Rank(a.steps[i]) \in Int /\ Rank(a.steps[a.next]) \in Int BY <1>3, RankTyped
<1>5. ~(a.next < i) /\ i # a.next BY <1>1, <1>2, <1>4 DEF Rising
<1>6. i \in 1..(a.next - 1) BY <1>1, <1>5
<1> QED BY <1>2, <1>6 DEF DoneBy

LEMMA DoneOnlySteps ==
  ASSUME NEW a \in AgentStates, a.next <= Len(a.steps) + 1
  PROVE  DoneBy(a) \subseteq ToSet(a.steps)
<1>1. a.steps \in Seq(StepNames) /\ a.next \in Nat \ {0} BY DEF AgentStates
<1>2. \A i \in 1..(a.next - 1) : i \in 1..Len(a.steps) BY <1>1
<1> QED BY <1>1, <1>2, InSet DEF DoneBy

LEMMA AgentKeepsHost ==
  ASSUME ControlInv, NEW n \in Attempts, Agent(n)
  PROVE  HostInv' /\ (host.daemon => host'.daemon)
<1>1. PICK stage \in {"next", "checking", "doing", "ended"}, next \in Nat \ {0}, ok \in BOOLEAN :
        AgentBecomes(n, stage, next, ok) /\ Acts(n, stage, next, ok)
  BY AgentActs DEF ControlInv
<1>2. /\ \/ host' = host
         \/ agents[n].stage \in {"checking", "doing"} /\ HostMoves(host, host', Step(n), agents[n].packages)
      /\ host' \in Host /\ setting' = setting /\ (client' = client \/ client' = Blamed(client))
  BY <1>1, AgentMoves DEF ControlInv
<1>3. client'.accepted = client.accepted BY <1>2, BlamedTyped DEF ControlInv
<1>4. CASE host' = host
  BY <1>2, <1>3, <1>4 DEF ControlInv, HostInv, ActivePwndbgWorks, UserOwnedOnly
<1>5. CASE agents[n].stage \in {"checking", "doing"} /\ HostMoves(host, host', Step(n), agents[n].packages)
  <2>1. agents[n].next <= Len(agents[n].steps) /\ LegalPlan(agents[n]) BY <1>5 DEF ControlInv, AgentInv
  <2>2. TypedInv BY DEF ControlInv
  <2>3. Step(n) \in StepNames /\ Step(n) \in ToSet(agents[n].steps) /\ Step(n) = agents[n].steps[agents[n].next]
    BY <2>1, <2>2, StepIsPlanned
  <2>4. setting.noSudo => ~Sudo(Step(n), setting.manager) BY <2>1, <2>3 DEF LegalPlan
  <2>5. Step(n) = "docker-group" => client.accepted /\ host.daemon
    <3>1. HAVE Step(n) = "docker-group"
    <3>2. client.accepted /\ "docker-service" \in ToSet(agents[n].steps) BY <2>1, <2>3, <3>1 DEF LegalPlan
    <3>3. Rank("docker-service") < Rank(agents[n].steps[agents[n].next]) BY <2>3, <3>1, Places
    <3>4. agents[n] \in AgentStates /\ Rising(agents[n].steps) BY <2>1, <2>2 DEF TypedInv, LegalPlan, Within
    <3>5. "docker-service" \in DoneBy(agents[n]) BY <2>1, <3>2, <3>3, <3>4, EarlierDone
    <3> QED BY <3>2, <3>5 DEF ControlInv, AgentInv
  <2>6. HostInv BY DEF ControlInv
  <2>7. ActivePwndbgWorks' BY <1>5, <2>6 DEF HostInv, ActivePwndbgWorks, HostMoves
  <2>8. UserOwnedOnly'
    <3>1. SUFFICES ASSUME setting'.noSudo
                   PROVE  /\ host'.daemon = setting'.start.daemon /\ host'.group = setting'.start.group
                          /\ host'.dpkg = setting'.start.dpkg
                          /\ setting'.manager # "nix" => host'.tools = setting'.start.tools
      BY DEF UserOwnedOnly
    <3>2. setting.noSudo BY <1>2, <3>1
    <3>3. Step(n) \notin {"packages-repair", "packages-refresh", "docker-enable", "docker-service", "docker-group"}
          /\ (Step(n) = "packages-install" => setting.manager = "nix")
      BY <2>4, <3>2 DEF Sudo
    <3>4. host'.daemon = host.daemon /\ host'.group = host.group /\ host'.dpkg = host.dpkg BY <1>5, <3>3 DEF HostMoves
    <3>5. setting.manager # "nix" => host'.tools = host.tools BY <1>5, <3>3 DEF HostMoves
    <3>6. /\ host.daemon = setting.start.daemon /\ host.group = setting.start.group /\ host.dpkg = setting.start.dpkg
          /\ setting.manager # "nix" => host.tools = setting.start.tools
      BY <2>6, <3>2 DEF HostInv, UserOwnedOnly
    <3> QED BY <1>2, <3>4, <3>5, <3>6
  <2>9. host'.dpkg = "interrupted" => setting'.manager = "apt" BY <1>2, <1>5, <2>6 DEF HostInv, HostMoves
  <2>10. host.daemon => host'.daemon BY <1>5 DEF HostMoves
  <2>11. host'.group /\ ~setting'.start.group => client'.accepted /\ host'.daemon
    <3>1. CASE Step(n) = "docker-group" BY <1>3, <2>5, <2>10, <3>1
    <3>2. CASE Step(n) # "docker-group"
      <4>1. host'.group = host.group BY <1>5, <3>2 DEF HostMoves
      <4> QED BY <1>2, <1>3, <2>6, <2>10, <4>1 DEF HostInv
    <3> QED BY <3>1, <3>2
  <2>12. (setting'.start.group => host'.group) /\ setting'.start.tools \subseteq host'.tools
    BY <1>2, <1>5, <2>6 DEF HostInv, HostMoves
  <2> QED BY <2>7, <2>8, <2>9, <2>10, <2>11, <2>12 DEF HostInv
<1> QED BY <1>2, <1>4, <1>5

-----------------------------------------------------------------------------
(* A step of an agent keeps where the agents and the command are.          *)

\* The plan is a function of what the command knows.
LEMMA PlanSame ==
  ASSUME setting' = setting, NEW c, NEW d, d.inv = c.inv, d.consent = c.consent
  PROVE  Recipe' = Recipe /\ BuildPlan(d.inv, Recipe', [noSudo |-> setting'.noSudo, accept |-> d.consent]) = PlanOf(c)
<1>1. Recipe' = Recipe BY DEF Recipe
<1> QED BY <1>1 DEF PlanOf, Options

LEMMA ClientPlanSame ==
  ASSUME setting' = setting, client'.inv = client.inv, client'.consent = client.consent
  PROVE  PlanOf(client)' = PlanOf(client)
<1>1. BuildPlan(client'.inv, Recipe', [noSudo |-> setting'.noSudo, accept |-> client'.consent]) = PlanOf(client) BY PlanSame
<1>2. PlanOf(client)' = BuildPlan(client'.inv, Recipe', [noSudo |-> setting'.noSudo, accept |-> client'.consent])
  BY DEF PlanOf, Options
<1> QED BY <1>1, <1>2

LEMMA LegalKept ==
  ASSUME NEW a, NEW b, b.steps = a.steps, LegalPlan(a), setting' = setting, client.accepted => client'.accepted
  PROVE  /\ Within(b.steps, 1, 12)
         /\ setting'.noSudo => \A s \in ToSet(b.steps) : ~Sudo(s, setting'.manager)
         /\ "docker-group" \in ToSet(b.steps) => client'.accepted /\ "docker-service" \in ToSet(b.steps)
  BY DEF LegalPlan

\* An agent that does not move, while the command is where it was or gives up on an agent that has ended.
LEMMA StillAgent ==
  ASSUME NEW n \in Attempts, AgentInv(n), agents'[n] = agents[n], setting' = setting, client.accepted => client'.accepted,
         host.daemon => host'.daemon, n > client'.n => n > client.n,
         Idle(agents[n]) \/ (client'.n = client.n /\ client'.pc = client.pc /\ (client'.clean => client.clean))
  PROVE  AgentInv(n)'
<1> PICK a : a = agents[n] OBVIOUS
<1> PICK b : b = agents'[n] OBVIOUS
<1>1. b = a OBVIOUS
<1>2. LegalPlan(agents[n])'
  <2>1. LegalPlan(a) BY DEF AgentInv
  <2>2. b.steps = a.steps BY <1>1
  <2> QED BY <2>1, <2>2, LegalKept DEF LegalPlan
<1>3. b.next <= Len(b.steps) + 1 /\ (b.stage \in {"checking", "doing"} => b.next <= Len(b.steps))
      /\ (b.ok => b.stage = "ended" /\ b.next = Len(b.steps) + 1)
  BY <1>1 DEF AgentInv
<1>4. b.stage = "checking" => Step(n)' = "pwntools-venv" BY <1>1 DEF AgentInv, Step
<1>5. ~(b.stage \in {"none", "ended"}) /\ (b.attached \/ client'.clean) => n = client'.n /\ client'.pc = "running"
  BY <1>1 DEF AgentInv, Idle
<1>6. n > client'.n => b = NoAgent BY <1>1 DEF AgentInv
<1>7. "docker-service" \in DoneBy(b) => host'.daemon BY <1>1 DEF AgentInv
<1> QED BY <1>2, <1>3, <1>4, <1>5, <1>6, <1>7 DEF AgentInv, Idle, NoAgent, DoneBy

LEMMA AgentKeepsAgents ==
  ASSUME ControlInv, NEW n \in Attempts, Agent(n), TypedInv'
  PROVE  \A k \in Attempts : AgentInv(k)'
<1>1. PICK stage \in {"next", "checking", "doing", "ended"}, next \in Nat \ {0}, ok \in BOOLEAN :
        AgentBecomes(n, stage, next, ok) /\ Acts(n, stage, next, ok)
  BY AgentActs DEF ControlInv
<1>2. /\ \/ host' = host
         \/ agents[n].stage \in {"checking", "doing"} /\ HostMoves(host, host', Step(n), agents[n].packages)
      /\ host' \in Host /\ setting' = setting /\ (client' = client \/ client' = Blamed(client))
  BY <1>1, AgentMoves DEF ControlInv
<1>3. /\ client'.n = client.n /\ client'.pc = client.pc /\ client'.accepted = client.accepted /\ (client'.clean => client.clean)
  BY <1>2, BlamedTyped DEF ControlInv
<1>4. host.daemon => host'.daemon BY AgentKeepsHost
<1>5. /\ \A k \in Attempts : k # n => agents'[k] = agents[k]
      /\ agents'[n].stage = stage /\ agents'[n].next = next /\ agents'[n].ok = ok
      /\ agents'[n].steps = agents[n].steps /\ agents'[n].packages = agents[n].packages
      /\ agents'[n].attached = agents[n].attached
  BY <1>1, Moved DEF ControlInv
<1>6. ASSUME NEW k \in Attempts, k # n PROVE AgentInv(k)'
  <2>1. AgentInv(k) /\ agents'[k] = agents[k] BY <1>5, <1>6 DEF ControlInv
  <2>2. k > client'.n => k > client.n BY <1>3
  <2> QED BY <1>2, <1>3, <1>4, <2>1, <2>2, StillAgent
<1>7. AgentInv(n)'
  <2> PICK a \in AgentStates : a = agents[n] BY DEF ControlInv, TypedInv
  <2> PICK b \in AgentStates : b = agents'[n] BY DEF TypedInv
  <2>1. /\ b.stage = stage /\ b.next = next /\ b.ok = ok /\ b.steps = a.steps /\ b.attached = a.attached BY <1>5
  <2>2. /\ LegalPlan(a) /\ a.next <= Len(a.steps) + 1
        /\ a.stage \in {"checking", "doing"} => a.next <= Len(a.steps)
        /\ a.ok => a.stage = "ended" /\ a.next = Len(a.steps) + 1
        /\ ~Idle(a) /\ (a.attached \/ client.clean) => n = client.n /\ client.pc = "running"
        /\ n > client.n => a = NoAgent
        /\ "docker-service" \in DoneBy(a) => host.daemon
    BY DEF ControlInv, AgentInv
  <2>3. ~Idle(a) BY <1>1 DEF Acts
  <2>4. a.next \in Nat \ {0} /\ Len(a.steps) \in Nat BY DEF AgentStates
  <2>5. LegalPlan(agents[n])' BY <1>2, <1>3, <2>1, <2>2, LegalKept DEF LegalPlan
  <2>6. /\ \/ next = a.next
           \/ a.stage \in {"checking", "doing"} /\ next = a.next + 1 /\ stage = "next"
        /\ stage \in {"checking", "doing"} => next = a.next /\ a.next <= Len(a.steps)
        /\ ok = a.ok \/ (a.stage = "next" /\ a.next > Len(a.steps) /\ stage = "ended" /\ next = a.next)
    BY <1>1, <2>2 DEF Acts
  <2>7. b.next <= Len(b.steps) + 1 BY <2>1, <2>2, <2>4, <2>6
  <2>8. b.stage \in {"checking", "doing"} => b.next <= Len(b.steps) BY <2>1, <2>6
  <2>9. b.stage = "checking" => Step(n)' = "pwntools-venv"
    <3>1. HAVE b.stage = "checking"
    <3>2. Step(n) = "pwntools-venv" /\ next = a.next BY <1>1, <2>1, <3>1 DEF Acts
    <3>3. Step(n)' = b.steps[b.next] BY DEF Step
    <3>4. Step(n) = a.steps[a.next] BY DEF Step
    <3> QED BY <2>1, <3>2, <3>3, <3>4
  <2>10. b.ok => b.stage = "ended" /\ b.next = Len(b.steps) + 1
    <3>1. CASE ok = a.ok BY <2>1, <2>2, <2>3, <3>1 DEF Idle
    <3>2. CASE a.stage = "next" /\ a.next > Len(a.steps) /\ stage = "ended" /\ next = a.next BY <2>1, <2>2, <2>4, <3>2
    <3> QED BY <2>6, <3>1, <3>2
  <2>11. b.attached \/ client'.clean => n = client'.n /\ client'.pc = "running" BY <1>3, <2>1, <2>2, <2>3
  <2>12. ~(n > client'.n)
    <3>1. a # NoAgent BY <2>3 DEF NoAgent, Idle
    <3> QED BY <1>3, <2>2, <3>1
  <2>13. "docker-service" \in DoneBy(b) => host'.daemon
    <3>1. CASE next = a.next
      <4>1. DoneBy(b) = DoneBy(a) BY <2>1, <3>1, DoneSame
      <4> QED BY <1>4, <2>2, <4>1
    <3>2. CASE a.stage \in {"checking", "doing"} /\ next = a.next + 1 /\ stage = "next"
      <4>1. DoneBy(b) = DoneBy(a) \cup {a.steps[a.next]} BY <2>1, <3>2, DoneGrows
      <4>2. a.steps[a.next] = Step(n) BY DEF Step
      <4>3. CASE Step(n) # "docker-service" BY <1>4, <2>2, <4>1, <4>2, <4>3
      <4>4. CASE Step(n) = "docker-service"
        <5>1. a.stage = "doing" BY <3>2, <4>4 DEF ControlInv, AgentInv
        <5>2. host' = Performed(Step(n), a.packages, host) BY <1>1, <3>2, <5>1 DEF Acts
        <5>3. host' = [host EXCEPT !.daemon = TRUE] BY <4>4, <5>2 DEF Performed
        <5> QED BY <5>3 DEF Host, ControlInv, TypedInv
      <4> QED BY <4>3, <4>4
    <3> QED BY <2>6, <3>1, <3>2
  <2> QED BY <2>5, <2>7, <2>8, <2>9, <2>10, <2>11, <2>12, <2>13 DEF AgentInv, DoneBy
<1> QED BY <1>6, <1>7

LEMMA AgentKeepsClient ==
  ASSUME ControlInv, NEW n \in Attempts, Agent(n)
  PROVE  ClientInv'
<1>1. PICK stage \in {"next", "checking", "doing", "ended"}, next \in Nat \ {0}, ok \in BOOLEAN :
        AgentBecomes(n, stage, next, ok) /\ Acts(n, stage, next, ok)
  BY AgentActs DEF ControlInv
<1>2. setting' = setting /\ (client' = client \/ client' = Blamed(client)) BY <1>1, AgentMoves DEF ControlInv
<1>3. /\ client'.n = client.n /\ client'.pc = client.pc /\ client'.accepted = client.accepted /\ (client'.clean => client.clean)
      /\ client'.outcome = client.outcome /\ client'.consent = client.consent /\ client'.inv = client.inv
  BY <1>2, BlamedTyped DEF ControlInv
<1>4. /\ \A k \in Attempts : k # n => agents'[k] = agents[k]
      /\ agents'[n].stage = stage
      /\ agents'[n].steps = agents[n].steps /\ agents'[n].packages = agents[n].packages
      /\ agents'[n].attached = agents[n].attached
  BY <1>1, Moved DEF ControlInv
<1>5. ClientInv /\ ~Idle(agents[n]) BY <1>1 DEF ControlInv, Acts
<1>6. Static(client.inv)' BY <1>2, <1>3, <1>5 DEF ClientInv, Static
<1>7. client.pc \in Preparing => Current' = NoAgent /\ ~client'.clean
  <2>1. HAVE client.pc \in Preparing
  <2>2. client.n \in Attempts /\ Current = NoAgent BY <1>5, <2>1 DEF ClientInv, Preparing
  <2>3. client.n # n BY <1>5, <2>2 DEF Current, NoAgent, Idle
  <2>4. Current' = NoAgent BY <1>3, <1>4, <2>2, <2>3 DEF Current
  <2>5. ~client.clean BY <1>5, <2>1 DEF ControlInv, AgentInv, Preparing
  <2> QED BY <1>3, <2>4, <2>5
<1>8. client.pc \in Running =>
        /\ Current'.attached = Current.attached /\ Current'.steps = Current.steps /\ Current'.packages = Current.packages
        /\ Current'.stage # "none" /\ (client.pc = "postflight" => Current'.ok)
  <2>1. HAVE client.pc \in Running
  <2>2. client.n \in Attempts /\ Current.stage # "none" /\ (client.pc = "postflight" => Current.ok)
    BY <1>5, <2>1 DEF ClientInv, Running
  <2>3. CASE client.n = n
    <3>1. client.pc # "postflight" BY <1>5, <2>2, <2>3 DEF Current, ControlInv, AgentInv, Idle
    <3> QED BY <1>3, <1>4, <2>3, <3>1 DEF Current
  <2>4. CASE client.n # n
    <3>1. Current' = Current BY <1>3, <1>4, <2>2, <2>4 DEF Current
    <3> QED BY <2>2, <3>1
  <2> QED BY <2>3, <2>4
<1>9. PlanOf(client)' = PlanOf(client) BY <1>2, <1>3, ClientPlanSame
<1>10. client'.pc \in Preparing => Current' = NoAgent /\ (client'.clean => client'.inv = Inspect') BY <1>3, <1>7
<1>11. client'.pc \in Running =>
         /\ Current'.attached /\ Current'.stage # "none" /\ Current'.steps = PlanOf(client)'.steps
         /\ Current'.packages = PlanOf(client)'.packages /\ PlanOf(client)'.blockers = {}
  BY <1>3, <1>5, <1>8, <1>9 DEF ClientInv
<1>12. client'.pc = "postflight" => Current'.ok BY <1>3, <1>8 DEF Running
<1> QED BY <1>2, <1>3, <1>5, <1>6, <1>10, <1>11, <1>12 DEF ClientInv

-----------------------------------------------------------------------------
(* A step of the command keeps them as well.                               *)

\* Nothing but the command has moved, and it forgets no consent.
Moves == client' \in ClientStates /\ setting' = setting /\ host' = host /\ (client.accepted => client'.accepted)

LEMMA StillHost == ASSUME HostInv, Moves PROVE HostInv'
  BY DEF HostInv, Moves, ActivePwndbgWorks, UserOwnedOnly

LEMMA StillOne ==
  ASSUME ControlInv, Moves, NEW n \in Attempts, agents'[n] = agents[n], client'.n \in Nat, client'.n >= client.n,
         ~Idle(agents[n]) /\ (agents[n].attached \/ client'.clean) => n = client'.n /\ client'.pc = "running"
  PROVE  AgentInv(n)'
<1> PICK a : a = agents[n] OBVIOUS
<1> PICK b : b = agents'[n] OBVIOUS
<1>1. b = a /\ AgentInv(n) BY DEF ControlInv
<1>2. LegalPlan(agents[n])'
  <2>1. LegalPlan(a) BY <1>1 DEF AgentInv
  <2>2. b.steps = a.steps BY <1>1
  <2> QED BY <2>1, <2>2, LegalKept DEF LegalPlan, Moves
<1>3. b.next <= Len(b.steps) + 1 /\ (b.stage \in {"checking", "doing"} => b.next <= Len(b.steps))
      /\ (b.ok => b.stage = "ended" /\ b.next = Len(b.steps) + 1)
  BY <1>1 DEF AgentInv
<1>4. b.stage = "checking" => Step(n)' = "pwntools-venv" BY <1>1 DEF AgentInv, Step
<1>5. ~(b.stage \in {"none", "ended"}) /\ (b.attached \/ client'.clean) => n = client'.n /\ client'.pc = "running"
  BY <1>1 DEF Idle
<1>6. n > client'.n => b = NoAgent
  <2>1. client.n \in Nat /\ n \in Nat BY SettingFacts DEF ControlInv, TypedInv, ClientStates, Attempts
  <2> QED BY <1>1, <2>1 DEF AgentInv
<1>7. "docker-service" \in DoneBy(b) => host'.daemon BY <1>1 DEF AgentInv, Moves
<1> QED BY <1>2, <1>3, <1>4, <1>5, <1>6, <1>7 DEF AgentInv, Idle, NoAgent, DoneBy

LEMMA StillAgents ==
  ASSUME ControlInv, Moves, agents' = agents, client'.n \in Nat, client'.n >= client.n,
         \A k \in Attempts : ~Idle(agents[k]) /\ (agents[k].attached \/ client'.clean) => k = client'.n /\ client'.pc = "running"
  PROVE  \A k \in Attempts : AgentInv(k)'
<1> SUFFICES ASSUME NEW n \in Attempts PROVE AgentInv(n)' OBVIOUS
<1>1. agents'[n] = agents[n] OBVIOUS
<1> QED BY <1>1, StillOne

LEMMA CommandTyped ==
  ASSUME ControlInv
  PROVE  /\ client \in ClientStates /\ setting \in Settings /\ host \in Host /\ agents \in [Attempts -> AgentStates]
         /\ wire \in Seq(Events) /\ client.n \in Nat /\ client.n <= MaxAttempts /\ MaxAttempts \in Nat
         /\ setting.attempts \in Nat /\ setting.attempts <= MaxAttempts
         /\ \A k \in Attempts : k \in Nat /\ agents[k] \in AgentStates
<1>1. TypedInv /\ MaxAttempts \in Nat /\ setting.attempts \in Attempts BY SettingFacts DEF ControlInv, TypedInv
<1>2. client.n \in 0..MaxAttempts BY <1>1 DEF TypedInv, ClientStates
<1> QED BY <1>1, <1>2 DEF TypedInv, Attempts

\* Inv from its parts when the agents and the host stand still.
LEMMA StillControl ==
  ASSUME ControlInv, Next, Moves, agents' = agents, wire' \in Seq(Events), client'.n >= client.n, ClientInv',
         \A k \in Attempts : ~Idle(agents[k]) /\ (agents[k].attached \/ client'.clean) => k = client'.n /\ client'.pc = "running"
  PROVE  ControlInv'
<1>1. TypedInv /\ setting' = setting BY DEF ControlInv, Moves
<1>2. budget' \in 0..(setting.limit)' BY <1>1, Budgets
<1>3. TypedInv' BY <1>1, <1>2 DEF TypedInv, Moves
<1>4. client'.n \in Nat BY DEF Moves, ClientStates
<1>5. \A k \in Attempts : AgentInv(k)' BY <1>4, StillAgents
<1>6. HostInv' BY StillHost DEF ControlInv
<1> QED BY <1>3, <1>5, <1>6 DEF ControlInv

\* An agent that lives belongs to the command that runs, or it was left behind and the attempt is disturbed.
LEMMA LeftBehind ==
  ASSUME ControlInv, client.pc # "running", NEW k \in Attempts, ~Idle(agents[k])
  PROVE  ~agents[k].attached /\ ~client.clean
  BY DEF ControlInv, AgentInv

LEMMA Anew ==
  ASSUME ControlInv, client.n < setting.attempts, NEW c, c = NewAttempt(client)
  PROVE  /\ c \in ClientStates /\ c.n = client.n + 1 /\ c.inv = Inspect /\ c.clean = (Alive = {}) /\ c.outcome = "none"
         /\ c.n \in Attempts /\ c.n >= client.n /\ c.accepted = client.accepted /\ c.consent = client.consent
         /\ c.completed = <<>> /\ c.pending = <<>> /\ c.missed = FALSE /\ c.mode = client.mode
<1>1. /\ client \in ClientStates /\ client.n \in Nat /\ setting.attempts \in Nat /\ setting.attempts <= MaxAttempts
      /\ MaxAttempts \in Nat /\ setting \in Settings /\ host \in Host
  BY CommandTyped
<1>2. Inspect \in Inventories BY <1>1, InspectTyped
<1> PICK m : m = client.n + 1 OBVIOUS
<1> PICK calm \in BOOLEAN : calm = (Alive = {}) OBVIOUS
<1>3. m \in 0..MaxAttempts /\ m \in Attempts /\ m >= client.n BY <1>1 DEF Attempts
<1> PICK inv : inv = Inspect OBVIOUS
<1>4. c = [client EXCEPT !.n = m, !.inv = inv, !.completed = <<>>, !.pending = <<>>, !.auth = FALSE,
             !.missed = FALSE, !.clean = calm, !.outcome = "none"]
  BY <1>1 DEF NewAttempt, ClientStates
<1>5. <<>> \in Seq(StepNames) OBVIOUS
<1> QED BY ZenonT(60), <1>1, <1>2, <1>3, <1>4, <1>5 DEF ClientStates

LEMMA InspectStatic == Static(Inspect)
  BY DEF Static, Inspect

\* A new attempt finds no agent of its own and knows the host as it is.
LEMMA FreshAttempt ==
  ASSUME ControlInv, Next, client.pc # "running", client.n < setting.attempts, NEW c, c = NewAttempt(client),
         client' \in ClientStates, client'.pc \in {"confirm", "apply"}, client'.n = c.n, client'.inv = c.inv, client'.clean = c.clean,
         client'.outcome = "none", client'.accepted = client.accepted, client'.consent => client'.accepted,
         UNCHANGED <<setting, host, agents, wire>>
  PROVE  ControlInv'
<1>1. /\ c.n = client.n + 1 /\ c.inv = Inspect /\ c.clean = (Alive = {}) /\ c.n \in Attempts /\ c.n >= client.n
  BY Anew
<1>2. Moves BY DEF Moves
<1>3. ASSUME NEW k \in Attempts, ~Idle(agents[k]) PROVE ~agents[k].attached /\ ~client'.clean
  <2>1. k \in Alive BY <1>3 DEF Alive
  <2>2. ~agents[k].attached BY <1>3, LeftBehind
  <2> QED BY <1>1, <2>1, <2>2
<1>4. client.n \in Nat BY CommandTyped
<1>5. c.n > client.n BY <1>1, <1>4
<1>6. agents[c.n] = NoAgent BY <1>1, <1>5 DEF ControlInv, AgentInv
<1>7. Current' = NoAgent BY <1>6 DEF Current
<1>8. Inspect' = Inspect BY DEF Inspect, Version, ActivePwndbg
<1>9. Static(client.inv)' BY <1>1, InspectStatic DEF Static
<1>10. client'.accepted \/ ~setting'.accept BY DEF ControlInv, ClientInv
<1>11. ClientInv'
  <2>1. client'.n \in Attempts BY <1>1
  <2>2. client'.consent \/ setting'.accept => client'.accepted BY <1>10
  <2>3. client'.pc \notin Running /\ client'.pc # "choice" /\ client'.pc # "postflight" BY DEF Running
  <2>4. client'.inv = Inspect' BY <1>1, <1>8
  <2> QED BY <1>7, <1>9, <2>1, <2>2, <2>3, <2>4 DEF ClientInv
<1>12. wire' \in Seq(Events) BY CommandTyped
<1>13. client'.n >= client.n BY <1>1
<1> QED BY <1>2, <1>3, <1>11, <1>12, <1>13, StillControl

LEMMA BeginKeeps == ASSUME ControlInv, Next, Begin PROVE ControlInv'
<1> PICK c : c = NewAttempt(client) OBVIOUS
<1>1. PICK mode \in setting.modes : client' = [c EXCEPT !.pc = "confirm", !.mode = mode, !.consent = setting.accept, !.reviewed = {}]
  BY DEF Begin
<1>2. client.n < setting.attempts /\ client.pc # "running" /\ UNCHANGED <<setting, host, agents, wire>> BY DEF Begin
<1>3. /\ c \in ClientStates /\ c.accepted = client.accepted /\ c.outcome = "none" BY <1>2, Anew
<1>4. setting.modes \subseteq {"preview", "yes", "wizard"} /\ setting.accept \in BOOLEAN BY CommandTyped, SettingFacts
<1>5. /\ client' \in ClientStates /\ client'.pc = "confirm" /\ client'.n = c.n /\ client'.inv = c.inv /\ client'.clean = c.clean
      /\ client'.outcome = "none" /\ client'.accepted = client.accepted /\ client'.consent = setting.accept
  BY <1>1, <1>3, <1>4 DEF ClientStates
<1>6. client'.consent => client'.accepted BY <1>5 DEF ControlInv, ClientInv
<1> QED BY <1>2, <1>5, <1>6, FreshAttempt

LEMMA RetryKeeps == ASSUME ControlInv, Next, Retry PROVE ControlInv'
<1> PICK c : c = NewAttempt(client) OBVIOUS
<1>1. client' = [c EXCEPT !.pc = "apply"] BY DEF Retry
<1>2. client.n < setting.attempts /\ client.pc # "running" /\ UNCHANGED <<setting, host, agents, wire>> BY DEF Retry
<1>3. /\ c \in ClientStates /\ c.accepted = client.accepted /\ c.consent = client.consent /\ c.outcome = "none" BY <1>2, Anew
<1>4. /\ client' \in ClientStates /\ client'.pc = "apply" /\ client'.n = c.n /\ client'.inv = c.inv /\ client'.clean = c.clean
      /\ client'.outcome = "none" /\ client'.accepted = client.accepted /\ client'.consent = client.consent
  BY <1>1, <1>3 DEF ClientStates
<1>5. client'.consent => client'.accepted BY <1>4 DEF ControlInv, ClientInv
<1> QED BY <1>2, <1>4, <1>5, FreshAttempt

-----------------------------------------------------------------------------
(* The command within an attempt.                                          *)

\* The command moves on within its attempt.
StaysInAttempt(next) ==
  /\ next \in ClientStates /\ next.n = client.n /\ next.inv = client.inv /\ client.n \in Attempts
  /\ (client.accepted => next.accepted) /\ (next.consent => next.accepted) /\ (next.clean => client.clean)
  /\ client.pc = "running" => next.pc = "running" \/ Idle(Current)
  /\ next.pc \in Preparing => client.pc \in Preparing
  /\ next.pc \in Running => client.pc \in Running /\ next.consent = client.consent
  /\ next.pc = "postflight" => Current.ok
  /\ next.pc \in Preparing \cup Running => next.outcome = "none"
  /\ next.pc = "choice" => next.outcome # "ok"

LEMMA WithinKeeps ==
  ASSUME ControlInv, Next, UNCHANGED <<setting, host, agents>>, wire' \in Seq(Events), StaysInAttempt(client')
  PROVE  ControlInv'
<1>1. Moves BY DEF Moves, StaysInAttempt
<1>2. client.n \in Nat BY CommandTyped
<1>3. ASSUME NEW k \in Attempts, ~Idle(agents[k]), agents[k].attached \/ client'.clean
      PROVE  k = client'.n /\ client'.pc = "running"
  <2>1. k = client.n /\ client.pc = "running" BY <1>3 DEF ControlInv, AgentInv, StaysInAttempt
  <2> QED BY <1>3, <2>1 DEF StaysInAttempt, Current
<1>4. Current' = Current BY DEF Current, StaysInAttempt
<1>5. Inspect' = Inspect BY DEF Inspect, Version, ActivePwndbg
<1>6. ClientInv BY DEF ControlInv
<1>7. Static(client.inv)' BY <1>6 DEF Static, ClientInv, StaysInAttempt
<1>8. client'.pc \in Preparing => Current' = NoAgent /\ (client'.clean => client'.inv = Inspect')
  BY <1>4, <1>5, <1>6 DEF ClientInv, StaysInAttempt
<1>9. client'.pc \in Running =>
         /\ Current'.attached /\ Current'.stage # "none" /\ Current'.steps = PlanOf(client)'.steps
         /\ Current'.packages = PlanOf(client)'.packages /\ PlanOf(client)'.blockers = {}
  <2>1. HAVE client'.pc \in Running
  <2>2. client.pc \in Running /\ client'.consent = client.consent /\ client'.inv = client.inv BY <2>1 DEF StaysInAttempt
  <2>3. PlanOf(client)' = PlanOf(client) BY <2>2, ClientPlanSame
  <2> QED BY <1>4, <1>6, <2>2, <2>3 DEF ClientInv
<1>10. client'.pc = "postflight" => Current'.ok BY <1>4 DEF StaysInAttempt
<1>11. client'.consent \/ setting'.accept => client'.accepted BY <1>6 DEF ClientInv, StaysInAttempt
<1>12. ClientInv' BY <1>7, <1>8, <1>9, <1>10, <1>11 DEF ClientInv, StaysInAttempt
<1>13. client'.n >= client.n BY <1>2 DEF StaysInAttempt
<1> QED BY <1>1, <1>3, <1>12, <1>13, StillControl

LEMMA Returns ==
  ASSUME NEW c \in ClientStates, NEW outcome \in {"blocked", "failed", "ok"}, NEW d, d = Return(c, outcome)
  PROVE  /\ d \in ClientStates /\ d.n = c.n /\ d.inv = c.inv /\ d.consent = c.consent /\ d.accepted = c.accepted
         /\ d.clean = c.clean /\ d.completed = c.completed /\ d.pending = c.pending /\ d.missed = c.missed
         /\ d.outcome = outcome /\ d.pc \in {"choice", "idle"} /\ (d.pc = "choice" => outcome # "ok")
<1> PICK pc : pc = IF outcome # "ok" /\ c.mode = "wizard" THEN "choice" ELSE "idle" OBVIOUS
<1>1. d = [c EXCEPT !.outcome = outcome, !.pc = pc] BY DEF Return
<1>2. pc \in {"choice", "idle"} /\ (pc = "choice" => outcome # "ok") OBVIOUS
<1> QED BY <1>1, <1>2 DEF ClientStates

LEMMA ReturnKeeps ==
  ASSUME ControlInv, Next, UNCHANGED <<setting, host, agents>>, wire' \in Seq(Events), client.n \in Attempts,
         NEW c \in ClientStates, c.n = client.n, c.inv = client.inv, c.consent = client.consent, c.accepted = client.accepted,
         c.clean => client.clean, NEW outcome \in {"blocked", "failed", "ok"}, client' = Return(c, outcome),
         client.pc # "running" \/ Idle(Current)
  PROVE  ControlInv'
<1>1. /\ client' \in ClientStates /\ client'.n = c.n /\ client'.inv = c.inv /\ client'.consent = c.consent
      /\ client'.accepted = c.accepted /\ client'.clean = c.clean /\ client'.outcome = outcome
      /\ client'.pc \in {"choice", "idle"} /\ (client'.pc = "choice" => outcome # "ok")
  BY Returns
<1>2. client.consent => client.accepted BY DEF ControlInv, ClientInv
<1>3. StaysInAttempt(client') BY <1>1, <1>2 DEF StaysInAttempt, Preparing, Running
<1> QED BY <1>3, WithinKeeps

LEMMA InAttempt == ASSUME ControlInv, client.pc # "idle" PROVE client.n \in Attempts /\ client \in ClientStates /\ wire \in Seq(Events)
  BY CommandTyped DEF ControlInv, ClientInv

LEMMA ReviewTyped == ASSUME ControlInv, NEW c \in ClientStates PROVE ToSet(PlanOf(c).steps) \subseteq StepNames
<1>1. Within(PlanOf(c).steps, 1, 12) BY CommandTyped, PlanShape
<1>2. PlanOf(c).steps \in Seq(StepNames) BY <1>1 DEF Within
<1> QED BY <1>2, ToSetFacts

\* The fields that stay in which case.
SameBut(d, c) ==
  /\ d \in ClientStates /\ d.n = c.n /\ d.inv = c.inv /\ d.clean = c.clean /\ d.consent = c.consent
  /\ d.accepted = c.accepted /\ d.completed = c.completed /\ d.pending = c.pending /\ d.missed = c.missed

LEMMA Reviewing ==
  ASSUME NEW c \in ClientStates, NEW r \in SUBSET StepNames, NEW d, d = [c EXCEPT !.reviewed = r]
  PROVE  SameBut(d, c) /\ d.outcome = c.outcome /\ d.pc = c.pc
  BY DEF ClientStates, SameBut

LEMMA Turning ==
  ASSUME NEW c \in ClientStates, NEW pc \in {"idle", "confirm", "deploy", "apply", "running", "postflight", "choice"},
         NEW d, d = [c EXCEPT !.pc = pc]
  PROVE  SameBut(d, c) /\ d.outcome = c.outcome /\ d.pc = pc
  BY DEF ClientStates, SameBut

LEMMA ConfirmKeeps == ASSUME ControlInv, Next, Confirm PROVE ControlInv'
<1>1. client.pc = "confirm" /\ UNCHANGED <<setting, host, agents, wire>> BY DEF Confirm
<1>2. client.n \in Attempts /\ client \in ClientStates /\ wire' \in Seq(Events) BY <1>1, InAttempt
<1>3. client.consent => client.accepted BY DEF ControlInv, ClientInv
<1>4. client.outcome = "none" BY <1>1 DEF ControlInv, ClientInv, Preparing
<1>a. PICK asked \in BOOLEAN : asked = (client.mode = "wizard" /\ RiskAsked) OBVIOUS
<1>b. PICK answered : answered = [client EXCEPT !.consent = @ \/ asked, !.accepted = @ \/ asked] OBVIOUS
<1>c. PICK shown : shown = [answered EXCEPT !.reviewed = ToSet(PlanOf(answered).steps)] OBVIOUS
<1>5. \/ client' = [shown EXCEPT !.pc = "deploy"]
      \/ client' = [shown EXCEPT !.pc = "idle", !.outcome = "previewed"]
      \/ client' = [client EXCEPT !.pc = "idle", !.outcome = "cancelled"]
  BY <1>a, <1>b, <1>c DEF Confirm
<1>d. PICK consent \in BOOLEAN : consent = (client.consent \/ asked) OBVIOUS
<1>e. PICK accepted \in BOOLEAN : accepted = (client.accepted \/ asked) OBVIOUS
<1>6. answered = [client EXCEPT !.consent = consent, !.accepted = accepted] BY <1>2, <1>b, <1>d, <1>e DEF ClientStates
<1>7. /\ answered \in ClientStates /\ answered.n = client.n /\ answered.inv = client.inv /\ answered.clean = client.clean
      /\ answered.consent = consent /\ answered.accepted = accepted /\ answered.outcome = client.outcome
  BY <1>2, <1>6 DEF ClientStates
<1>f. PICK reviewed : reviewed = ToSet(PlanOf(answered).steps) OBVIOUS
<1>8. reviewed \subseteq StepNames /\ shown = [answered EXCEPT !.reviewed = reviewed] BY <1>7, <1>c, <1>f, ReviewTyped
<1>9. /\ shown \in ClientStates /\ shown.n = client.n /\ shown.inv = client.inv /\ shown.clean = client.clean
      /\ shown.consent = consent /\ shown.accepted = accepted /\ shown.outcome = "none"
  BY <1>4, <1>7, <1>8, Reviewing DEF SameBut
<1>10. (client.accepted => accepted) /\ (consent => accepted) BY <1>3, <1>d, <1>e
<1>11. CASE client' = [shown EXCEPT !.pc = "deploy"]
  <2>1. /\ client' \in ClientStates /\ client'.n = client.n /\ client'.inv = client.inv /\ client'.clean = client.clean
        /\ client'.consent = consent /\ client'.accepted = accepted /\ client'.outcome = "none" /\ client'.pc = "deploy"
    BY <1>9, <1>11, Turning DEF SameBut
  <2>2. StaysInAttempt(client') BY <1>1, <1>2, <1>10, <2>1 DEF StaysInAttempt, Preparing, Running
  <2> QED BY <1>1, <1>2, <2>2, WithinKeeps
<1>12. CASE client' = [shown EXCEPT !.pc = "idle", !.outcome = "previewed"]
  <2>1. /\ client' \in ClientStates /\ client'.n = client.n /\ client'.inv = client.inv /\ client'.clean = client.clean
        /\ client'.consent = consent /\ client'.accepted = accepted /\ client'.pc = "idle"
    BY <1>9, <1>12 DEF ClientStates
  <2>2. StaysInAttempt(client') BY <1>1, <1>2, <1>10, <2>1 DEF StaysInAttempt, Preparing, Running
  <2> QED BY <1>1, <1>2, <2>2, WithinKeeps
<1>13. CASE client' = [client EXCEPT !.pc = "idle", !.outcome = "cancelled"]
  <2>1. /\ client' \in ClientStates /\ client'.n = client.n /\ client'.inv = client.inv /\ client'.clean = client.clean
        /\ client'.consent = client.consent /\ client'.accepted = client.accepted /\ client'.pc = "idle"
    BY <1>2, <1>13 DEF ClientStates
  <2>2. StaysInAttempt(client') BY <1>1, <1>2, <1>3, <2>1 DEF StaysInAttempt, Preparing, Running
  <2> QED BY <1>1, <1>2, <2>2, WithinKeeps
<1> QED BY <1>5, <1>11, <1>12, <1>13

LEMMA DeployKeeps == ASSUME ControlInv, Next, Deploy PROVE ControlInv'
<1>1. client.pc = "deploy" /\ UNCHANGED <<setting, host, agents, wire>> BY DEF Deploy
<1>2. client.n \in Attempts /\ client \in ClientStates /\ wire' \in Seq(Events) BY <1>1, InAttempt
<1>3. (client.consent => client.accepted) /\ client.outcome = "none" BY <1>1 DEF ControlInv, ClientInv, Preparing
<1>4. CASE client' = [client EXCEPT !.pc = "apply"]
  <2>1. /\ client' \in ClientStates /\ client'.n = client.n /\ client'.inv = client.inv /\ client'.clean = client.clean
        /\ client'.consent = client.consent /\ client'.accepted = client.accepted /\ client'.outcome = "none" /\ client'.pc = "apply"
    BY <1>2, <1>3, <1>4 DEF ClientStates
  <2>2. StaysInAttempt(client') BY <1>1, <1>2, <1>3, <2>1 DEF StaysInAttempt, Preparing, Running
  <2> QED BY <1>1, <1>2, <2>2, WithinKeeps
<1>5. CASE client' = [Blamed(client) EXCEPT !.pc = "idle", !.outcome = "failed"]
  <2>1. /\ client' \in ClientStates /\ client'.n = client.n /\ client'.inv = client.inv /\ client'.clean = FALSE
        /\ client'.consent = client.consent /\ client'.accepted = client.accepted /\ client'.pc = "idle"
    BY <1>2, <1>5 DEF Blamed, ClientStates
  <2>2. StaysInAttempt(client') BY <1>1, <1>2, <1>3, <2>1 DEF StaysInAttempt, Preparing, Running
  <2> QED BY <1>1, <1>2, <2>2, WithinKeeps
<1> QED BY <1>4, <1>5 DEF Deploy

LEMMA ApplyEndsKeep == ASSUME ControlInv, Next, ApplyRefused \/ ApplyNothing PROVE ControlInv'
<1>1. client.pc = "apply" /\ UNCHANGED <<setting, host, agents, wire>> BY DEF ApplyRefused, ApplyNothing
<1>2. client.n \in Attempts /\ client \in ClientStates /\ wire' \in Seq(Events) BY <1>1, InAttempt
<1>3. PICK outcome \in {"blocked", "failed", "ok"} : client' = Return(client, outcome) BY DEF ApplyRefused, ApplyNothing
<1> QED BY <1>1, <1>2, <1>3, ReturnKeeps

LEMMA LeaveKeeps == ASSUME ControlInv, Next, Leave PROVE ControlInv'
<1>1. client.pc = "choice" /\ UNCHANGED <<setting, host, agents, wire>> /\ client' = [client EXCEPT !.pc = "idle"] BY DEF Leave
<1>2. client.n \in Attempts /\ client \in ClientStates /\ wire' \in Seq(Events) BY <1>1, InAttempt
<1>3. client.consent => client.accepted BY DEF ControlInv, ClientInv
<1>4. /\ client' \in ClientStates /\ client'.n = client.n /\ client'.inv = client.inv /\ client'.clean = client.clean
      /\ client'.consent = client.consent /\ client'.accepted = client.accepted /\ client'.pc = "idle"
  BY <1>1, <1>2 DEF ClientStates
<1>5. StaysInAttempt(client') BY <1>1, <1>2, <1>3, <1>4 DEF StaysInAttempt, Preparing, Running
<1> QED BY <1>1, <1>2, <1>5, WithinKeeps

LEMMA PostflightKeeps == ASSUME ControlInv, Next, Postflight PROVE ControlInv'
<1>1. client.pc = "postflight" /\ UNCHANGED <<setting, host, agents, wire>> BY DEF Postflight
<1>2. client.n \in Attempts /\ client \in ClientStates /\ wire' \in Seq(Events) BY <1>1, InAttempt
<1>3. CASE \E outcome \in {"failed", "ok"} : client' = Return(client, outcome) BY <1>1, <1>2, <1>3, ReturnKeeps
<1>4. CASE client' = Return(Blamed(client), "failed")
  <2>1. TypedInv BY DEF ControlInv
  <2> PICK c : c = Blamed(client) OBVIOUS
  <2>2. c \in ClientStates /\ c.clean = FALSE /\ c.n = client.n /\ c.inv = client.inv /\ c.consent = client.consent
        /\ c.accepted = client.accepted
    BY <2>1, BlamedTyped
  <2> QED BY <1>1, <1>2, <1>4, <2>2, ReturnKeeps
<1> QED BY <1>3, <1>4 DEF Postflight

LEMMA ReturnedKeeps == ASSUME ControlInv, Next, Returned PROVE ControlInv'
<1>1. client.pc = "running" /\ UNCHANGED <<setting, host, agents, wire>> /\ Current.stage = "ended" BY DEF Returned
<1>2. client.n \in Attempts /\ client \in ClientStates /\ wire' \in Seq(Events) BY <1>1, InAttempt
<1>3. CASE ~Current.ok
  <2>1. client' = Return(client, "failed") BY <1>3 DEF Returned
  <2> QED BY <1>1, <1>2, <2>1, ReturnKeeps DEF Idle
<1>4. CASE Current.ok
  <2>1. client' = [client EXCEPT !.pc = "postflight"] BY <1>4 DEF Returned
  <2>2. (client.consent => client.accepted) /\ client.outcome = "none" BY <1>1 DEF ControlInv, ClientInv, Running
  <2>3. /\ client' \in ClientStates /\ client'.n = client.n /\ client'.inv = client.inv /\ client'.clean = client.clean
        /\ client'.consent = client.consent /\ client'.accepted = client.accepted /\ client'.pc = "postflight"
        /\ client'.outcome = "none"
    BY <1>2, <2>1, <2>2 DEF ClientStates
  <2>4. StaysInAttempt(client') BY <1>1, <1>2, <1>4, <2>2, <2>3 DEF StaysInAttempt, Preparing, Running, Idle
  <2> QED BY <1>1, <1>2, <2>4, WithinKeeps
<1> QED BY <1>3, <1>4

-----------------------------------------------------------------------------
(* What the command reports: sequences without a step, and with one more.  *)

\* A set of naturals that is not empty has a least element.
LEMMA Least == ASSUME NEW I \in SUBSET Nat, I # {} PROVE Min(I) \in I /\ \A j \in I : Min(I) <= j
<1> DEFINE T == {n \in Nat : \A j \in I : j > n}
<1>1. CASE \A n \in Nat : n \in T
  <2>1. PICK j \in I : TRUE OBVIOUS
  <2> QED BY <1>1, <2>1
<1>2. CASE \E n \in Nat : n \notin T
  <2>1. CASE 0 \notin T
    <3>1. PICK j \in I : ~(j > 0) BY <2>1
    <3>2. j = 0 BY <3>1
    <3>3. \E x \in I : \A y \in I : x <= y BY <3>2
    <3> QED BY <3>3 DEF Min
  <2>2. CASE 0 \in T
    <3>1. PICK n \in Nat : n \in T /\ n + 1 \notin T BY <1>2, <2>2, NatSetInduction
    <3>2. PICK j \in I : ~(j > n + 1) BY <3>1
    <3>3. j > n BY <3>1
    <3>4. j = n + 1 BY <3>2, <3>3
    <3>5. \A y \in I : j <= y BY <3>1, <3>4
    <3>6. \E x \in I : \A y \in I : x <= y BY <3>5
    <3> QED BY <3>6 DEF Min
  <2> QED BY <2>1, <2>2
<1> QED BY <1>1, <1>2

LEMMA RemoveFirstIs ==
  ASSUME NEW s \in Seq(StepNames), NEW e \in ToSet(s)
  PROVE  \E i \in 1..Len(s) : s[i] = e /\ RemoveFirst(s, e) = RemoveAt(s, i)
<1> DEFINE I == {i \in 1..Len(s) : s[i] = e}
<1>1. PICK j \in 1..Len(s) : s[j] = e BY OfSet
<1>2. I # {} /\ I \in SUBSET Nat BY <1>1
<1>3. Min(I) \in I BY <1>2, Least
<1>4. SelectInSeq(s, LAMBDA v : v = e) = Min(I) BY <1>2 DEF SelectInSeq
<1>5. RemoveFirst(s, e) = RemoveAt(s, Min(I)) BY <1>1, <1>4 DEF RemoveFirst
<1> HIDE DEF I
<1>6. PICK i : i = Min(I) OBVIOUS
<1>7. i \in 1..Len(s) /\ s[i] = e BY <1>3, <1>6 DEF I
<1> QED BY <1>5, <1>6, <1>7

LEMMA RemoveOther ==
  ASSUME NEW s \in Seq(StepNames), NEW e, e \notin ToSet(s)
  PROVE  RemoveFirst(s, e) = s
<1>1. ~\E i \in 1..Len(s) : s[i] = e BY InSet
<1> QED BY <1>1 DEF RemoveFirst

LEMMA Concat ==
  ASSUME NEW a \in Seq(StepNames), NEW b \in Seq(StepNames)
  PROVE  /\ a \o b \in Seq(StepNames) /\ Len(a \o b) = Len(a) + Len(b)
         /\ \A k \in 1..Len(a) : (a \o b)[k] = a[k]
         /\ \A k \in 1..Len(b) : (a \o b)[Len(a) + k] = b[k]
<1>1. a \o b \in Seq(StepNames) /\ Len(a \o b) = Len(a) + Len(b) OBVIOUS
<1>2. \A k \in 1..Len(a) : (a \o b)[k] = a[k] OBVIOUS
<1>3. ASSUME NEW k \in 1..Len(b) PROVE (a \o b)[Len(a) + k] = b[k]
  <2>1. /\ Len(a) \in Nat /\ Len(b) \in Nat /\ Len(a) + k \in 1..(Len(a) + Len(b)) /\ ~(Len(a) + k <= Len(a))
        /\ (Len(a) + k) - Len(a) = k
    OBVIOUS
  <2> QED BY <2>1
<1> QED BY <1>1, <1>2, <1>3

LEMMA WithoutOne ==
  ASSUME NEW s \in Seq(StepNames), NEW i \in 1..Len(s)
  PROVE  /\ RemoveAt(s, i) \in Seq(StepNames) /\ Len(RemoveAt(s, i)) = Len(s) - 1
         /\ \A k \in 1..Len(RemoveAt(s, i)) : RemoveAt(s, i)[k] = IF k < i THEN s[k] ELSE s[k + 1]
<1>a. PICK a : a = SubSeq(s, 1, i - 1) OBVIOUS
<1>b. PICK b : b = SubSeq(s, i + 1, Len(s)) OBVIOUS
<1>n. PICK n \in Nat : n = Len(s) OBVIOUS
<1>1. a \in Seq(StepNames) /\ Len(a) = i - 1 /\ \A k \in 1..(i - 1) : a[k] = s[k] BY <1>a
<1>2. b \in Seq(StepNames) /\ Len(b) = n - i /\ \A k \in 1..(n - i) : b[k] = s[i + k] BY <1>b, <1>n
<1>3. PICK r : r = a \o b OBVIOUS
<1>4. /\ r \in Seq(StepNames) /\ Len(r) = Len(a) + Len(b)
      /\ \A k \in 1..Len(a) : r[k] = a[k]
      /\ \A k \in 1..Len(b) : r[Len(a) + k] = b[k]
  BY <1>1, <1>2, <1>3, Concat
<1>5. i \in 1..n BY <1>n
<1>6. Len(r) = n - 1 BY <1>1, <1>2, <1>4, <1>5
<1>6a. \A k \in 1..(i - 1) : r[k] = a[k] BY <1>1, <1>4
<1>6b. \A k \in 1..(n - i) : r[(i - 1) + k] = b[k] BY <1>1, <1>2, <1>4
<1>6c. \A k \in 1..(i - 1) : a[k] = s[k] BY <1>1
<1>6d. \A k \in 1..(n - i) : b[k] = s[i + k] BY <1>2
<1>7. ASSUME NEW k \in 1..(n - 1) PROVE r[k] = IF k < i THEN s[k] ELSE s[k + 1]
  <2>1. CASE k < i
    <3>1. k \in 1..(i - 1) BY <1>5, <2>1
    <3> QED BY <1>6a, <1>6c, <2>1, <3>1
  <2>2. CASE ~(k < i)
    <3>1. PICK m \in Int : m = k - (i - 1) BY <1>5
    <3>2. m \in 1..(n - i) /\ i + m = k + 1 /\ (i - 1) + m = k BY <1>5, <2>2, <3>1
    <3>3. r[(i - 1) + m] = b[m] BY <1>6b, <3>2
    <3>4. b[m] = s[i + m] BY <1>6d, <3>2
    <3> QED BY <2>2, <3>2, <3>3, <3>4
  <2> QED BY <2>1, <2>2
<1>8. r = RemoveAt(s, i) BY <1>3, <1>a, <1>b DEF RemoveAt
<1> QED BY <1>4, <1>6, <1>7, <1>8, <1>n

LEMMA Removed ==
  ASSUME NEW s \in Seq(StepNames), NEW e
  PROVE  /\ RemoveFirst(s, e) \in Seq(StepNames)
         /\ Rising(s) => Rising(RemoveFirst(s, e)) /\ ToSet(RemoveFirst(s, e)) = ToSet(s) \ {e}
<1>1. CASE e \notin ToSet(s)
  <2>1. RemoveFirst(s, e) = s BY <1>1, RemoveOther
  <2> QED BY <1>1, <2>1
<1>2. CASE e \in ToSet(s)
  <2>1. PICK i \in 1..Len(s) : s[i] = e /\ RemoveFirst(s, e) = RemoveAt(s, i)
    BY <1>2, RemoveFirstIs
  <2>2. PICK r : r = RemoveFirst(s, e) OBVIOUS
  <2>3. /\ r \in Seq(StepNames) /\ Len(r) = Len(s) - 1
        /\ \A k \in 1..Len(r) : r[k] = IF k < i THEN s[k] ELSE s[k + 1]
    BY ZenonT(60), <2>1, <2>2, WithoutOne
  <2>4. ASSUME Rising(s) PROVE Rising(r)
    <3>1. SUFFICES ASSUME NEW j \in 1..Len(r), NEW k \in 1..Len(r), j < k PROVE Rank(r[j]) < Rank(r[k]) BY DEF Rising
    <3>2. PICK p \in 1..Len(s) : p = IF j < i THEN j ELSE j + 1 BY <2>3
    <3>3. PICK q \in 1..Len(s) : q = IF k < i THEN k ELSE k + 1 BY <2>3
    <3>4. r[j] = s[p] /\ r[k] = s[q] BY <2>3, <3>2, <3>3
    <3>5. p < q BY <3>1, <3>2, <3>3
    <3> QED BY <2>4, <3>4, <3>5 DEF Rising
  <2>5. ASSUME Rising(s) PROVE ToSet(r) = ToSet(s) \ {e}
    <3>1. ASSUME NEW x \in ToSet(r) PROVE x \in ToSet(s) \ {e}
      <4>1. PICK k \in 1..Len(r) : x = r[k] BY <2>3, OfSet
      <4>2. PICK q \in 1..Len(s) : q = IF k < i THEN k ELSE k + 1 BY <2>3
      <4>3. x = s[q] /\ q # i BY <2>3, <4>1, <4>2
      <4>4. s[q] \in StepNames /\ s[i] \in StepNames OBVIOUS
      <4>5. Rank(s[q]) \in Int /\ Rank(s[i]) \in Int BY <4>4, RankTyped
      <4>6. q < i \/ i < q BY <4>3
      <4>7. Rank(s[q]) # Rank(s[i]) BY <2>5, <4>5, <4>6 DEF Rising
      <4>8. x # e BY <2>1, <4>3, <4>7
      <4> QED BY <4>3, <4>8, InSet
    <3>2. ASSUME NEW x \in ToSet(s) \ {e} PROVE x \in ToSet(r)
      <4>1. PICK q \in 1..Len(s) : x = s[q] BY OfSet
      <4>2. q # i BY <2>1, <3>2, <4>1
      <4>3. PICK k \in Int : k = IF q < i THEN q ELSE q - 1 OBVIOUS
      <4>4. k \in 1..Len(r) BY <2>3, <4>2, <4>3
      <4>5. r[k] = s[q] BY <2>3, <4>2, <4>3, <4>4
      <4> QED BY <2>3, <4>1, <4>4, <4>5, InSet
    <3> QED BY <3>1, <3>2
  <2> QED BY <2>2, <2>3, <2>4, <2>5
<1> QED BY <1>1, <1>2

LEMMA Appended ==
  ASSUME NEW s \in Seq(StepNames), NEW e \in StepNames
  PROVE  /\ Append(s, e) \in Seq(StepNames) /\ ToSet(Append(s, e)) = ToSet(s) \cup {e}
         /\ Rising(s) /\ (\A x \in ToSet(s) : Rank(x) < Rank(e)) => Rising(Append(s, e))
<1> PICK r : r = Append(s, e) OBVIOUS
<1>1. r \in Seq(StepNames) /\ Len(r) = Len(s) + 1 /\ r[Len(r)] = e /\ \A k \in 1..Len(s) : r[k] = s[k] OBVIOUS
<1>2. ASSUME NEW x \in ToSet(r) PROVE x \in ToSet(s) \cup {e}
  <2>1. PICK k \in 1..Len(r) : x = r[k] BY <1>1, OfSet
  <2>2. CASE k = Len(r) BY <1>1, <2>1, <2>2
  <2>3. CASE k # Len(r)
    <3>1. k \in 1..Len(s) BY <1>1, <2>3
    <3>2. x = s[k] BY <1>1, <2>1, <3>1
    <3> QED BY <3>1, <3>2, InSet
  <2> QED BY <2>2, <2>3
<1>3. ASSUME NEW x \in ToSet(s) PROVE x \in ToSet(r)
  <2>1. PICK k \in 1..Len(s) : x = s[k] BY OfSet
  <2>2. k \in 1..Len(r) /\ r[k] = x BY <1>1, <2>1
  <2> QED BY <1>1, <2>2, InSet
<1>4. e \in ToSet(r)
  <2>1. Len(r) \in 1..Len(r) BY <1>1
  <2> QED BY <1>1, <2>1, InSet
<1>5. ASSUME Rising(s), \A x \in ToSet(s) : Rank(x) < Rank(e) PROVE Rising(r)
  <2>1. SUFFICES ASSUME NEW j \in 1..Len(r), NEW k \in 1..Len(r), j < k PROVE Rank(r[j]) < Rank(r[k]) BY DEF Rising
  <2>2. j \in 1..Len(s) /\ r[j] = s[j] BY <1>1, <2>1
  <2>3. CASE k = Len(r)
    <3>1. s[j] \in ToSet(s) BY <2>2, InSet
    <3> QED BY <1>1, <1>5, <2>2, <2>3, <3>1
  <2>4. CASE k # Len(r)
    <3>1. k \in 1..Len(s) /\ r[k] = s[k] BY <1>1, <2>4
    <3> QED BY <1>5, <2>1, <2>2, <3>1 DEF Rising
  <2> QED BY <2>3, <2>4
<1>6. ToSet(r) = ToSet(s) \cup {e} BY <1>2, <1>3, <1>4
<1> QED BY <1>1, <1>5, <1>6

-----------------------------------------------------------------------------
(* The command starts, follows and loses its agent.                        *)

LEMMA NoBlockers ==
  ASSUME NEW inv, NEW recipe, NEW options, Blockers(inv, recipe, options) = {}
  PROVE  /\ \A id \in recipe.components : ~Unsupported(inv, id)
         /\ PlannedPackages(inv, recipe, options) = {} \/ inv.manager # "unknown"
         /\ DockerPending(inv, recipe) => inv.service \notin {"unknown", "runit"} /\ (inv.root \/ options.accept)
         /\ options.noSudo /\ inv.manager # "nix" => \A id \in recipe.components \cap Privileged : ~Install(inv, id)
<1> DEFINE says(reason, condition) == IF condition THEN {reason} ELSE {}
<1>1. \A reason, condition : says(reason, condition) = {} => ~condition OBVIOUS
<1>2. /\ says("unsupported", \E id \in recipe.components : Unsupported(inv, id)) = {}
      /\ says("manager", PlannedPackages(inv, recipe, options) # {} /\ inv.manager = "unknown") = {}
      /\ says("service", DockerPending(inv, recipe) /\ inv.service \in {"unknown", "runit"}) = {}
      /\ says("risk", DockerPending(inv, recipe) /\ ~inv.root /\ ~options.accept) = {}
      /\ says("no-sudo", options.noSudo /\ inv.manager # "nix"
                 /\ (recipe.system # {} \/ \E id \in recipe.components \cap Privileged : Install(inv, id))) = {}
  BY DEF Blockers
<1>3. ~\E id \in recipe.components : Unsupported(inv, id) BY <1>2
<1>4. ~(PlannedPackages(inv, recipe, options) # {} /\ inv.manager = "unknown") BY <1>2
<1>5. ~(DockerPending(inv, recipe) /\ inv.service \in {"unknown", "runit"}) BY <1>2
<1>6. ~(DockerPending(inv, recipe) /\ ~inv.root /\ ~options.accept) BY <1>2
<1>7. ~(options.noSudo /\ inv.manager # "nix" /\ \E id \in recipe.components \cap Privileged : Install(inv, id)) BY <1>2
<1> QED BY <1>3, <1>4, <1>5, <1>6, <1>7

LEMMA PlanLegal ==
  ASSUME setting \in Settings, NEW c \in ClientStates, c.inv.manager = setting.manager, PlanOf(c).blockers = {},
         NEW a, a.steps = PlanOf(c).steps, c.consent => client.accepted
  PROVE  LegalPlan(a)
<1>1. /\ Within(a.steps, 1, 12)
      /\ PlanOf(c).blockers = Blockers(c.inv, Recipe, Options(c))
      /\ ToSet(a.steps) = {s \in Needed(c.inv, Recipe, Options(c)) : setting.noSudo => ~Sudo(s, c.inv.manager)}
  BY PlanShape
<1>2. setting.noSudo => \A s \in ToSet(a.steps) : ~Sudo(s, setting.manager) BY <1>1
<1>3. ASSUME "docker-group" \in ToSet(a.steps) PROVE client.accepted /\ "docker-service" \in ToSet(a.steps)
  <2>1. "docker-group" \in Needed(c.inv, Recipe, Options(c)) /\ (setting.noSudo => ~Sudo("docker-group", c.inv.manager))
    BY <1>1, <1>3
  <2>2. ~setting.noSudo BY <2>1 DEF Sudo
  <2>3. Dockered(c.inv, Recipe, Options(c)) /\ ~c.inv.root BY <2>1 DEF Needed
  <2>4. Options(c).accept = c.consent BY DEF Options
  <2>5. client.accepted BY <2>3, <2>4 DEF Dockered
  <2>6. c.inv.service \notin {"unknown", "runit"} BY <1>1, <2>3, NoBlockers DEF Dockered
  <2>7. c.inv.service \in {"systemd", "sysv", "openrc"} BY <2>6 DEF ClientStates, Inventories
  <2>8. "docker-service" \in Needed(c.inv, Recipe, Options(c)) BY <2>3, <2>7 DEF Needed, StepNames
  <2> QED BY <1>1, <2>2, <2>5, <2>8
<1> QED BY <1>1, <1>2, <1>3 DEF LegalPlan

LEMMA Single == ASSUME NEW S, NEW e \in S PROVE <<e>> \in Seq(S)
  OBVIOUS

LEMMA ApplyKeeps == ASSUME ControlInv, Next, Apply PROVE ControlInv'
<1>a. PICK steps : steps = PlanOf(client).steps OBVIOUS
<1>b. PICK packages : packages = PlanOf(client).packages OBVIOUS
<1>c. PICK stage \in {"auth", "next"} : stage = IF Authenticated(PlanOf(client)) THEN "auth" ELSE "next" OBVIOUS
<1>1. /\ client.pc = "apply" /\ PlanOf(client).blockers = {} /\ UNCHANGED <<setting, budget, host>>
      /\ client' = [client EXCEPT !.pc = "running", !.pending = PlanOf(client).steps]
      /\ agents' = [agents EXCEPT ![client.n] =
           [NoAgent EXCEPT !.steps = PlanOf(client).steps, !.packages = PlanOf(client).packages, !.attached = TRUE,
                           !.stage = IF Authenticated(PlanOf(client)) THEN "auth" ELSE "next"]]
      /\ wire' = <<[type |-> "auth", step |-> "auth"]>> \/ wire' = <<>>
  BY DEF Apply, Runs
<1>2. /\ client.n \in Attempts /\ client \in ClientStates /\ setting \in Settings /\ agents \in [Attempts -> AgentStates]
      /\ client.n \in Nat
  BY <1>1, InAttempt, CommandTyped
<1>3. steps \in Seq(StepNames) /\ packages \subseteq Software BY <1>2, <1>a, <1>b, PlanShape DEF Within
<1>4. client' = [client EXCEPT !.pc = "running", !.pending = steps] BY <1>1, <1>a
<1>5. /\ client' \in ClientStates /\ client'.n = client.n /\ client'.inv = client.inv /\ client'.clean = client.clean
      /\ client'.consent = client.consent /\ client'.accepted = client.accepted /\ client'.pc = "running"
      /\ client'.outcome = client.outcome
  BY <1>2, <1>3, <1>4 DEF ClientStates
<1>6. PICK b : b = [NoAgent EXCEPT !.steps = steps, !.packages = packages, !.attached = TRUE, !.stage = stage] OBVIOUS
<1>7. /\ b \in AgentStates /\ b.steps = steps /\ b.packages = packages /\ b.attached = TRUE /\ b.stage = stage
      /\ b.next = 1 /\ b.ok = FALSE
  <2>1. b = [stage |-> stage, steps |-> steps, packages |-> packages, next |-> 1, attached |-> TRUE, ok |-> FALSE]
    BY <1>6 DEF NoAgent
  <2> QED BY <1>3, <2>1 DEF AgentStates
<1>8. agents' = [agents EXCEPT ![client.n] = b] BY <1>1, <1>6, <1>a, <1>b, <1>c
<1>9. agents' \in [Attempts -> AgentStates] /\ agents'[client.n] = b /\ \A k \in Attempts : k # client.n => agents'[k] = agents[k]
  BY <1>2, <1>7, <1>8
<1>10. wire' \in Seq(Events)
  <2>1. PICK e : e = [type |-> "auth", step |-> "auth"] OBVIOUS
  <2>2. e \in Events BY <2>1 DEF Events
  <2>3. wire' = <<e>> \/ wire' = <<>> BY <1>1, <2>1
  <2>4. <<e>> \in Seq(Events) BY <2>2, Single
  <2>5. <<>> \in Seq(Events) OBVIOUS
  <2>6. PICK two : two = <<e>> OBVIOUS
  <2>7. two \in Seq(Events) /\ (wire' = two \/ wire' = <<>>) BY <2>3, <2>4, <2>6
  <2> QED BY <2>5, <2>7
<1>11. Moves BY <1>1, <1>5 DEF Moves
<1>12. ClientInv /\ HostInv /\ TypedInv BY DEF ControlInv
<1>13. TypedInv'
  <2>1. budget' \in 0..(setting.limit)' BY <1>1, <1>12, Budgets
  <2> QED BY <1>1, <1>5, <1>9, <1>10, <1>12, <2>1 DEF TypedInv
<1>14. HostInv' BY <1>11, <1>12, StillHost
<1>15. ASSUME NEW k \in Attempts, k # client.n PROVE AgentInv(k)'
  <2>1. ~Idle(agents[k]) => ~agents[k].attached /\ ~client.clean BY <1>1, LeftBehind
  <2>2. agents'[k] = agents[k] BY <1>9, <1>15
  <2>3. client'.n \in Nat /\ client'.n >= client.n BY <1>2, <1>5
  <2> QED BY <1>5, <1>11, <2>1, <2>2, <2>3, StillOne
<1>16. ASSUME NEW m \in Attempts, m = client.n PROVE AgentInv(m)'
  <2>1. agents'[m] = b BY <1>9, <1>16
  <2>2. client.inv.manager = setting.manager /\ (client.consent => client.accepted) BY <1>12 DEF ClientInv, Static
  <2>3. LegalPlan(b) BY <1>1, <1>2, <1>7, <1>a, <2>2, PlanLegal
  <2>4. LegalPlan(agents[m])' BY <1>1, <1>5, <2>1, <2>3 DEF LegalPlan
  <2>5. Len(b.steps) \in Nat BY <1>3, <1>7
  <2>6. b.next <= Len(b.steps) + 1 BY <1>7, <2>5
  <2>7. DoneBy(b) = {} BY <1>7 DEF DoneBy
  <2>8. m = client'.n /\ client'.pc = "running" BY <1>5, <1>16
  <2>9. ~(m > client'.n)
    <3>1. m \in Nat BY <1>2, <1>16
    <3> QED BY <2>8, <3>1
  <2> QED BY <1>7, <2>1, <2>4, <2>6, <2>7, <2>8, <2>9 DEF AgentInv, DoneBy
<1>17. ClientInv'
  <2>1. Static(client.inv)' BY <1>1, <1>5, <1>12 DEF Static, ClientInv
  <2>2. client'.outcome = "none" BY <1>1, <1>5, <1>12 DEF ClientInv, Preparing
  <2>3. Current' = b BY <1>5, <1>9 DEF Current
  <2>4. PlanOf(client)' = PlanOf(client) BY <1>1, <1>5, ClientPlanSame
  <2>5. client'.consent \/ setting'.accept => client'.accepted BY <1>1, <1>5, <1>12 DEF ClientInv
  <2> QED BY <1>1, <1>2, <1>5, <1>7, <1>a, <1>b, <2>1, <2>2, <2>3, <2>4, <2>5 DEF ClientInv, Preparing
<1>18. \A k \in Attempts : AgentInv(k)'
  <2> SUFFICES ASSUME NEW k \in Attempts PROVE AgentInv(k)' OBVIOUS
  <2> QED BY <1>15, <1>16
<1> QED BY <1>13, <1>14, <1>17, <1>18 DEF ControlInv

LEMMA SeverKeeps == ASSUME ControlInv, Next, Sever PROVE ControlInv'
<1>1. /\ client.pc = "running" /\ UNCHANGED <<setting, host>> /\ client' = Return(Blamed(client), "failed")
      /\ agents' = [agents EXCEPT ![client.n].attached = FALSE] /\ wire' = <<>>
  BY DEF Sever
<1>2. /\ client.n \in Attempts /\ client \in ClientStates /\ setting \in Settings /\ agents \in [Attempts -> AgentStates]
      /\ client.n \in Nat
  BY <1>1, InAttempt, CommandTyped
<1>3. ClientInv /\ HostInv /\ TypedInv BY DEF ControlInv
<1>4. PICK c : c = Blamed(client) OBVIOUS
<1>5. /\ c \in ClientStates /\ c.clean = FALSE /\ c.n = client.n /\ c.inv = client.inv /\ c.consent = client.consent
      /\ c.accepted = client.accepted
  BY <1>3, <1>4, BlamedTyped
<1>6. /\ client' \in ClientStates /\ client'.n = client.n /\ client'.inv = client.inv /\ client'.clean = FALSE
      /\ client'.consent = client.consent /\ client'.accepted = client.accepted /\ client'.pc \in {"choice", "idle"}
      /\ client'.outcome = "failed"
  BY <1>1, <1>4, <1>5, Returns
<1>7. Moves BY <1>1, <1>6 DEF Moves
<1>8. PICK b : b = [agents[client.n] EXCEPT !.attached = FALSE] OBVIOUS
<1>9. /\ b \in AgentStates /\ b.steps = Current.steps /\ b.stage = Current.stage /\ b.next = Current.next /\ b.ok = Current.ok
      /\ b.attached = FALSE
  <2>1. agents[client.n] \in AgentStates BY <1>2
  <2> QED BY <1>8, <2>1 DEF AgentStates, Current
<1>10. agents' = [agents EXCEPT ![client.n] = b] BY <1>1, <1>8
<1>11. agents' \in [Attempts -> AgentStates] /\ agents'[client.n] = b /\ \A k \in Attempts : k # client.n => agents'[k] = agents[k]
  BY <1>2, <1>9, <1>10
<1>12. TypedInv'
  <2>1. budget' \in 0..(setting.limit)' BY <1>1, <1>3, Budgets
  <2>2. wire' \in Seq(Events) BY <1>1
  <2> QED BY <1>1, <1>3, <1>6, <1>11, <2>1, <2>2 DEF TypedInv
<1>13. HostInv' BY <1>3, <1>7, StillHost
<1>14. ASSUME NEW k \in Attempts, k # client.n PROVE AgentInv(k)'
  <2>1. ~(~Idle(agents[k]) /\ (agents[k].attached \/ client'.clean)) BY <1>6, <1>14 DEF ControlInv, AgentInv
  <2>2. agents'[k] = agents[k] BY <1>11, <1>14
  <2>3. client'.n \in Nat /\ client'.n >= client.n BY <1>2, <1>6
  <2> QED BY <1>7, <2>1, <2>2, <2>3, StillOne
<1>15. ASSUME NEW m \in Attempts, m = client.n PROVE AgentInv(m)'
  <2>1. agents'[m] = b BY <1>11, <1>15
  <2> PICK a \in AgentStates : a = agents[m] BY <1>2
  <2>2. AgentInv(m) /\ a = Current BY <1>15 DEF ControlInv, Current
  <2>3. LegalPlan(a) /\ b.steps = a.steps BY <1>9, <2>2 DEF AgentInv
  <2>4. LegalPlan(agents[m])'
    <3>1. setting' = setting /\ (client.accepted => client'.accepted) BY <1>1, <1>6
    <3> QED BY <2>1, <2>3, <3>1, LegalKept DEF LegalPlan
  <2>5. /\ b.next <= Len(b.steps) + 1
        /\ b.stage \in {"checking", "doing"} => b.next <= Len(b.steps)
        /\ b.ok => b.stage = "ended" /\ b.next = Len(b.steps) + 1
    BY <1>9, <2>2 DEF AgentInv
  <2>6. b.stage = "checking" => Step(m)' = "pwntools-venv"
    <3>1. Step(m)' = b.steps[b.next] BY <2>1 DEF Step
    <3>2. Step(m) = a.steps[a.next] BY DEF Step
    <3> QED BY <1>9, <2>2, <3>1, <3>2 DEF AgentInv
  <2>7. ~(b.attached \/ client'.clean) BY <1>6, <1>9
  <2>8. ~(m > client'.n)
    <3>1. m \in Nat BY <1>2, <1>15
    <3> QED BY <1>6, <1>15, <3>1
  <2>9. DoneBy(b) = DoneBy(a) BY <1>9, <2>2, DoneSame
  <2>10. "docker-service" \in DoneBy(b) => host'.daemon BY <1>1, <2>2, <2>9 DEF AgentInv
  <2> QED BY <2>1, <2>4, <2>5, <2>6, <2>7, <2>8, <2>10 DEF AgentInv, DoneBy
<1>16. ClientInv'
  <2>1. Static(client.inv)' BY <1>1, <1>3, <1>6 DEF Static, ClientInv
  <2>2. client'.consent \/ setting'.accept => client'.accepted BY <1>1, <1>3, <1>6 DEF ClientInv
  <2> QED BY <1>2, <1>6, <2>1, <2>2 DEF ClientInv, Preparing, Running
<1>17. \A k \in Attempts : AgentInv(k)' BY <1>14, <1>15
<1> QED BY <1>12, <1>13, <1>16, <1>17 DEF ControlInv

\* What handling an event changes.
LEMMA Handles ==
  ASSUME NEW c \in ClientStates, NEW e \in Events, NEW d, d = Handled(c, e)
  PROVE  /\ d \in ClientStates /\ d.n = c.n /\ d.inv = c.inv /\ d.clean = c.clean /\ d.consent = c.consent
         /\ d.accepted = c.accepted /\ d.pc = c.pc /\ d.outcome = c.outcome /\ d.missed = c.missed
         /\ e.type = "done" => /\ e.step \in StepNames /\ d.completed = Append(c.completed, e.step)
                               /\ d.pending = RemoveFirst(c.pending, e.step)
         /\ e.type # "done" => d.completed = c.completed /\ d.pending = c.pending
<1>1. CASE e.type = "auth"
  <2>1. d = [c EXCEPT !.auth = TRUE] BY <1>1 DEF Handled
  <2> QED BY <1>1, <2>1 DEF ClientStates
<1>2. CASE e.type = "start"
  <2>1. d = [c EXCEPT !.auth = FALSE] BY <1>2 DEF Handled
  <2> QED BY <1>2, <2>1 DEF ClientStates
<1>3. CASE e.type = "done"
  <2>1. e.step \in StepNames BY <1>3 DEF Events
  <2>2. c.completed \in Seq(StepNames) /\ c.pending \in Seq(StepNames) BY DEF ClientStates
  <2>3. PICK completed \in Seq(StepNames) : completed = Append(c.completed, e.step) BY <2>1, <2>2, Appended
  <2>4. PICK pending \in Seq(StepNames) : pending = RemoveFirst(c.pending, e.step) BY <2>2, Removed
  <2>5. d = [c EXCEPT !.completed = completed, !.pending = pending] BY <1>3, <2>3, <2>4 DEF Handled, ClientStates
  <2>6. /\ d \in ClientStates /\ d.n = c.n /\ d.inv = c.inv /\ d.clean = c.clean /\ d.consent = c.consent
        /\ d.accepted = c.accepted /\ d.pc = c.pc /\ d.outcome = c.outcome /\ d.missed = c.missed
        /\ d.completed = completed /\ d.pending = pending
    BY <2>5 DEF ClientStates
  <2> QED BY <1>3, <2>1, <2>3, <2>4, <2>6
<1>4. CASE e.type = "failed"
  <2>1. d = c BY <1>4 DEF Handled
  <2> QED BY <1>4, <2>1
<1> QED BY <1>1, <1>2, <1>3, <1>4 DEF Events

\* An event is handled, or lost on the way to the handler.
LEMMA Followed ==
  ASSUME ControlInv, Follow
  PROVE  /\ client.pc = "running" /\ UNCHANGED <<setting, host, agents>> /\ wire # <<>> /\ wire' = Tail(wire)
         /\ wire' \in Seq(Events) /\ Head(wire) \in Events /\ client' \in ClientStates
         /\ client'.n = client.n /\ client'.inv = client.inv /\ client'.clean = client.clean /\ client'.consent = client.consent
         /\ client'.accepted = client.accepted /\ client'.pc = client.pc /\ client'.outcome = client.outcome
         /\ \/ client' = Handled(client, Head(wire)) /\ client'.missed = client.missed
            \/ client'.missed /\ client'.completed = client.completed /\ client'.pending = client.pending
<1>1. /\ client.pc = "running" /\ UNCHANGED <<setting, host, agents>> /\ wire # <<>> /\ wire' = Tail(wire)
      /\ client' = Handled(client, Head(wire)) \/ client' = [client EXCEPT !.missed = TRUE]
  BY DEF Follow
<1>2. client \in ClientStates /\ wire \in Seq(Events) BY CommandTyped
<1>3. wire' \in Seq(Events) /\ Head(wire) \in Events BY <1>1, <1>2, TailTyped
<1>4. CASE client' = Handled(client, Head(wire)) BY <1>1, <1>2, <1>3, <1>4, Handles
<1>5. CASE client' = [client EXCEPT !.missed = TRUE]
  <2>1. /\ client' \in ClientStates /\ client'.n = client.n /\ client'.inv = client.inv /\ client'.clean = client.clean
        /\ client'.consent = client.consent /\ client'.accepted = client.accepted /\ client'.pc = client.pc
        /\ client'.outcome = client.outcome /\ client'.missed /\ client'.completed = client.completed
        /\ client'.pending = client.pending
    BY <1>2, <1>5 DEF ClientStates
  <2> QED BY <1>1, <1>3, <2>1
<1> QED BY <1>1, <1>4, <1>5

LEMMA FollowKeeps == ASSUME ControlInv, Next, Follow PROVE ControlInv'
<1>1. /\ client.pc = "running" /\ UNCHANGED <<setting, host, agents>> /\ wire' \in Seq(Events) /\ client' \in ClientStates
      /\ client'.n = client.n /\ client'.inv = client.inv /\ client'.clean = client.clean /\ client'.consent = client.consent
      /\ client'.accepted = client.accepted /\ client'.pc = client.pc /\ client'.outcome = client.outcome
  BY Followed
<1>2. client.n \in Attempts BY <1>1, InAttempt
<1>3. (client.consent => client.accepted) /\ client.outcome = "none" BY <1>1 DEF ControlInv, ClientInv, Running
<1>4. StaysInAttempt(client') BY <1>1, <1>2, <1>3 DEF StaysInAttempt, Preparing, Running
<1> QED BY <1>1, <1>4, WithinKeeps

LEMMA ControlInit == ASSUME Init PROVE ControlInv
<1>1. /\ setting \in Settings /\ budget = setting.limit /\ host = setting.start /\ wire = <<>>
      /\ agents = [n \in Attempts |-> NoAgent]
  BY DEF Init
<1>2. /\ setting.limit \in Nat /\ setting.start \in Host /\ MaxAttempts \in Nat /\ setting.accept \in BOOLEAN
      /\ setting.start.current = "pinned" => setting.start.dest = "whole"
      /\ setting.start.dpkg = "interrupted" => setting.manager = "apt"
  BY <1>1, SettingFacts
<1>3. PICK inv \in Inventories : inv = Inspect BY <1>1, <1>2, InspectTyped
<1>4. client = [pc |-> "idle", n |-> 0, mode |-> "yes", inv |-> inv, consent |-> setting.accept, accepted |-> setting.accept,
                reviewed |-> {}, completed |-> <<>>, pending |-> <<>>, auth |-> FALSE,
                missed |-> FALSE, clean |-> TRUE, outcome |-> "none"]
  BY <1>3 DEF Init
<1>5. <<>> \in Seq(StepNames) /\ <<>> \in Seq(Events) /\ 0 \in 0..MaxAttempts BY <1>2
<1>6. client \in ClientStates /\ client.pc = "idle" /\ client.n = 0 /\ client.inv = Inspect /\ client.outcome = "none"
      /\ client.consent = setting.accept /\ client.accepted = setting.accept
  BY <1>2, <1>3, <1>4, <1>5 DEF ClientStates
<1>7. PICK a : a = NoAgent OBVIOUS
<1>8. /\ a \in AgentStates /\ a.stage = "none" /\ a.steps = <<>> /\ a.next = 1 /\ a.attached = FALSE /\ a.ok = FALSE
  BY <1>5, <1>7 DEF NoAgent, AgentStates
<1>9. agents \in [Attempts -> AgentStates] /\ \A n \in Attempts : agents[n] = a BY <1>1, <1>7, <1>8
<1>10. TypedInv BY <1>1, <1>2, <1>5, <1>6, <1>9 DEF TypedInv
<1>11. ASSUME NEW n \in Attempts PROVE AgentInv(n)
  <2>1. agents[n] = a BY <1>9
  <2>2. LegalPlan(a) BY <1>8, EmptyWithin, EmptySet DEF LegalPlan
  <2>3. DoneBy(a) = {} BY <1>8 DEF DoneBy
  <2>4. a.next <= Len(a.steps) + 1 BY <1>8
  <2> QED BY <1>7, <1>8, <2>1, <2>2, <2>3, <2>4 DEF AgentInv, Idle
<1>12. HostInv
  <2>1. UserOwnedOnly BY <1>1 DEF UserOwnedOnly
  <2> QED BY <1>1, <1>2, <2>1 DEF HostInv, ActivePwndbgWorks
<1>13. ClientInv BY <1>6, InspectStatic DEF ClientInv, Preparing, Running
<1> QED BY <1>10, <1>11, <1>12, <1>13 DEF ControlInv

LEMMA AgentKeeps == ASSUME ControlInv, Next, NEW n \in Attempts, Agent(n) PROVE ControlInv'
<1>1. budget' \in 0..setting.limit BY Budgets DEF ControlInv
<1>2. TypedInv' BY <1>1, AgentTyped DEF ControlInv
<1>3. HostInv' BY AgentKeepsHost
<1>4. \A k \in Attempts : AgentInv(k)' BY <1>2, AgentKeepsAgents
<1>5. ClientInv' BY AgentKeepsClient
<1> QED BY <1>2, <1>3, <1>4, <1>5 DEF ControlInv

LEMMA ControlStutters == ASSUME ControlInv, UNCHANGED vars PROVE ControlInv'
<1>1. /\ setting' = setting /\ budget' = budget /\ host' = host /\ client' = client /\ agents' = agents /\ wire' = wire
  BY DEF vars
<1>2. TypedInv' BY <1>1 DEF ControlInv, TypedInv
<1>3. Moves /\ client'.n \in Nat /\ client'.n >= client.n BY <1>1, CommandTyped DEF Moves
<1>4. HostInv' BY <1>3, StillHost DEF ControlInv
<1>5. \A k \in Attempts : ~Idle(agents[k]) /\ (agents[k].attached \/ client'.clean) => k = client'.n /\ client'.pc = "running"
  BY <1>1 DEF ControlInv, AgentInv
<1>6. \A k \in Attempts : AgentInv(k)' BY <1>1, <1>3, <1>5, StillAgents
<1>7. ClientInv'
  <2>1. PlanOf(client)' = PlanOf(client) BY <1>1, ClientPlanSame
  <2>2. Inspect' = Inspect BY <1>1 DEF Inspect, Version, ActivePwndbg
  <2>3. Static(client.inv)' BY <1>1 DEF ControlInv, ClientInv, Static
  <2>4. Current' = Current BY <1>1 DEF Current
  <2>5. ClientInv BY DEF ControlInv
  <2> QED BY <1>1, <2>1, <2>2, <2>3, <2>4, <2>5 DEF ClientInv
<1> QED BY <1>2, <1>4, <1>6, <1>7 DEF ControlInv

LEMMA ControlStep == ASSUME ControlInv, [Next]_vars PROVE ControlInv'
<1>1. CASE UNCHANGED vars BY <1>1, ControlStutters
<1>2. CASE Next
  <2>1. CASE Begin \/ Retry \/ Leave BY <1>2, <2>1, BeginKeeps, RetryKeeps, LeaveKeeps
  <2>2. CASE Command
    BY <1>2, <2>2, ConfirmKeeps, DeployKeeps, ApplyEndsKeep, ApplyKeeps, FollowKeeps, ReturnedKeeps, SeverKeeps, PostflightKeeps
       DEF Command
  <2>3. CASE \E n \in Attempts : Agent(n) BY <1>2, <2>3, AgentKeeps
  <2>4. CASE Over BY <2>4, ControlStutters DEF Over
  <2> QED BY <1>2, <2>1, <2>2, <2>3, <2>4 DEF Next
<1> QED BY <1>1, <1>2

\* An agent that is attached, or of an attempt nothing disturbed, belongs to the attempt that runs
\* (RunResult in bootstrap.go); an agent does only what its plan says, and a plan under --no-sudo has
\* no step under sudo (filterUserSteps); the group is joined only after the user's consent.
THEOREM BootstrapControl == Spec => []ControlInv
<1>1. Init => ControlInv BY ControlInit
<1>2. ControlInv /\ [Next]_vars => ControlInv' BY ControlStep
<1> QED BY <1>1, <1>2, PTL DEF Spec

\* In every state, in the middle of a step and under two agents at once too, the active pwndbg is whole
\* (agentPwndbgInstall in agent.go), nobody joined the docker group without consent (BuildPlan), and under
\* --no-sudo nothing that belongs to the system has changed.
THEOREM BootstrapHostSound == Spec => []HostSound
<1>1. ControlInv => HostSound
  <2> SUFFICES ASSUME ControlInv PROVE HostSound OBVIOUS
  <2>1. TypedInv /\ HostInv BY DEF ControlInv
  <2>2. MaxAttempts \in Nat BY <2>1, SettingFacts DEF TypedInv
  <2>3. /\ budget \in 0..setting.limit /\ {host.python, host.pip, host.wrapper, host.checked, host.daemon, host.group} \subseteq BOOLEAN
        /\ host.version \in {"none", "old", "pinned"} /\ host.dpkg \in {"whole", "interrupted"}
        /\ host.dest \in {"none", "broken", "whole"} /\ host.current \in {"none", "old", "pinned"}
    BY <2>1 DEF TypedInv, Host
  <2>4. /\ client.pc \in {"idle", "confirm", "deploy", "apply", "running", "postflight", "choice"}
        /\ client.n \in 0..MaxAttempts
        /\ client.outcome \in {"none", "previewed", "cancelled", "blocked", "failed", "ok"}
    BY <2>1 DEF TypedInv, ClientStates
  <2>5. ASSUME NEW n \in Attempts
        PROVE  /\ agents[n].stage \in {"none", "auth", "next", "checking", "doing", "ended"}
               /\ agents[n].next \in 1..(Len(agents[n].steps) + 1)
               /\ agents[n].attached /\ ~Idle(agents[n]) => n = client.n
               /\ agents[n].stage \in {"checking", "doing"} => agents[n].next <= Len(agents[n].steps)
    <3>1. agents[n] \in AgentStates BY <2>1 DEF TypedInv
    <3>2. AgentInv(n) BY DEF ControlInv
    <3>3. agents[n].next \in Nat \ {0} /\ Len(agents[n].steps) \in Nat BY <3>1 DEF AgentStates
    <3>4. agents[n].next <= Len(agents[n].steps) + 1 BY <3>2 DEF AgentInv
    <3>5. agents[n].next \in 1..(Len(agents[n].steps) + 1) BY <3>3, <3>4
    <3> QED BY <3>1, <3>2, <3>5 DEF AgentInv, AgentStates
  <2>6. TypeOK BY <2>3, <2>4, <2>5 DEF TypeOK
  <2>7. GroupNeedsConsent BY <2>1 DEF HostInv, GroupNeedsConsent
  <2> QED BY <2>1, <2>6, <2>7 DEF HostSound, HostInv
<1> QED BY <1>1, BootstrapControl, PTL

-----------------------------------------------------------------------------
(* What the command reports.                                               *)

\* The command and what it has heard.
ReportedInv == ControlInv /\ ReportInv

\* The report stays as it is.
SameReport(d) ==
  d.completed = client.completed /\ d.pending = client.pending /\ d.missed = client.missed /\ d.n = client.n

LEMMA NothingReported ==
  ASSUME NEW c, c.completed = <<>>, c.pending = <<>>, NEW a, a.steps = <<>>
  PROVE  Heard(c, a)
<1>1. Rising(<<>>) BY DEF Rising
<1> QED BY <1>1, EmptySet DEF Heard

\* Before and after the agent works, nothing is on the way.
LEMMA QuietReports ==
  ASSUME ReportedInv, SameReport(client'), agents' = agents,
         client'.pc # "running", client.pc # "running",
         client'.pc \in Preparing => client.pc \in Preparing,
         client'.pc = "postflight" => client.pc = "postflight",
         client'.outcome = "failed" => client.outcome = "failed" \/ client.pc \in Preparing \cup {"postflight"}
  PROVE  ReportInv'
<1>1. Current' = Current BY DEF Current, SameReport
<1>2. /\ client.pc \in Preparing => client.completed = <<>> /\ client.pending = <<>> /\ Current = NoAgent
      /\ client.pc = "postflight" \/ client.outcome = "failed" => Heard(client, Current) /\ Exact(client, Current)
  BY DEF ReportedInv, ReportInv, ControlInv, ClientInv, Running
<1>3. client.pc \in Preparing => Heard(client, Current) /\ Exact(client, Current)
  BY <1>2, NothingReported DEF NoAgent, Exact
<1>4. client'.pc = "postflight" \/ client'.outcome = "failed" => Heard(client, Current) /\ Exact(client, Current)
  BY <1>2, <1>3
<1>5. client'.pc \in Preparing => client'.completed = <<>> /\ client'.pending = <<>> BY <1>2 DEF SameReport
<1>6. client'.pc \in Running => client'.pc = "postflight" BY DEF Running
<1>7. client'.pc = "postflight" \/ client'.outcome = "failed" => Heard(client', Current') /\ Exact(client', Current')
  BY <1>1, <1>4 DEF Heard, Exact, SameReport
<1> QED BY <1>5, <1>6, <1>7 DEF ReportInv, Heard, Exact

LEMMA NewReports ==
  ASSUME client'.pc \in Preparing, client'.completed = <<>>, client'.pending = <<>>, client'.outcome = "none"
  PROVE  ReportInv'
<1>1. client'.pc \notin Running BY DEF Preparing, Running
<1> QED BY <1>1 DEF ReportInv, Preparing, Running

LEMMA BeginReports == ASSUME ReportedInv, Begin \/ Retry PROVE ReportInv'
<1> PICK c : c = NewAttempt(client) OBVIOUS
<1>1. client.n < setting.attempts BY DEF Begin, Retry
<1>2. c \in ClientStates /\ c.completed = <<>> /\ c.pending = <<>> /\ c.outcome = "none" BY <1>1, Anew DEF ReportedInv
<1>3. CASE Begin
  <2>1. PICK mode \in setting.modes : client' = [c EXCEPT !.pc = "confirm", !.mode = mode, !.consent = setting.accept, !.reviewed = {}]
    BY <1>3 DEF Begin
  <2>2. client'.pc = "confirm" /\ client'.completed = <<>> /\ client'.pending = <<>> /\ client'.outcome = "none"
    BY <1>2, <2>1 DEF ClientStates
  <2> QED BY <2>2, NewReports DEF Preparing
<1>4. CASE Retry
  <2>1. client' = [c EXCEPT !.pc = "apply"] BY <1>4 DEF Retry
  <2>2. client'.pc = "apply" /\ client'.completed = <<>> /\ client'.pending = <<>> /\ client'.outcome = "none"
    BY <1>2, <2>1 DEF ClientStates
  <2> QED BY <2>2, NewReports DEF Preparing
<1> QED BY <1>3, <1>4

LEMMA ConfirmReports == ASSUME ReportedInv, Confirm PROVE ReportInv'
<1>1. client.pc = "confirm" /\ UNCHANGED <<setting, host, agents, wire>> BY DEF Confirm
<1>2. client \in ClientStates /\ ControlInv BY <1>1, InAttempt DEF ReportedInv
<1>a. PICK asked \in BOOLEAN : asked = (client.mode = "wizard" /\ RiskAsked) OBVIOUS
<1>b. PICK answered : answered = [client EXCEPT !.consent = @ \/ asked, !.accepted = @ \/ asked] OBVIOUS
<1>f. PICK reviewed : reviewed = ToSet(PlanOf(answered).steps) OBVIOUS
<1>3. \/ client' = [answered EXCEPT !.reviewed = reviewed, !.pc = "deploy"]
      \/ client' = [answered EXCEPT !.reviewed = reviewed, !.pc = "idle", !.outcome = "previewed"]
      \/ client' = [client EXCEPT !.pc = "idle", !.outcome = "cancelled"]
  BY <1>a, <1>b, <1>f DEF Confirm
<1>4. answered \in ClientStates /\ SameReport(answered) /\ answered.outcome = client.outcome
  <2>1. PICK consent \in BOOLEAN, accepted \in BOOLEAN : answered = [client EXCEPT !.consent = consent, !.accepted = accepted]
    <3>1. client.consent \in BOOLEAN /\ client.accepted \in BOOLEAN BY <1>2 DEF ClientStates
    <3>2. (client.consent \/ asked) \in BOOLEAN /\ (client.accepted \/ asked) \in BOOLEAN OBVIOUS
    <3>3. answered = [client EXCEPT !.consent = client.consent \/ asked, !.accepted = client.accepted \/ asked]
      BY <1>2, <1>b DEF ClientStates
    <3> QED BY <3>2, <3>3
  <2> QED BY <1>2, <2>1 DEF ClientStates, SameReport
<1>5. CASE client' = [answered EXCEPT !.reviewed = reviewed, !.pc = "deploy"]
  <2>1. SameReport(client') /\ client'.pc = "deploy" /\ client'.outcome = client.outcome BY <1>4, <1>5 DEF ClientStates, SameReport
  <2> QED BY <1>1, <2>1, QuietReports DEF Preparing
<1>6. CASE client' = [answered EXCEPT !.reviewed = reviewed, !.pc = "idle", !.outcome = "previewed"]
  <2>1. SameReport(client') /\ client'.pc = "idle" /\ client'.outcome = "previewed" BY <1>4, <1>6 DEF ClientStates, SameReport
  <2> QED BY <1>1, <2>1, QuietReports DEF Preparing
<1>7. CASE client' = [client EXCEPT !.pc = "idle", !.outcome = "cancelled"]
  <2>1. SameReport(client') /\ client'.pc = "idle" /\ client'.outcome = "cancelled" BY <1>2, <1>7 DEF ClientStates, SameReport
  <2> QED BY <1>1, <2>1, QuietReports DEF Preparing
<1> QED BY <1>3, <1>5, <1>6, <1>7

LEMMA DeployReports == ASSUME ReportedInv, Deploy PROVE ReportInv'
<1>1. client.pc = "deploy" /\ UNCHANGED <<setting, host, agents, wire>> BY DEF Deploy
<1>2. client \in ClientStates /\ ControlInv BY <1>1, InAttempt DEF ReportedInv
<1>3. CASE client' = [client EXCEPT !.pc = "apply"]
  <2>1. SameReport(client') /\ client'.pc = "apply" /\ client'.outcome = client.outcome BY <1>2, <1>3 DEF ClientStates, SameReport
  <2> QED BY <1>1, <2>1, QuietReports DEF Preparing
<1>4. CASE client' = [Blamed(client) EXCEPT !.pc = "idle", !.outcome = "failed"]
  <2>1. SameReport(client') /\ client'.pc = "idle" /\ client'.outcome = "failed" BY <1>2, <1>4 DEF ClientStates, SameReport, Blamed
  <2> QED BY <1>1, <2>1, QuietReports DEF Preparing
<1> QED BY <1>3, <1>4 DEF Deploy

LEMMA LeaveReports == ASSUME ReportedInv, Leave PROVE ReportInv'
<1>1. client.pc = "choice" /\ UNCHANGED <<setting, host, agents, wire>> /\ client' = [client EXCEPT !.pc = "idle"] BY DEF Leave
<1>2. client \in ClientStates /\ ControlInv BY <1>1, InAttempt DEF ReportedInv
<1>3. SameReport(client') /\ client'.pc = "idle" /\ client'.outcome = client.outcome BY <1>1, <1>2 DEF ClientStates, SameReport
<1> QED BY <1>1, <1>3, QuietReports DEF Preparing

\* The command's own outcomes: of a plan that does not run, and of the postflight check.
LEMMA EndReports == ASSUME ReportedInv, ApplyRefused \/ ApplyNothing \/ Postflight PROVE ReportInv'
<1>1. client.pc \in {"apply", "postflight"} /\ UNCHANGED <<setting, host, agents, wire>>
  BY DEF ApplyRefused, ApplyNothing, Postflight
<1>2. client \in ClientStates /\ ControlInv BY <1>1, InAttempt DEF ReportedInv
<1>3. PICK c \in {client, Blamed(client)}, outcome \in {"blocked", "failed", "ok"} : client' = Return(c, outcome)
  BY DEF ApplyRefused, ApplyNothing, Postflight
<1>4. c \in ClientStates /\ SameReport(c)
  <2>1. TypedInv BY <1>2 DEF ControlInv
  <2> QED BY <1>2, <2>1, BlamedTyped DEF SameReport
<1>5. SameReport(client') /\ client'.pc \in {"choice", "idle"} BY <1>3, <1>4, Returns DEF SameReport
<1> QED BY <1>1, <1>5, QuietReports DEF Preparing

LEMMA ApplyReports == ASSUME ReportedInv, Apply PROVE ReportInv'
<1>a. PICK steps : steps = PlanOf(client).steps OBVIOUS
<1>b. PICK packages : packages = PlanOf(client).packages OBVIOUS
<1>c. PICK stage \in {"auth", "next"} : stage = IF Authenticated(PlanOf(client)) THEN "auth" ELSE "next" OBVIOUS
<1>1. /\ client.pc = "apply" /\ client' = [client EXCEPT !.pc = "running", !.pending = steps]
      /\ agents' = [agents EXCEPT ![client.n] =
           [NoAgent EXCEPT !.steps = steps, !.packages = packages, !.attached = TRUE, !.stage = stage]]
      /\ wire' = <<[type |-> "auth", step |-> "auth"]>> \/ wire' = <<>>
  BY <1>a, <1>b, <1>c DEF Apply, Runs
<1>2. /\ client.n \in Attempts /\ client \in ClientStates /\ agents \in [Attempts -> AgentStates] /\ setting \in Settings
  BY <1>1, InAttempt, CommandTyped DEF ReportedInv
<1>3. /\ client'.pc = "running" /\ client'.pending = steps /\ client'.completed = client.completed /\ client'.n = client.n
      /\ client'.outcome = client.outcome
  BY <1>1, <1>2 DEF ClientStates
<1>4. client.completed = <<>> /\ client.outcome = "none"
  BY <1>1 DEF ReportedInv, ReportInv, ControlInv, ClientInv, Preparing
<1>5. PICK b : b = [NoAgent EXCEPT !.steps = steps, !.packages = packages, !.attached = TRUE, !.stage = stage] OBVIOUS
<1>6. b.steps = steps /\ b.next = 1 BY <1>5 DEF NoAgent
<1>7. Current' = b BY <1>1, <1>2, <1>3, <1>5 DEF Current
<1>8. Rising(steps) /\ Rising(<<>>) BY <1>2, <1>a, PlanShape, EmptyWithin DEF Within
<1>9. Heard(client', b) BY <1>3, <1>4, <1>6, <1>8, EmptySet DEF Heard
<1>10. \A i \in 1..Len(wire') : wire'[i].type # "done" BY <1>1
<1>11. DoneBy(b) = {} BY <1>6 DEF DoneBy
<1>12. Unheard(client, Current)' BY <1>7, <1>10, <1>11 DEF Unheard, Finishes, DoneBy
<1>13. Heard(client, Current)' BY <1>7, <1>9 DEF Heard, DoneBy
<1> QED BY <1>3, <1>4, <1>12, <1>13 DEF ReportInv, Preparing

\* What is heard stays true while the agent goes on.
LEMMA HeardStill ==
  ASSUME NEW c, NEW a, NEW d, NEW b, Heard(c, a), d.completed = c.completed, d.pending = c.pending,
         b.steps = a.steps, DoneBy(a) \subseteq DoneBy(b)
  PROVE  Heard(d, b)
  BY DEF Heard

\* What is done comes before the step in progress.
LEMMA DoneBefore ==
  ASSUME NEW a \in AgentStates, Rising(a.steps), a.next <= Len(a.steps), NEW s \in DoneBy(a)
  PROVE  Rank(s) < Rank(a.steps[a.next])
<1>1. PICK i \in 1..(a.next - 1) : s = a.steps[i] BY DEF DoneBy
<1>2. a.next \in Nat \ {0} /\ Len(a.steps) \in Nat BY DEF AgentStates
<1>3. i \in 1..Len(a.steps) /\ a.next \in 1..Len(a.steps) /\ i < a.next BY <1>1, <1>2
<1> QED BY <1>1, <1>3 DEF Rising

\* A message other than the end of a step says nothing.
LEMMA UnheardAside ==
  ASSUME wire \in Seq(Events), NEW w \in Seq(Events), NEW e \in Events,
         w = wire \/ (w = Append(wire, e) /\ e.type # "done")
  PROVE  /\ Len(w) \in Nat /\ Len(wire) \in Nat /\ Len(w) >= Len(wire)
         /\ \A i \in 1..Len(w) : w[i].type = "done" => i \in 1..Len(wire)
         /\ \A i \in 1..Len(wire) : w[i] = wire[i]
<1>1. CASE w = wire BY <1>1
<1>2. CASE w = Append(wire, e) /\ e.type # "done"
  <2>1. Len(w) = Len(wire) + 1 /\ (\A i \in 1..Len(wire) : w[i] = wire[i]) /\ w[Len(wire) + 1] = e BY <1>2
  <2>2. Len(wire) \in Nat OBVIOUS
  <2> QED BY <1>2, <2>1, <2>2
<1> QED BY <1>1, <1>2

LEMMA UnheardStill ==
  ASSUME wire \in Seq(Events), wire' \in Seq(Events), NEW e \in Events,
         wire' = wire \/ (wire' = Append(wire, e) /\ e.type # "done"),
         client'.completed = client.completed, client'.missed = client.missed,
         DoneBy(Current') = DoneBy(Current), Unheard(client, Current)
  PROVE  Unheard(client, Current)'
<1>1. /\ \A i \in 1..Len(wire') : wire'[i].type = "done" => i \in 1..Len(wire)
      /\ \A i \in 1..Len(wire) : wire'[i] = wire[i] /\ i \in 1..Len(wire')
  BY UnheardAside
<1>2. ASSUME NEW i \in 1..Len(wire'), wire'[i].type = "done"
      PROVE  /\ wire'[i].step \in DoneBy(Current')
             /\ \A s \in ToSet(client'.completed) : Rank(s) < Rank(wire'[i].step)
             /\ \A j \in 1..Len(wire') : j < i /\ wire'[j].type = "done" => Rank(wire'[j].step) < Rank(wire'[i].step)
  <2>1. i \in 1..Len(wire) /\ wire[i] = wire'[i] BY <1>1, <1>2
  <2>2. /\ wire[i].step \in DoneBy(Current)
        /\ \A s \in ToSet(client.completed) : Rank(s) < Rank(wire[i].step)
        /\ \A j \in 1..Len(wire) : j < i /\ wire[j].type = "done" => Rank(wire[j].step) < Rank(wire[i].step)
    BY <1>2, <2>1 DEF Unheard, Finishes
  <2> QED BY <1>1, <2>1, <2>2
<1>3. ASSUME ~client'.missed, NEW s \in DoneBy(Current')
      PROVE  s \in ToSet(client'.completed) \/ \E i \in 1..Len(wire') : wire'[i].type = "done" /\ wire'[i].step = s
  <2>1. s \in ToSet(client.completed) \/ \E i \in 1..Len(wire) : wire[i].type = "done" /\ wire[i].step = s
    BY <1>3 DEF Unheard, Finishes
  <2> QED BY <1>1, <2>1
<1> SUFFICES /\ \A i \in 1..Len(wire') : wire'[i].type = "done" =>
                  /\ wire'[i].step \in DoneBy(Current')
                  /\ \A s \in ToSet(client'.completed) : Rank(s) < Rank(wire'[i].step)
                  /\ \A j \in 1..Len(wire') : j < i /\ wire'[j].type = "done" => Rank(wire'[j].step) < Rank(wire'[i].step)
             /\ ~client'.missed => \A s \in DoneBy(Current') : s \in ToSet(client'.completed)
                  \/ \E i \in 1..Len(wire') : wire'[i].type = "done" /\ wire'[i].step = s
  BY DEF Unheard, Finishes, DoneBy
<1> QED BY <1>2, <1>3

\* The end of a step is the last thing on the way.
LEMMA UnheardDone ==
  ASSUME wire \in Seq(Events), NEW step \in StepNames, wire' = Append(wire, [type |-> "done", step |-> step]),
         client'.completed = client.completed, client'.missed = client.missed,
         DoneBy(Current') = DoneBy(Current) \cup {step}, \A s \in DoneBy(Current) : Rank(s) < Rank(step),
         ToSet(client.completed) \subseteq DoneBy(Current), Unheard(client, Current)
  PROVE  Unheard(client, Current)'
<1>1. PICK e \in Events : e = [type |-> "done", step |-> step] BY DEF Events
<1>2. e.type = "done" /\ e.step = step BY <1>1
<1>3. PICK m \in Nat : m = Len(wire) OBVIOUS
<1>4. /\ Len(wire') = m + 1 /\ (\A i \in 1..m : wire'[i] = wire[i]) /\ wire'[m + 1] = e
  BY <1>1, <1>3
<1>5. ASSUME NEW i \in 1..Len(wire'), wire'[i].type = "done"
      PROVE  /\ wire'[i].step \in DoneBy(Current')
             /\ \A s \in ToSet(client'.completed) : Rank(s) < Rank(wire'[i].step)
             /\ \A j \in 1..Len(wire') : j < i /\ wire'[j].type = "done" => Rank(wire'[j].step) < Rank(wire'[i].step)
  <2>1. CASE i \in 1..m
    <3>1. /\ wire[i].step \in DoneBy(Current)
          /\ \A s \in ToSet(client.completed) : Rank(s) < Rank(wire[i].step)
          /\ \A j \in 1..m : j < i /\ wire[j].type = "done" => Rank(wire[j].step) < Rank(wire[i].step)
      BY <1>3, <1>4, <1>5, <2>1 DEF Unheard, Finishes
    <3>2. \A j \in 1..Len(wire') : j < i => j \in 1..m BY <1>3, <1>4, <2>1
    <3> QED BY <1>4, <2>1, <3>1, <3>2
  <2>2. CASE i = m + 1
    <3>1. \A j \in 1..Len(wire') : j < i => j \in 1..m BY <1>3, <1>4, <2>2
    <3>2. \A j \in 1..m : wire[j].type = "done" => wire[j].step \in DoneBy(Current) BY <1>3 DEF Unheard, Finishes
    <3>3. wire'[i].step = step BY <1>2, <1>4, <2>2
    <3>4. \A j \in 1..Len(wire') : j < i /\ wire'[j].type = "done" => Rank(wire'[j].step) < Rank(step) BY <1>4, <3>1, <3>2
    <3> QED BY <3>3, <3>4
  <2> QED BY <1>3, <1>4, <2>1, <2>2
<1>6. ASSUME ~client'.missed, NEW s \in DoneBy(Current')
      PROVE  s \in ToSet(client'.completed) \/ \E i \in 1..Len(wire') : wire'[i].type = "done" /\ wire'[i].step = s
  <2>1. CASE s = step
    <3>1. m + 1 \in 1..Len(wire') BY <1>3, <1>4
    <3> QED BY <1>2, <1>4, <2>1, <3>1
  <2>2. CASE s \in DoneBy(Current)
    <3>1. s \in ToSet(client.completed) \/ \E i \in 1..m : wire[i].type = "done" /\ wire[i].step = s
      BY <1>3, <1>6, <2>2 DEF Unheard, Finishes
    <3>2. \A i \in 1..m : i \in 1..Len(wire') /\ wire'[i] = wire[i] BY <1>3, <1>4
    <3> QED BY <3>1, <3>2
  <2> QED BY <2>1, <2>2
<1> SUFFICES /\ \A i \in 1..Len(wire') : wire'[i].type = "done" =>
                  /\ wire'[i].step \in DoneBy(Current')
                  /\ \A s \in ToSet(client'.completed) : Rank(s) < Rank(wire'[i].step)
                  /\ \A j \in 1..Len(wire') : j < i /\ wire'[j].type = "done" => Rank(wire'[j].step) < Rank(wire'[i].step)
             /\ ~client'.missed => \A s \in DoneBy(Current') : s \in ToSet(client'.completed)
                  \/ \E i \in 1..Len(wire') : wire'[i].type = "done" /\ wire'[i].step = s
  BY DEF Unheard, Finishes, DoneBy
<1> QED BY <1>5, <1>6

\* An agent's step, seen from the report.
LEMMA AgentReports == ASSUME ReportedInv, NEW n \in Attempts, Agent(n) PROVE ReportInv'
<1>1. /\ TypedInv /\ AgentInv(n) /\ ClientInv /\ ReportInv /\ client.n \in Nat BY CommandTyped DEF ReportedInv, ControlInv
<1>2. PICK stage \in {"next", "checking", "doing", "ended"}, next \in Nat \ {0}, ok \in BOOLEAN :
        AgentBecomes(n, stage, next, ok) /\ Acts(n, stage, next, ok)
  BY <1>1, AgentActs
<1>3. client' = client \/ client' = Blamed(client) BY <1>1, <1>2, AgentMoves
<1>4. /\ client'.pc = client.pc /\ client'.n = client.n /\ client'.completed = client.completed /\ client'.pending = client.pending
      /\ client'.missed = client.missed /\ client'.outcome = client.outcome
  BY <1>1, <1>3, BlamedTyped
<1>5. Tells(n) /\ ~Idle(agents[n]) BY <1>1, <1>2, AgentTells DEF Acts
<1>6. /\ \A k \in Attempts : k # n => agents'[k] = agents[k]
      /\ agents'[n] \in AgentStates /\ agents[n] \in AgentStates /\ agents'[n].next = next
      /\ agents'[n].steps = agents[n].steps /\ agents'[n].attached = agents[n].attached
  BY <1>1, <1>2, Moved DEF TypedInv
<1>7. Rising(agents[n].steps) BY <1>1 DEF AgentInv, LegalPlan, Within
<1>8. CASE n # client.n
  <2>1. UNCHANGED wire
    <3>1. ~agents[n].attached BY <1>1, <1>5, <1>8 DEF AgentInv
    <3> QED BY <1>5, <3>1 DEF Tells
  <2>2. CASE client.pc = "idle" /\ client.outcome = "none"
    <3> QED BY <1>4, <2>2 DEF ReportInv, Preparing, Running
  <2>3. CASE client.pc # "idle" \/ client.outcome # "none"
    <3>1. client.n \in Attempts BY <1>1, <2>3 DEF ClientInv
    <3>2. Current' = Current BY <1>4, <1>6, <1>8, <3>1 DEF Current
    <3> QED BY <1>1, <1>4, <2>1, <3>2 DEF ReportInv, Heard, Unheard, Exact, Finishes, DoneBy
  <2> QED BY <2>2, <2>3
<1>9. CASE n = client.n
  <2>1. /\ Current = agents[n] /\ Current' = agents'[n] BY <1>4, <1>9 DEF Current
  <2>2. client.pc \notin Preparing /\ client.pc # "postflight"
    <3>1. Idle(NoAgent) BY DEF Idle, NoAgent
    <3>2. agents[n].ok => Idle(agents[n]) BY <1>1 DEF AgentInv, Idle
    <3> QED BY <1>1, <1>5, <2>1, <3>1, <3>2 DEF ClientInv
  <2>3. CASE client.pc # "running"
    <3>1. ~agents[n].attached BY <1>1, <1>5, <2>3 DEF AgentInv
    <3>2. next = agents[n].next \/ next = agents[n].next + 1 BY <1>2 DEF Acts
    <3>3. DoneBy(agents[n]) \subseteq DoneBy(agents'[n]) BY <1>6, <3>2, DoneGrows, DoneSame
    <3>4. client.outcome = "failed" => Heard(client, Current) BY <1>1 DEF ReportInv
    <3>5. client'.outcome = "failed" => Heard(client', Current')
      BY <1>4, <1>6, <2>1, <3>3, <3>4, HeardStill
    <3>6. Exact(client', Current') BY <1>6, <2>1, <3>1 DEF Exact
    <3> QED BY <1>4, <2>2, <2>3, <3>5, <3>6 DEF ReportInv, Heard, Exact, DoneBy, Running
  <2>4. CASE client.pc = "running"
    <3>1. /\ agents[n].attached /\ Heard(client, Current) /\ Unheard(client, Current) /\ client.outcome = "none"
      BY <1>1, <2>1, <2>4 DEF ClientInv, ReportInv, Running
    <3>2. wire \in Seq(Events) /\ wire' \in Seq(Events) BY <1>1, <1>5, TellsTyped DEF TypedInv
    <3>3. CASE next = agents[n].next
      <4>1. DoneBy(Current') = DoneBy(Current) BY <1>6, <2>1, <3>3, DoneSame
      <4>2. \E e \in Events : wire' = wire \/ (wire' = Append(wire, e) /\ e.type # "done")
        <5>1. CASE UNCHANGED wire
          <6>1. [type |-> "auth", step |-> "auth"] \in Events BY DEF Events
          <6> QED BY <5>1, <6>1
        <5>2. ASSUME NEW type \in {"start", "failed"}, agents[n].next <= Len(agents[n].steps),
                     wire' = Append(wire, [type |-> type, step |-> Step(n)])
              PROVE  \E e \in Events : wire' = wire \/ (wire' = Append(wire, e) /\ e.type # "done")
          <6>1. Step(n) \in StepNames BY <1>1, <5>2, StepIsPlanned
          <6>2. PICK e \in Events : e = [type |-> type, step |-> Step(n)] BY <6>1 DEF Events
          <6> QED BY <5>2, <6>2
        <5>3. next \in Nat BY <1>2
        <5> QED BY <1>5, <1>6, <3>1, <3>3, <5>1, <5>2, <5>3 DEF Tells
      <4>3. Unheard(client, Current)' BY <1>4, <3>1, <3>2, <4>1, <4>2, UnheardStill
      <4>4. Heard(client', Current') BY <1>4, <1>6, <2>1, <3>1, <4>1, HeardStill
      <4> QED BY <1>4, <2>4, <3>1, <4>3, <4>4 DEF ReportInv, Heard, DoneBy, Running, Preparing
    <3>4. CASE next # agents[n].next
      <4>1. /\ next = agents[n].next + 1 /\ agents[n].next <= Len(agents[n].steps)
            /\ wire' = Append(wire, [type |-> "done", step |-> Step(n)])
        BY <1>5, <1>6, <3>1, <3>4 DEF Tells
      <4>2. Step(n) \in StepNames /\ Step(n) = agents[n].steps[agents[n].next] BY <1>1, <4>1, StepIsPlanned
      <4>3. DoneBy(Current') = DoneBy(Current) \cup {Step(n)} BY <1>6, <2>1, <4>1, <4>2, DoneGrows
      <4>4. \A s \in DoneBy(Current) : Rank(s) < Rank(Step(n)) BY <1>6, <1>7, <2>1, <4>1, <4>2, DoneBefore
      <4>5. ToSet(client.completed) \subseteq DoneBy(Current) BY <3>1 DEF Heard
      <4>6. Unheard(client, Current)' BY <1>4, <3>1, <3>2, <4>1, <4>2, <4>3, <4>4, <4>5, UnheardDone
      <4>7. Heard(client', Current') BY <1>4, <1>6, <2>1, <3>1, <4>3, HeardStill
      <4> QED BY <1>4, <2>4, <3>1, <4>6, <4>7 DEF ReportInv, Heard, DoneBy, Running, Preparing
    <3> QED BY <3>3, <3>4
  <2> QED BY <2>3, <2>4
<1> QED BY <1>8, <1>9

LEMMA TailIs ==
  ASSUME wire \in Seq(Events), wire # <<>>, wire' = Tail(wire)
  PROVE  /\ Len(wire) \in Nat /\ Len(wire) >= 1 /\ Len(wire') = Len(wire) - 1 /\ Head(wire) = wire[1]
         /\ \A i \in 1..Len(wire') : i + 1 \in 1..Len(wire) /\ wire'[i] = wire[i + 1]
<1> PICK m \in Nat : m = Len(wire) OBVIOUS
<1>1. m >= 1 OBVIOUS
<1>2. Len(wire') = m - 1 /\ \A i \in 1..(m - 1) : wire'[i] = wire[i + 1] OBVIOUS
<1> QED BY <1>1, <1>2

\* One event less on the way.
LEMMA UnheardNext ==
  ASSUME wire \in Seq(Events), wire # <<>>, wire' = Tail(wire), Current' = Current, Unheard(client, Current),
         \/ /\ Head(wire).type = "done" /\ ToSet(client'.completed) = ToSet(client.completed) \cup {Head(wire).step}
            /\ client'.missed = client.missed
         \/ /\ Head(wire).type # "done" /\ ToSet(client'.completed) = ToSet(client.completed)
            /\ client'.missed = client.missed
         \/ client'.missed /\ ToSet(client'.completed) = ToSet(client.completed)
  PROVE  Unheard(client, Current)'
<1>1. /\ Len(wire) \in Nat /\ Len(wire) >= 1 /\ Len(wire') = Len(wire) - 1 /\ Head(wire) = wire[1]
      /\ \A i \in 1..Len(wire') : i + 1 \in 1..Len(wire) /\ wire'[i] = wire[i + 1]
  BY TailIs
<1>2. 1 \in 1..Len(wire) BY <1>1
<1>3. ASSUME NEW i \in 1..Len(wire'), wire'[i].type = "done"
      PROVE  /\ wire'[i].step \in DoneBy(Current)
             /\ \A s \in ToSet(client'.completed) : Rank(s) < Rank(wire'[i].step)
             /\ \A j \in 1..Len(wire') : j < i /\ wire'[j].type = "done" => Rank(wire'[j].step) < Rank(wire'[i].step)
  <2>1. i + 1 \in 1..Len(wire) /\ wire'[i] = wire[i + 1] BY <1>1
  <2>2. /\ wire[i + 1].step \in DoneBy(Current)
        /\ \A s \in ToSet(client.completed) : Rank(s) < Rank(wire[i + 1].step)
        /\ \A j \in 1..Len(wire) : j < i + 1 /\ wire[j].type = "done" => Rank(wire[j].step) < Rank(wire[i + 1].step)
    BY <1>3, <2>1 DEF Unheard, Finishes
  <2>3. \A j \in 1..Len(wire') : j < i => j + 1 \in 1..Len(wire) /\ j + 1 < i + 1 /\ wire'[j] = wire[j + 1] BY <1>1
  <2>4. wire[1].type = "done" => Rank(wire[1].step) < Rank(wire[i + 1].step) BY <1>2, <2>2
  <2>5. \A s \in ToSet(client'.completed) : s \in ToSet(client.completed) \/ (wire[1].type = "done" /\ s = wire[1].step)
    BY <1>1
  <2>6. \A s \in ToSet(client'.completed) : Rank(s) < Rank(wire'[i].step) BY <2>1, <2>2, <2>4, <2>5
  <2>7. \A j \in 1..Len(wire') : j < i /\ wire'[j].type = "done" => Rank(wire'[j].step) < Rank(wire'[i].step)
    BY <2>1, <2>2, <2>3
  <2> QED BY <2>1, <2>2, <2>6, <2>7
<1>4. ASSUME ~client'.missed, NEW s \in DoneBy(Current)
      PROVE  s \in ToSet(client'.completed) \/ \E i \in 1..Len(wire') : wire'[i].type = "done" /\ wire'[i].step = s
  <2>1. ~client.missed /\ ToSet(client.completed) \subseteq ToSet(client'.completed) BY <1>4
  <2>2. s \in ToSet(client.completed) \/ \E i \in 1..Len(wire) : wire[i].type = "done" /\ wire[i].step = s
    BY <2>1 DEF Unheard, Finishes
  <2>3. ASSUME NEW i \in 1..Len(wire), wire[i].type = "done", wire[i].step = s, s \notin ToSet(client'.completed)
        PROVE  \E k \in 1..Len(wire') : wire'[k].type = "done" /\ wire'[k].step = s
    <3>1. i # 1 BY <1>1, <1>4, <2>3
    <3>2. i - 1 \in 1..Len(wire') BY <1>1, <3>1
    <3>3. wire'[i - 1] = wire[(i - 1) + 1] BY <1>1, <3>2
    <3>4. (i - 1) + 1 = i BY <3>2
    <3> QED BY <2>3, <3>2, <3>3, <3>4
  <2> QED BY <2>1, <2>2, <2>3
<1> SUFFICES /\ \A i \in 1..Len(wire') : wire'[i].type = "done" =>
                  /\ wire'[i].step \in DoneBy(Current')
                  /\ \A s \in ToSet(client'.completed) : Rank(s) < Rank(wire'[i].step)
                  /\ \A j \in 1..Len(wire') : j < i /\ wire'[j].type = "done" => Rank(wire'[j].step) < Rank(wire'[i].step)
             /\ ~client'.missed => \A s \in DoneBy(Current') : s \in ToSet(client'.completed)
                  \/ \E i \in 1..Len(wire') : wire'[i].type = "done" /\ wire'[i].step = s
  BY DEF Unheard, Finishes, DoneBy
<1> QED BY <1>3, <1>4

LEMMA FollowReports == ASSUME ReportedInv, Follow PROVE ReportInv'
<1>1. /\ client.pc = "running" /\ UNCHANGED <<setting, host, agents>> /\ wire # <<>> /\ wire' = Tail(wire)
      /\ Head(wire) \in Events /\ client'.n = client.n /\ client'.pc = client.pc /\ client'.outcome = client.outcome
      /\ \/ client' = Handled(client, Head(wire)) /\ client'.missed = client.missed
         \/ client'.missed /\ client'.completed = client.completed /\ client'.pending = client.pending
  BY Followed DEF ReportedInv
<1>2. wire \in Seq(Events) /\ client \in ClientStates BY CommandTyped DEF ReportedInv
<1>3. Current' = Current BY <1>1 DEF Current
<1>4. client.outcome = "none" BY <1>1 DEF ReportedInv, ControlInv, ClientInv, Running
<1>5. Heard(client, Current) /\ Unheard(client, Current) BY <1>1 DEF ReportedInv, ReportInv, Running
<1>6. PICK e \in Events : e = Head(wire) BY <1>1
<1>7. client.completed \in Seq(StepNames) /\ client.pending \in Seq(StepNames) BY <1>2 DEF ClientStates
<1>8. Heard(client', Current) /\ Unheard(client, Current)'
  <2>1. CASE client' = Handled(client, Head(wire)) /\ client'.missed = client.missed /\ e.type = "done"
    <3>1. /\ e.step \in StepNames /\ client'.completed = Append(client.completed, e.step)
          /\ client'.pending = RemoveFirst(client.pending, e.step)
      BY <1>2, <1>6, <2>1, Handles
    <3>2. /\ e.step \in DoneBy(Current) /\ \A s \in ToSet(client.completed) : Rank(s) < Rank(e.step)
      <4>1. Head(wire) = wire[1] /\ 1 \in 1..Len(wire) BY <1>1, <1>2, TailIs
      <4> QED BY <1>5, <1>6, <2>1, <4>1 DEF Unheard, Finishes
    <3>3. /\ ToSet(client'.completed) = ToSet(client.completed) \cup {e.step} /\ Rising(client'.completed)
      BY <1>5, <1>7, <3>1, <3>2, Appended DEF Heard
    <3>4. Rising(client'.pending) /\ ToSet(client'.pending) = ToSet(client.pending) \ {e.step}
      BY <1>5, <1>7, <3>1, Removed DEF Heard
    <3>5. Heard(client', Current) BY <1>5, <3>2, <3>3, <3>4 DEF Heard
    <3>6. Unheard(client, Current)' BY <1>1, <1>2, <1>3, <1>5, <1>6, <2>1, <3>3, UnheardNext
    <3> QED BY <3>5, <3>6
  <2>2. CASE client' = Handled(client, Head(wire)) /\ client'.missed = client.missed /\ e.type # "done"
    <3>1. client'.completed = client.completed /\ client'.pending = client.pending BY <1>2, <1>6, <2>2, Handles
    <3>2. Unheard(client, Current)' BY <1>1, <1>2, <1>3, <1>5, <1>6, <2>2, <3>1, UnheardNext
    <3> QED BY <1>5, <3>1, <3>2 DEF Heard
  <2>3. CASE client'.missed /\ client'.completed = client.completed /\ client'.pending = client.pending
    <3>1. Unheard(client, Current)' BY <1>1, <1>2, <1>3, <1>5, <2>3, UnheardNext
    <3> QED BY <1>5, <2>3, <3>1 DEF Heard
  <2> QED BY <1>1, <2>1, <2>2, <2>3
<1>9. Heard(client', Current') BY <1>3, <1>8
<1> QED BY <1>1, <1>4, <1>8, <1>9 DEF ReportInv, Heard, DoneBy, Preparing

\* Ssh has returned: every event has been read.
LEMMA ReturnedReports == ASSUME ReportedInv, Returned PROVE ReportInv'
<1>1. /\ client.pc = "running" /\ wire = <<>> /\ UNCHANGED <<setting, host, agents, wire>>
      /\ client' = [client EXCEPT !.pc = "postflight"] \/ client' = Return(client, "failed")
  BY DEF Returned
<1>2. client \in ClientStates /\ ControlInv BY <1>1, InAttempt DEF ReportedInv
<1>3. /\ SameReport(client') /\ client'.pc \notin Preparing \cup {"running"}
  <2>1. CASE client' = [client EXCEPT !.pc = "postflight"] BY <1>2, <2>1 DEF ClientStates, SameReport, Preparing
  <2>2. CASE client' = Return(client, "failed") BY <1>2, <2>2, Returns DEF SameReport, Preparing
  <2> QED BY <1>1, <2>1, <2>2
<1>4. Heard(client, Current) /\ Unheard(client, Current) BY <1>1 DEF ReportedInv, ReportInv, Running
<1>5. Exact(client, Current) BY <1>1, <1>4 DEF Exact, Unheard
<1>6. Current' = Current BY <1>1, <1>3 DEF Current, SameReport
<1>7. Heard(client', Current') /\ Exact(client', Current') BY <1>3, <1>4, <1>5, <1>6 DEF Heard, Exact, SameReport
<1> QED BY <1>3, <1>7 DEF ReportInv, Heard, Exact, DoneBy

\* The agent is left behind: what was heard of it stays.
LEMMA SeverReports == ASSUME ReportedInv, Sever PROVE ReportInv'
<1>1. /\ client.pc = "running" /\ client' = Return(Blamed(client), "failed")
      /\ agents' = [agents EXCEPT ![client.n].attached = FALSE]
  BY DEF Sever
<1>2. /\ client.n \in Attempts /\ agents \in [Attempts -> AgentStates] /\ TypedInv
  BY <1>1, InAttempt, CommandTyped DEF ReportedInv, ControlInv
<1>3. SameReport(client') /\ client'.pc \notin Preparing \cup {"running"}
  <2>1. PICK c \in ClientStates : c = Blamed(client) /\ SameReport(c) BY <1>2, BlamedTyped DEF SameReport
  <2> QED BY <1>1, <2>1, Returns DEF SameReport, Preparing
<1>4. PICK a \in AgentStates : a = Current BY <1>2 DEF Current
<1>5. PICK b : b = [a EXCEPT !.attached = FALSE] OBVIOUS
<1>6. b.steps = a.steps /\ b.next = a.next /\ ~b.attached BY <1>5 DEF AgentStates
<1>7. Current' = b BY <1>1, <1>2, <1>3, <1>4, <1>5 DEF Current, SameReport
<1>8. Heard(client, a) BY <1>1, <1>4 DEF ReportedInv, ReportInv, Running
<1>9. DoneBy(b) = DoneBy(a) BY <1>6, DoneSame
<1>10. Heard(client', Current') /\ Exact(client', Current')
  BY <1>3, <1>6, <1>7, <1>8, <1>9, HeardStill DEF Exact, SameReport
<1> QED BY <1>3, <1>10 DEF ReportInv, Heard, Exact, DoneBy

LEMMA ReportedStep == ASSUME ReportedInv, [Next]_vars PROVE ReportedInv'
<1>1. ControlInv' BY ControlStep DEF ReportedInv
<1>2. CASE UNCHANGED vars
  <2>1. client' = client /\ agents' = agents /\ wire' = wire BY <1>2 DEF vars
  <2>2. Current' = Current BY <2>1 DEF Current
  <2> QED BY <1>1, <2>1, <2>2 DEF ReportedInv, ReportInv, Heard, Unheard, Exact, Finishes, DoneBy
<1>3. CASE Next
  <2> SUFFICES ReportInv' BY <1>1 DEF ReportedInv
  <2>1. CASE Begin \/ Retry BY <2>1, BeginReports DEF ReportedInv
  <2>2. CASE Leave BY <2>2, LeaveReports
  <2>3. CASE Command
    BY <2>3, ConfirmReports, DeployReports, EndReports, ApplyReports, FollowReports, ReturnedReports, SeverReports DEF Command
  <2>4. CASE \E n \in Attempts : Agent(n) BY <2>4, AgentReports
  <2>5. CASE Over
    <3>1. ReportedInv' BY <1>2, <2>5 DEF Over
    <3> QED BY <3>1 DEF ReportedInv
  <2> QED BY <1>3, <2>1, <2>2, <2>3, <2>4, <2>5 DEF Next
<1> QED BY <1>2, <1>3

LEMMA ReportedInit == ASSUME Init PROVE ReportedInv
<1>1. client.pc = "idle" /\ client.outcome = "none" BY DEF Init
<1> QED BY <1>1, ControlInit DEF ReportedInv, ReportInv, Preparing, Running

\* What the command has heard, with what is still on the way, is what its agent has done: progressWriter
\* in bootstrap.go handles the events that bootstrapCommand of agent.go writes, in their order.
THEOREM BootstrapReports == Spec => []ReportedInv
<1>1. Init => ReportedInv BY ReportedInit
<1>2. ReportedInv /\ [Next]_vars => ReportedInv' BY ReportedStep
<1> QED BY <1>1, <1>2, PTL DEF Spec

-----------------------------------------------------------------------------
(* What was completed, and what is left.                                   *)

\* Two plans of the same steps are one.
LEMMA PrefixOf ==
  ASSUME NEW s \in Seq(StepNames), NEW t \in Seq(StepNames), Rising(s), Rising(t), ToSet(s) = ToSet(t)
  PROVE  Len(s) <= Len(t) /\ \A i \in 1..Len(s) : s[i] = t[i]
<1> DEFINE T == {n \in Nat : n <= Len(s) => n <= Len(t) /\ \A i \in 1..n : s[i] = t[i]}
<1>1. 0 \in T OBVIOUS
<1>2. ASSUME NEW n \in Nat, n \in T PROVE n + 1 \in T
  <2> SUFFICES ASSUME n + 1 <= Len(s) PROVE n + 1 <= Len(t) /\ \A i \in 1..(n + 1) : s[i] = t[i] OBVIOUS
  <2>1. n <= Len(t) /\ \A i \in 1..n : s[i] = t[i] BY <1>2
  <2>2. n + 1 \in 1..Len(s) OBVIOUS
  <2>3. PICK k \in 1..Len(t) : t[k] = s[n + 1]
    <3>1. s[n + 1] \in ToSet(s) BY <2>2, InSet
    <3>2. \E k \in 1..Len(t) : s[n + 1] = t[k] BY <3>1, OfSet
    <3> QED BY <3>2
  <2>4. k >= n + 1
    <3> SUFFICES ASSUME k <= n PROVE FALSE OBVIOUS
    <3>1. k \in 1..Len(s) /\ k < n + 1 /\ s[k] = s[n + 1] BY <2>1, <2>3
    <3>2. Rank(s[k]) < Rank(s[n + 1]) BY <2>2, <3>1 DEF Rising
    <3>3. s[k] \in StepNames BY <3>1
    <3> QED BY <3>1, <3>2, <3>3, RankTyped
  <2>5. n + 1 \in 1..Len(t) BY <2>3, <2>4
  <2>6. PICK m \in 1..Len(s) : s[m] = t[n + 1]
    <3>1. t[n + 1] \in ToSet(t) BY <2>5, InSet
    <3>2. \E m \in 1..Len(s) : t[n + 1] = s[m] BY <3>1, OfSet
    <3> QED BY <3>2
  <2>7. m >= n + 1
    <3> SUFFICES ASSUME m <= n PROVE FALSE OBVIOUS
    <3>1. m \in 1..Len(t) /\ m < n + 1 /\ t[m] = t[n + 1] BY <2>1, <2>5, <2>6
    <3>2. Rank(t[m]) < Rank(t[n + 1]) BY <2>5, <3>1 DEF Rising
    <3>3. t[m] \in StepNames BY <3>1
    <3> QED BY <3>1, <3>2, <3>3, RankTyped
  <2>8. s[n + 1] \in StepNames /\ t[n + 1] \in StepNames BY <2>2, <2>5
  <2>9. n + 1 < m => Rank(s[n + 1]) < Rank(t[n + 1]) BY <2>2, <2>6 DEF Rising
  <2>10. n + 1 < k => Rank(t[n + 1]) < Rank(s[n + 1]) BY <2>3, <2>5 DEF Rising
  <2>11. s[n + 1] = t[n + 1]
    <3>1. CASE m = n + 1 BY <2>6, <3>1
    <3>2. CASE k = n + 1 BY <2>3, <3>2
    <3>3. CASE m # n + 1 /\ k # n + 1
      <4>1. Rank(s[n + 1]) < Rank(t[n + 1]) /\ Rank(t[n + 1]) < Rank(s[n + 1]) BY <2>4, <2>7, <2>9, <2>10, <3>3
      <4>2. Rank(s[n + 1]) \in Int /\ Rank(t[n + 1]) \in Int BY <2>8, RankTyped
      <4> QED BY <4>1, <4>2
    <3> QED BY <3>1, <3>2, <3>3
  <2> QED BY <2>1, <2>5, <2>11
<1> HIDE DEF T
<1>3. \A n \in Nat : n \in T BY <1>1, <1>2, NatSetInduction
<1>4. Len(s) \in T BY <1>3
<1> QED BY <1>4 DEF T

LEMMA SamePlan ==
  ASSUME NEW s \in Seq(StepNames), NEW t \in Seq(StepNames), Rising(s), Rising(t), ToSet(s) = ToSet(t)
  PROVE  s = t
<1>1. Len(s) <= Len(t) /\ Len(t) <= Len(s) /\ \A i \in 1..Len(s) : s[i] = t[i] BY PrefixOf
<1>2. Len(s) = Len(t) BY <1>1
<1> QED BY <1>1, <1>2

LEMMA RisingInOrder ==
  ASSUME NEW s \in Seq(StepNames), NEW t \in Seq(StepNames), Rising(s), Rising(t), ToSet(s) \subseteq ToSet(t)
  PROVE  InOrder(s, t)
<1>1. ASSUME NEW i \in 1..Len(s), NEW j \in 1..Len(s), i < j
      PROVE  \E k, l \in 1..Len(t) : k < l /\ t[k] = s[i] /\ t[l] = s[j]
  <2>1. PICK k \in 1..Len(t) : s[i] = t[k] BY InSet, OfSet
  <2>2. PICK l \in 1..Len(t) : s[j] = t[l] BY InSet, OfSet
  <2>3. Rank(s[i]) < Rank(s[j]) BY <1>1 DEF Rising
  <2>4. Rank(s[i]) \in Int /\ Rank(s[j]) \in Int
    <3>1. s[i] \in StepNames /\ s[j] \in StepNames OBVIOUS
    <3> QED BY <3>1, RankTyped
  <2>5. l < k => Rank(s[j]) < Rank(s[i]) BY <2>1, <2>2 DEF Rising
  <2>6. l # k BY <2>1, <2>2, <2>3, <2>4
  <2>7. k < l BY <2>3, <2>4, <2>5, <2>6
  <2> QED BY <2>1, <2>2, <2>7
<1>2. DOMAIN s = 1..Len(s) /\ DOMAIN t = 1..Len(t) OBVIOUS
<1>3. ASSUME NEW i \in DOMAIN s, NEW j \in DOMAIN s, i < j
      PROVE  \E k, l \in DOMAIN t : k < l /\ t[k] = s[i] /\ t[l] = s[j]
  <2>1. i \in 1..Len(s) /\ j \in 1..Len(s) BY <1>2, <1>3
  <2>2. PICK k \in 1..Len(t), l \in 1..Len(t) : k < l /\ t[k] = s[i] /\ t[l] = s[j] BY <1>1, <1>3, <2>1
  <2>3. k \in DOMAIN t /\ l \in DOMAIN t BY <1>2
  <2> QED BY <2>2, <2>3
<1> QED BY <1>3 DEF InOrder

\* The steps an agent has done, in their order.
LEMMA DonePrefix ==
  ASSUME NEW a \in AgentStates, Rising(a.steps), a.next <= Len(a.steps) + 1, NEW done, done = SubSeq(a.steps, 1, a.next - 1)
  PROVE  done \in Seq(StepNames) /\ Rising(done) /\ ToSet(done) = DoneBy(a)
<1>1. a.steps \in Seq(StepNames) /\ a.next \in Nat \ {0} /\ Len(a.steps) \in Nat BY DEF AgentStates
<1>2. done \in Seq(StepNames) /\ Len(done) = a.next - 1 /\ \A i \in 1..(a.next - 1) : done[i] = a.steps[i]
  BY <1>1, SubSeqProperties
<1>3. \A i \in 1..Len(done) : i \in 1..Len(a.steps) BY <1>1, <1>2
<1>4. Rising(done) BY <1>2, <1>3 DEF Rising
<1>5. ToSet(done) = {done[i] : i \in 1..Len(done)}
  <2>1. \A s \in Seq(StepNames) : ToSet(s) = {s[i] : i \in 1..Len(s)} BY ToSetFacts
  <2> QED BY <1>2, <2>1
<1> QED BY <1>2, <1>4, <1>5 DEF DoneBy

\* The steps that RunResult reports as completed are done, those it reports as pending are the rest of
\* the plan, both in the plan's order; a failure whose events all arrived reports exactly what was done.
THEOREM BootstrapCompletedIsTrue == Spec => []CompletedIsTrue
<1>1. ReportedInv => CompletedIsTrue
  <2> SUFFICES ASSUME ReportedInv, client.pc = "running" \/ client.outcome = "failed",
                      NEW done, done = SubSeq(Current.steps, 1, Current.next - 1)
               PROVE  /\ ToSet(client.completed) \subseteq ToSet(done)
                      /\ ToSet(client.pending) = ToSet(Current.steps) \ ToSet(client.completed)
                      /\ InOrder(client.completed, Current.steps) /\ InOrder(client.pending, Current.steps)
                      /\ client.outcome = "failed" /\ Current.attached /\ ~client.missed => client.completed = done
    BY DEF CompletedIsTrue
  <2>1. /\ client \in ClientStates /\ client.n \in Attempts /\ ControlInv
    BY CommandTyped DEF ReportedInv, ControlInv, ClientInv
  <2>2. AgentInv(client.n) /\ agents[client.n] \in AgentStates BY <2>1, CommandTyped DEF ControlInv
  <2>3. PICK a \in AgentStates : a = Current BY <2>2 DEF Current
  <2>4. Rising(a.steps) /\ a.next <= Len(a.steps) + 1 /\ a.steps \in Seq(StepNames)
    BY <2>2, <2>3 DEF AgentInv, LegalPlan, Within, Current
  <2>5. Heard(client, a) /\ (client.outcome = "failed" => Exact(client, a)) BY <2>3 DEF ReportedInv, ReportInv, Running
  <2>6. done \in Seq(StepNames) /\ Rising(done) /\ ToSet(done) = DoneBy(a) BY <2>3, <2>4, DonePrefix
  <2>7. client.completed \in Seq(StepNames) /\ client.pending \in Seq(StepNames) BY <2>1 DEF ClientStates
  <2>8. DoneBy(a) \subseteq ToSet(a.steps) BY <2>4, DoneOnlySteps
  <2>9. InOrder(client.completed, a.steps) /\ InOrder(client.pending, a.steps)
    BY <2>4, <2>5, <2>7, <2>8, RisingInOrder DEF Heard
  <2>10. client.outcome = "failed" /\ a.attached /\ ~client.missed => client.completed = done
    <3>1. HAVE client.outcome = "failed" /\ a.attached /\ ~client.missed
    <3>2. ToSet(client.completed) = ToSet(done) BY <2>5, <2>6, <3>1 DEF Exact, Heard
    <3> QED BY <2>5, <2>6, <2>7, <3>2, SamePlan DEF Heard
  <2> QED BY <2>3, <2>5, <2>6, <2>9, <2>10 DEF Heard
<1> QED BY <1>1, BootstrapReports, PTL

-----------------------------------------------------------------------------
(* An attempt that nothing disturbs.                                       *)

LEMMA PinnedVersion == ASSUME NEW h \in Host PROVE Version(h) = "pinned" <=> h.python /\ h.version = "pinned"
  BY DEF Version, Host

\* A component that is not there is planned for.
LEMMA PlannedFor ==
  ASSUME setting \in Settings, NEW c \in ClientStates, PlanOf(c).blockers = {},
         NEW id \in Recipe.components, ~ComponentHealthy(c.inv, id), NEW steps, steps = ToSet(PlanOf(c).steps)
  PROVE  /\ id \in Privileged => "packages-install" \in steps /\ Packages(id, c.inv.manager) \subseteq PlanOf(c).packages
         /\ id = "pwntools" => "pwntools-venv" \in steps /\ "pwntools-base" \in steps
         /\ id = "pwndbg" => "pwndbg-install" \in steps
         /\ id = "docker" /\ ~c.inv.root /\ ~setting.noSudo => "docker-group" \in steps
<1>1. /\ PlanOf(c).packages = PlannedPackages(c.inv, Recipe, Options(c)) /\ PlanOf(c).blockers = Blockers(c.inv, Recipe, Options(c))
      /\ steps = {s \in Needed(c.inv, Recipe, Options(c)) : setting.noSudo => ~Sudo(s, c.inv.manager)}
  BY PlanShape
<1>2. Options(c).noSudo = setting.noSudo BY DEF Options
<1>3. /\ \A d \in Recipe.components : ~Unsupported(c.inv, d)
      /\ PlannedPackages(c.inv, Recipe, Options(c)) = {} \/ c.inv.manager # "unknown"
      /\ DockerPending(c.inv, Recipe) => c.inv.service \notin {"unknown", "runit"} /\ (c.inv.root \/ Options(c).accept)
      /\ setting.noSudo /\ c.inv.manager # "nix" => \A d \in Recipe.components \cap Privileged : ~Install(c.inv, d)
  BY <1>1, <1>2, NoBlockers
<1>4. id # "pwntools" => Install(c.inv, id) BY <1>3 DEF Install, Repair
<1>5. ASSUME id \in Privileged
      PROVE  "packages-install" \in steps /\ Packages(id, c.inv.manager) \subseteq PlanOf(c).packages
  <2>1. Install(c.inv, id) BY <1>4, <1>5 DEF Privileged
  <2>2. Packages(id, c.inv.manager) \subseteq PlannedPackages(c.inv, Recipe, Options(c)) BY <1>5, <2>1 DEF PlannedPackages
  <2>3. Packages(id, c.inv.manager) # {} BY <1>5 DEF Privileged, Packages, Tools
  <2>4. Packaged(c.inv, Recipe, Options(c)) BY <1>3, <2>2, <2>3 DEF Packaged
  <2>5. "packages-install" \in Needed(c.inv, Recipe, Options(c)) BY <2>4 DEF Needed, StepNames
  <2>6. setting.noSudo => ~Sudo("packages-install", c.inv.manager) BY <1>3, <1>5, <2>1 DEF Sudo
  <2> QED BY <1>1, <2>2, <2>5, <2>6
<1>6. ASSUME id = "pwntools" PROVE "pwntools-venv" \in steps /\ "pwntools-base" \in steps
  <2>1. Pwntooled(c.inv, Recipe) BY <1>6 DEF Pwntooled
  <2>2. "pwntools-venv" \in Needed(c.inv, Recipe, Options(c)) /\ "pwntools-base" \in Needed(c.inv, Recipe, Options(c))
    BY <2>1 DEF Needed, StepNames
  <2>3. ~Sudo("pwntools-venv", c.inv.manager) /\ ~Sudo("pwntools-base", c.inv.manager) BY DEF Sudo
  <2> QED BY <1>1, <2>2, <2>3
<1>7. ASSUME id = "pwndbg" PROVE "pwndbg-install" \in steps
  <2>1. ~c.inv.pwndbg /\ ~c.inv.musl BY <1>3, <1>7 DEF ComponentHealthy, Unsupported
  <2>2. "pwndbg-install" \in Needed(c.inv, Recipe, Options(c)) BY <1>7, <2>1 DEF Needed, StepNames
  <2>3. ~Sudo("pwndbg-install", c.inv.manager) BY DEF Sudo
  <2> QED BY <1>1, <2>2, <2>3
<1>8. ASSUME id = "docker", ~c.inv.root, ~setting.noSudo PROVE "docker-group" \in steps
  <2>1. Dockered(c.inv, Recipe, Options(c)) BY <1>3, <1>8 DEF Dockered, DockerPending
  <2>2. "docker-group" \in Needed(c.inv, Recipe, Options(c)) BY <1>8, <2>1 DEF Needed, StepNames
  <2> QED BY <1>1, <1>8, <2>2
<1> QED BY <1>5, <1>6, <1>7, <1>8

\* Steps that a plan has together.
LEMMA PlannedWith ==
  ASSUME setting \in Settings, NEW c \in ClientStates, NEW steps, steps = ToSet(PlanOf(c).steps)
  PROVE  /\ "packages-install" \in steps /\ c.inv.manager = "apt" => "packages-repair" \in steps
         /\ {"pwntools-venv", "pwntools-base", "pip-extra", "pip-check", "pwntools-verify"} \cap steps # {} =>
              "pwntools-venv" \in steps /\ "pwntools-base" \in steps
         /\ {"docker-enable", "docker-service", "docker-group"} \cap steps # {} =>
              "docker" \in Recipe.components /\ ~ComponentHealthy(c.inv, "docker")
<1>1. steps = {s \in Needed(c.inv, Recipe, Options(c)) : setting.noSudo => ~Sudo(s, c.inv.manager)} BY PlanShape
<1>2. ASSUME "packages-install" \in steps, c.inv.manager = "apt" PROVE "packages-repair" \in steps
  <2>1. Packaged(c.inv, Recipe, Options(c)) /\ ~setting.noSudo BY <1>1, <1>2 DEF Needed, Sudo
  <2>2. "packages-repair" \in Needed(c.inv, Recipe, Options(c)) BY <1>2, <2>1 DEF Needed, StepNames
  <2> QED BY <1>1, <2>1, <2>2
<1>3. ASSUME {"pwntools-venv", "pwntools-base", "pip-extra", "pip-check", "pwntools-verify"} \cap steps # {}
      PROVE  "pwntools-venv" \in steps /\ "pwntools-base" \in steps
  <2>1. Pwntooled(c.inv, Recipe) BY <1>1, <1>3 DEF Needed
  <2>2. "pwntools-venv" \in Needed(c.inv, Recipe, Options(c)) /\ "pwntools-base" \in Needed(c.inv, Recipe, Options(c))
    BY <2>1 DEF Needed, StepNames
  <2>3. ~Sudo("pwntools-venv", c.inv.manager) /\ ~Sudo("pwntools-base", c.inv.manager) BY DEF Sudo
  <2> QED BY <1>1, <2>2, <2>3
<1>4. ASSUME {"docker-enable", "docker-service", "docker-group"} \cap steps # {}
      PROVE  "docker" \in Recipe.components /\ ~ComponentHealthy(c.inv, "docker")
  <2>1. Dockered(c.inv, Recipe, Options(c)) BY <1>1, <1>4 DEF Needed
  <2> QED BY <2>1 DEF Dockered, DockerPending
<1> QED BY <1>2, <1>3, <1>4

\* What a component's health says of the host.
LEMMA HealthSays ==
  ASSUME NEW inv, NEW id, ComponentHealthy(inv, id)
  PROVE  /\ id = "pwntools" => inv.version = "pinned"
         /\ id = "pwndbg" => inv.pwndbg
         /\ id = "docker" => inv.root \/ inv.group
         /\ Tools(id) \subseteq inv.tools
  BY DEF ComponentHealthy, Tools

\* What an undisturbed attempt keeps healthy.
LEMMA KeptHealthy ==
  ASSUME setting \in Settings, host \in Host, NEW inv, Static(inv), NEW steps, Keeps(host, inv, steps), NEW id,
         ComponentHealthy(inv, id), id # "pwntools"
  PROVE  ComponentHealthy(Inspect, id)
<1>1. /\ inv.tools \subseteq host.tools /\ (inv.group => host.group) /\ (inv.pwndbg => ActivePwndbg(host)) /\ inv.root = setting.root
  BY DEF Keeps, Static
<1>2. Inspect.tools = host.tools /\ Inspect.group = host.group /\ Inspect.pwndbg = ActivePwndbg(host) /\ Inspect.root = setting.root
  BY DEF Inspect
<1> QED BY <1>1, <1>2 DEF ComponentHealthy

\* A step that ends adds its effect and takes nothing away.
LEMMA PerformedEffects ==
  ASSUME NEW h \in Host, NEW step \in StepNames, NEW packages \in SUBSET Software, NEW done, NEW inv, NEW steps,
         Effects(h, done, packages), Keeps(h, inv, steps), NEW g, g = Performed(step, packages, h)
  PROVE  Effects(g, done \cup {step}, packages) /\ Keeps(g, inv, steps)
<1>1. HostMoves(h, g, step, packages) BY PerformedMoves
<1>2. g \in Host /\ h.tools \subseteq g.tools /\ (h.group => g.group) BY <1>1 DEF HostMoves
<1>3. /\ (h.dpkg = "whole" => g.dpkg = "whole") /\ (step = "packages-repair" => g.dpkg = "whole")
      /\ (step = "packages-install" => packages \subseteq g.tools)
      /\ (h.python => g.python) /\ (h.pip => g.pip) /\ (step = "pwntools-venv" => g.python /\ g.pip)
      /\ (h.version = "pinned" => g.version = "pinned") /\ (step = "pwntools-base" => g.version = "pinned")
      /\ (h.current = "pinned" => g.current = "pinned") /\ (step = "pwndbg-install" => g.current = "pinned")
      /\ (step = "docker-group" => g.group)
      /\ (h.dest = "whole" => g.dest = "whole") /\ (step = "pwndbg-install" => g.dest = "whole")
      /\ (step # "pwndbg-install" => g.current = h.current)
  <2>1. CASE step = "packages-install" BY <2>1 DEF Performed, Host
  <2>2. CASE step = "packages-repair" BY <2>2 DEF Performed, Host
  <2>3. CASE step = "pwntools-venv" BY <2>3 DEF Performed, Host
  <2>4. CASE step = "pwntools-base" BY <2>4 DEF Performed, Host
  <2>5. CASE step = "pip-check" BY <2>5 DEF Performed, Host
  <2>6. CASE step = "pwndbg-install" BY <2>6 DEF Performed, Host
  <2>7. CASE step \in {"docker-enable", "docker-service"} BY <2>7 DEF Performed, Host
  <2>8. CASE step = "docker-group" BY <2>8 DEF Performed, Host
  <2>9. CASE step \in {"packages-refresh", "pip-extra", "pwntools-verify"} BY <2>9 DEF Performed
  <2> QED BY <2>1, <2>2, <2>3, <2>4, <2>5, <2>6, <2>7, <2>8, <2>9 DEF StepNames
<1>4. Effects(g, done \cup {step}, packages) BY <1>2, <1>3 DEF Effects
<1>5. ActivePwndbg(h) => ActivePwndbg(g) BY <1>3 DEF ActivePwndbg
<1>6. Version(h) = "pinned" => Version(g) = "pinned" BY <1>2, <1>3, PinnedVersion
<1> QED BY <1>2, <1>4, <1>5, <1>6 DEF Keeps

\* Making the environment anew takes away nothing that an earlier step of the plan did.
LEMMA RemadeEffects ==
  ASSUME NEW h \in Host, NEW packages, NEW done, NEW inv, NEW steps, Effects(h, done, packages), Keeps(h, inv, steps),
         "pwntools-venv" \in steps, "pwntools-venv" \notin done, "pwntools-base" \notin done, NEW g, g = Remade(h)
  PROVE  Effects(g, done, packages) /\ Keeps(g, inv, steps)
<1>1. g.tools = h.tools /\ g.group = h.group /\ g.dpkg = h.dpkg /\ g.current = h.current /\ g.dest = h.dest
  BY DEF Remade, Host
<1>2. ActivePwndbg(g) = ActivePwndbg(h) BY <1>1 DEF ActivePwndbg
<1> QED BY <1>1, <1>2 DEF Effects, Keeps

\* The package manager has installed what is planned, or it was there.
LEMMA Supplied ==
  ASSUME setting \in Settings, NEW c \in ClientStates, PlanOf(c).blockers = {}, NEW h, NEW steps, steps = ToSet(PlanOf(c).steps),
         NEW done, "packages-install" \in steps => "packages-install" \in done,
         Effects(h, done, PlanOf(c).packages), Keeps(h, c.inv, steps), NEW id \in Recipe.components \cap Privileged
  PROVE  (Tools(id) \cap Packages(id, c.inv.manager)) \subseteq h.tools
<1>1. CASE ComponentHealthy(c.inv, id)
  <2>1. Tools(id) \subseteq c.inv.tools BY <1>1, HealthSays
  <2> QED BY <2>1 DEF Keeps
<1>2. CASE ~ComponentHealthy(c.inv, id)
  <2>1. "packages-install" \in steps /\ Packages(id, c.inv.manager) \subseteq PlanOf(c).packages BY <1>2, PlannedFor
  <2> QED BY <2>1 DEF Effects
<1> QED BY <1>1, <1>2

\* An undisturbed step fails for want of a Debian package only.
LEMMA Starved ==
  ASSUME ControlInv, client.pc = "running", NEW a \in AgentStates, a = Current, a.next <= Len(a.steps),
         Effects(host, DoneBy(a), a.packages), Keeps(host, client.inv, ToSet(a.steps)), NEW step, step = a.steps[a.next],
         ~Works(step, host)
  PROVE  step = "pwntools-venv" /\ VenvStarved
<1>1. /\ client \in ClientStates /\ setting \in Settings /\ host \in Host /\ client.n \in Attempts /\ ClientInv /\ HostInv
      /\ a.steps = PlanOf(client).steps /\ a.packages = PlanOf(client).packages /\ PlanOf(client).blockers = {}
      /\ client.inv.manager = setting.manager
  BY CommandTyped, InAttempt DEF ControlInv, ClientInv, Running, Static
<1>2. AgentInv(client.n) /\ Rising(a.steps) BY <1>1 DEF ControlInv, AgentInv, LegalPlan, Within, Current
<1>3. PICK steps : steps = ToSet(a.steps) OBVIOUS
<1>4. step \in StepNames /\ step \in steps
  <2>1. a.steps \in Seq(StepNames) /\ a.next \in 1..Len(a.steps) BY DEF AgentStates
  <2> QED BY <1>3, <2>1, InSet
<1>5. PICK done : done = DoneBy(a) OBVIOUS
<1>6. \A s \in steps : Rank(s) < Rank(step) => s \in done BY <1>2, <1>3, <1>5, EarlierDone
<1>7. /\ Effects(host, done, PlanOf(client).packages) /\ Keeps(host, client.inv, steps) /\ steps = ToSet(PlanOf(client).steps)
  BY <1>1, <1>3, <1>5
<1>8. /\ "packages-install" \in steps /\ setting.manager = "apt" => "packages-repair" \in steps
      /\ {"pwntools-venv", "pwntools-base", "pip-extra", "pip-check", "pwntools-verify"} \cap steps # {} =>
           "pwntools-venv" \in steps /\ "pwntools-base" \in steps
      /\ {"docker-enable", "docker-service", "docker-group"} \cap steps # {} =>
           "docker" \in Recipe.components /\ ~ComponentHealthy(client.inv, "docker")
  BY <1>1, <1>7, PlannedWith
<1>9. Mandatory \subseteq Recipe.components BY <1>1, RecipeFacts
<1>10. step # "packages-install"
  <2> SUFFICES ASSUME step = "packages-install" PROVE FALSE OBVIOUS
  <2>1. host.dpkg = "interrupted"
    <3>1. host.dpkg # "whole" BY DEF Works
    <3> QED BY <1>1, <3>1 DEF Host
  <2>2. setting.manager = "apt" BY <1>1, <2>1 DEF HostInv
  <2>3. "packages-repair" \in done BY <1>4, <1>6, <1>8, <2>2, Places
  <2> QED BY <1>7, <2>1, <2>3 DEF Effects
<1>11. step \notin {"pwntools-base", "pip-extra", "pip-check"}
  <2> SUFFICES ASSUME step \in {"pwntools-base", "pip-extra", "pip-check"} PROVE FALSE OBVIOUS
  <2>1. "pwntools-venv" \in done BY <1>4, <1>6, <1>8, Places
  <2>2. host.python /\ host.pip BY <1>7, <2>1 DEF Effects
  <2> QED BY <2>2 DEF Works
<1>12. step # "pwntools-verify"
  <2> SUFFICES ASSUME step = "pwntools-verify" PROVE FALSE OBVIOUS
  <2>1. "pwntools-venv" \in done /\ "pwntools-base" \in done BY <1>4, <1>6, <1>8, Places
  <2>2. host.python /\ host.version = "pinned" BY <1>7, <2>1 DEF Effects
  <2> QED BY <1>1, <2>2, PinnedVersion DEF Works
<1>13. step # "pwndbg-install"
  <2> SUFFICES ASSUME step = "pwndbg-install" PROVE FALSE OBVIOUS
  <2>1. ~host.python BY DEF Works
  <2>2. "pwntools-venv" \in steps => "pwntools-venv" \in done BY <1>6, Places
  <2>3. "pwntools-venv" \notin steps BY <1>7, <2>1, <2>2 DEF Effects
  <2>4. "pwntools" \in Recipe.components BY <1>9 DEF Mandatory
  <2>5. ComponentHealthy(client.inv, "pwntools") BY <1>1, <1>7, <2>3, <2>4, PlannedFor
  <2>6. client.inv.version = "pinned" BY <2>5, HealthSays
  <2>7. Version(host) = "pinned" BY <1>7, <2>3, <2>6 DEF Keeps
  <2> QED BY <1>1, <2>1, <2>7, PinnedVersion
<1>14. step \notin {"docker-enable", "docker-service", "docker-group"}
  <2> SUFFICES ASSUME step \in {"docker-enable", "docker-service", "docker-group"} PROVE FALSE OBVIOUS
  <2>1. "docker" \notin host.tools BY DEF Works
  <2>2. "docker" \in Recipe.components /\ ~ComponentHealthy(client.inv, "docker") BY <1>4, <1>8
  <2>3. "docker" \in Recipe.components \cap Privileged BY <2>2 DEF Privileged
  <2>4. "packages-install" \in steps => "packages-install" \in done BY <1>6, Places
  <2>5. (Tools("docker") \cap Packages("docker", client.inv.manager)) \subseteq host.tools BY <1>1, <1>7, <2>3, <2>4, Supplied
  <2> QED BY <2>1, <2>5 DEF Tools, Packages
<1>15. step = "pwntools-venv" BY <1>4, <1>10, <1>11, <1>12, <1>13, <1>14 DEF StepNames, Works
<1>16. "python3" \in host.tools
  <2>1. "python" \in Recipe.components \cap Privileged BY <1>9 DEF Mandatory, Privileged
  <2>2. "packages-install" \in steps => "packages-install" \in done BY <1>6, <1>15, Places
  <2>3. (Tools("python") \cap Packages("python", client.inv.manager)) \subseteq host.tools BY <1>1, <1>7, <2>1, <2>2, Supplied
  <2> QED BY <2>3 DEF Tools, Packages
<1> QED BY <1>15, <1>16 DEF Works, VenvStarved

\* The inductive invariant behind what an outcome means.
CleanlyInv == ReportedInv /\ CleanInv

\* What an outcome means depends on the host, the scenario and the user's consent.
LEMMA SameMeaning ==
  ASSUME setting' = setting, host' = host
  PROVE  /\ VenvStarved' = VenvStarved /\ Preparable' = Preparable
         /\ client'.clean = client.clean /\ client'.outcome = client.outcome /\ client'.consent = client.consent =>
              OkayMeansReady' = OkayMeansReady /\ OkayMeansSettled' = OkayMeansSettled
<1>1. Recipe' = Recipe BY DEF Recipe
<1>2. VenvStarved' = VenvStarved BY DEF VenvStarved
<1>3. Preparable' = Preparable BY <1>1 DEF Preparable, Docker, Wants
<1>4. ASSUME client'.clean = client.clean, client'.outcome = client.outcome, client'.consent = client.consent
      PROVE  OkayMeansReady' = OkayMeansReady /\ OkayMeansSettled' = OkayMeansSettled
  <2>1. Version(host)' = Version(host) /\ ActivePwndbg(host)' = ActivePwndbg(host) BY DEF Version, ActivePwndbg
  <2>2. Inspect' = Inspect BY <2>1 DEF Inspect
  <2>3. Options(client)' = Options(client) BY <1>4 DEF Options
  <2>4. OkayMeansReady' = OkayMeansReady BY <1>1, <1>4, <2>1 DEF OkayMeansReady, Wants, Docker
  <2>5. OkayMeansSettled' = OkayMeansSettled BY <1>1, <1>4, <2>2, <2>3 DEF OkayMeansSettled
  <2> QED BY <2>4, <2>5
<1> QED BY <1>2, <1>3, <1>4

LEMMA NoOutcome ==
  ASSUME client'.clean => client'.pc \notin Running /\ client'.outcome \notin {"failed", "ok"}
  PROVE  CleanInv'
  BY DEF CleanInv, Running

\* The outcome stands while nothing moves.
LEMMA OutcomeStands ==
  ASSUME CleanInv, setting' = setting, host' = host, client'.pc \notin Running,
         client'.clean = client.clean, client'.outcome = client.outcome, client'.consent = client.consent
  PROVE  CleanInv'
<1>1. /\ VenvStarved' = VenvStarved /\ Preparable' = Preparable
      /\ OkayMeansReady' = OkayMeansReady /\ OkayMeansSettled' = OkayMeansSettled
  BY SameMeaning
<1> QED BY <1>1 DEF CleanInv, Running

LEMMA AttemptOpen ==
  ASSUME setting' = setting, client'.outcome = "none",
         client'.clean => /\ client'.pc \in Running /\ ~Failing(Current') =>
                               Effects(host', DoneBy(Current'), Current'.packages) /\ Keeps(host', client'.inv, ToSet(Current'.steps))
                          /\ client'.pc = "running" /\ Failing(Current') => VenvStarved'
  PROVE  CleanInv'
  BY DEF CleanInv, Effects, DoneBy, Keeps, Failing, Version, ActivePwndbg

\* An undisturbed agent's step.
LEMMA AgentCleans == ASSUME CleanlyInv, NEW n \in Attempts, Agent(n) PROVE CleanInv'
<1>1. ControlInv /\ CleanInv BY DEF CleanlyInv, ReportedInv
<1>2. /\ TypedInv /\ AgentInv(n) /\ ClientInv /\ HostInv /\ host \in Host /\ setting \in Settings BY <1>1, CommandTyped DEF ControlInv
<1>3. PICK stage \in {"next", "checking", "doing", "ended"}, next \in Nat \ {0}, ok \in BOOLEAN :
        AgentBecomes(n, stage, next, ok) /\ Acts(n, stage, next, ok)
  BY <1>2, AgentActs
<1>4. (client' = client \/ client' = Blamed(client)) /\ setting' = setting BY <1>2, <1>3, AgentMoves
<1>5. Blamed(client).clean = FALSE BY <1>2, BlamedTyped
<1>6. CASE ~client'.clean BY <1>6, NoOutcome
<1>7. CASE client'.clean
  <2>1. client' = client /\ client.clean BY <1>4, <1>5, <1>7
  <2>2. ~Idle(agents[n]) BY <1>3 DEF Acts
  <2>3. n = client.n /\ client.pc = "running" BY <1>2, <2>1, <2>2 DEF AgentInv
  <2>4. agents[n] \in AgentStates /\ agents'[n] \in AgentStates /\ Current = agents[n] /\ Current' = agents'[n]
    BY <1>2, <1>3, <2>1, <2>3, Moved DEF Current, TypedInv
  <2>a. PICK a \in AgentStates : a = agents[n] BY <2>4
  <2>b. PICK b \in AgentStates : b = agents'[n] BY <2>4
  <2>5. /\ b.stage = stage /\ b.next = next /\ b.ok = ok /\ b.steps = a.steps /\ b.packages = a.packages
    BY <1>2, <1>3, <2>a, <2>b, Moved
  <2>6. client.outcome = "none" /\ a.attached /\ a.steps = PlanOf(client).steps /\ a.packages = PlanOf(client).packages
    BY <1>2, <2>3, <2>4, <2>a DEF ClientInv, Running
  <2>7. ~Failing(a) BY <2>2, <2>a DEF Failing, Idle
  <2>8. Effects(host, DoneBy(a), a.packages) /\ Keeps(host, client.inv, ToSet(a.steps))
    BY <1>1, <2>1, <2>3, <2>4, <2>7, <2>a DEF CleanInv, Running
  <2>9. ~a.ok BY <1>2, <2>2, <2>a DEF AgentInv, Idle
  <2>10. Rising(a.steps) /\ a.steps \in Seq(StepNames) BY <1>2, <2>a DEF AgentInv, LegalPlan, Within
  <2>c. PICK g : g = host' OBVIOUS
  <2> SUFFICES /\ ~Failing(b) => Effects(g, DoneBy(b), b.packages) /\ Keeps(g, client.inv, ToSet(b.steps))
               /\ Failing(b) => VenvStarved'
    <3>1. client'.outcome = "none" /\ client'.inv = client.inv BY <2>1, <2>6
    <3>2. Current' = b BY <2>4, <2>b
    <3> QED BY <1>4, <2>c, <3>1, <3>2, AttemptOpen
  <2>11. CASE host' = host /\ next = a.next /\ (stage # "ended" \/ ok)
    <3>1. ~Failing(b) BY <2>5, <2>11 DEF Failing
    <3>2. DoneBy(b) = DoneBy(a) BY <2>5, <2>11, DoneSame
    <3> QED BY <2>5, <2>8, <2>11, <2>c, <3>1, <3>2
  <2>12. CASE a.stage = "checking" /\ host.python /\ host.pip /\ stage = "next" /\ next = a.next + 1 /\ host' = host
    <3>1. ~Failing(b) BY <2>5, <2>12 DEF Failing
    <3>2. DoneBy(b) = DoneBy(a) \cup {a.steps[a.next]} BY <2>5, <2>12, DoneGrows
    <3>3. a.steps[a.next] = "pwntools-venv" BY <1>2, <2>12, <2>a DEF AgentInv, Step
    <3>4. Effects(host, DoneBy(b), a.packages) BY <2>8, <2>12, <3>2, <3>3 DEF Effects
    <3> QED BY <2>5, <2>8, <2>12, <2>c, <3>1, <3>4
  <2>13. CASE a.stage = "checking" /\ stage = "doing" /\ next = a.next /\ host' = Remade(host)
    <3>1. ~Failing(b) BY <2>5, <2>13 DEF Failing
    <3>2. DoneBy(b) = DoneBy(a) BY <2>5, <2>13, DoneSame
    <3>3. Step(n) = "pwntools-venv" /\ a.next <= Len(a.steps) BY <1>2, <2>13, <2>a DEF AgentInv
    <3>4. a.steps[a.next] = "pwntools-venv" /\ "pwntools-venv" \in ToSet(a.steps) BY <1>2, <2>a, <3>3, StepIsPlanned
    <3>5. \A s \in DoneBy(a) : Rank(s) < 4 BY <2>10, <3>3, <3>4, DoneBefore, Places
    <3>6. "pwntools-venv" \notin DoneBy(a) /\ "pwntools-base" \notin DoneBy(a)
      <4>1. ~(4 < 4) /\ ~(5 < 4) OBVIOUS
      <4> QED BY <3>5, <4>1, Places
    <3>7. Effects(g, DoneBy(a), a.packages) /\ Keeps(g, client.inv, ToSet(a.steps))
      BY <1>2, <2>8, <2>13, <2>c, <3>4, <3>6, RemadeEffects
    <3> QED BY <2>5, <3>1, <3>2, <3>7
  <2>14. CASE a.stage = "doing" /\ stage = "next" /\ next = a.next + 1 /\ host' = Performed(Step(n), a.packages, host)
    <3>1. ~Failing(b) BY <2>5, <2>14 DEF Failing
    <3>2. DoneBy(b) = DoneBy(a) \cup {a.steps[a.next]} BY <2>5, <2>14, DoneGrows
    <3>3. a.next <= Len(a.steps) BY <1>2, <2>14, <2>a DEF AgentInv
    <3>4. Step(n) = a.steps[a.next] /\ Step(n) \in StepNames BY <1>2, <2>a, <3>3, StepIsPlanned
    <3>5. a.packages \in SUBSET Software BY DEF AgentStates
    <3>6. Effects(g, DoneBy(a) \cup {Step(n)}, a.packages) /\ Keeps(g, client.inv, ToSet(a.steps))
      BY ZenonT(60), <1>2, <2>8, <2>14, <2>c, <3>4, <3>5, PerformedEffects
    <3> QED BY <2>5, <3>1, <3>2, <3>4, <3>6
  <2>15. CASE a.stage = "doing" /\ stage = "ended" /\ next = a.next /\ ok = a.ok /\ host' \in Begun(Step(n), a.packages, host)
              /\ ~Works(Step(n), host)
    <3>1. a.next <= Len(a.steps) BY <1>2, <2>15, <2>a DEF AgentInv
    <3>2. Step(n) = a.steps[a.next] BY <1>2, <2>a, <3>1, StepIsPlanned
    <3>3. Step(n) = "pwntools-venv" /\ VenvStarved BY <1>1, <2>3, <2>4, <2>8, <2>15, <2>a, <3>1, <3>2, Starved
    <3>4. host' \in {host, [host EXCEPT !.python = TRUE]} BY <2>15, <3>3 DEF Begun
    <3>5. host'.tools = host.tools BY <1>2, <3>4 DEF Host
    <3>6. VenvStarved' BY <1>4, <3>3, <3>5 DEF VenvStarved
    <3>7. Failing(b) BY <2>5, <2>9, <2>15 DEF Failing
    <3> QED BY <3>6, <3>7
  <2> QED
    <3>1. agents[n] = a /\ client' = client BY <2>1, <2>a
    <3>2. client' # Blamed(client) BY <1>5, <1>7
    <3> QED BY <1>3, <2>6, <2>11, <2>12, <2>13, <2>14, <2>15, <3>1, <3>2 DEF Acts
<1> QED BY <1>6, <1>7

\* The host has all that the recipe wants.
AllHealthy == \A id \in Recipe.components : ComponentHealthy(Inspect, id)

\* A prepared host has everything, and the same recipe has nothing left to do on it.
LEMMA HealthyIsReady ==
  ASSUME setting \in Settings, host \in Host, HostInv, AllHealthy
  PROVE  /\ \A id \in Recipe.components : Tools(id) \subseteq host.tools
         /\ Version(host) = "pinned" /\ (Wants("pwndbg") => ActivePwndbg(host))
         /\ Docker /\ ~setting.root => host.group /\ host.daemon
<1>1. /\ Inspect.tools = host.tools /\ Inspect.version = Version(host) /\ Inspect.pwndbg = ActivePwndbg(host)
      /\ Inspect.group = host.group /\ Inspect.root = setting.root
  BY DEF Inspect
<1>2. "pwntools" \in Recipe.components BY RecipeFacts DEF Mandatory
<1>3. \A id \in Recipe.components : Tools(id) \subseteq host.tools BY <1>1, HealthSays DEF AllHealthy
<1>4. Version(host) = "pinned" BY <1>1, <1>2, HealthSays DEF AllHealthy
<1>5. Wants("pwndbg") => ActivePwndbg(host) BY <1>1, HealthSays DEF AllHealthy, Wants
<1>6. Docker /\ ~setting.root => host.group BY <1>1, HealthSays DEF AllHealthy, Wants, Docker
<1>7. Docker /\ ~setting.root => host.daemon BY <1>6 DEF HostInv, Docker
<1> QED BY <1>3, <1>4, <1>5, <1>6, <1>7

LEMMA HealthyIsSettled ==
  ASSUME setting \in Settings, host \in Host, AllHealthy, NEW options, options.noSudo \in BOOLEAN
  PROVE  Steps(Inspect, [Recipe EXCEPT !.pip = FALSE, !.system = {}], options) = <<>>
<1>1. PICK recipe : recipe = [Recipe EXCEPT !.pip = FALSE, !.system = {}] OBVIOUS
<1>2. recipe.components = Recipe.components /\ recipe.pip = FALSE /\ recipe.system = {} BY <1>1 DEF Recipe
<1>3. Inspect.root \in BOOLEAN BY InspectTyped DEF Inventories
<1>4. Within(Steps(Inspect, recipe, options), 1, 12)
      /\ ToSet(Steps(Inspect, recipe, options)) = {s \in Needed(Inspect, recipe, options) : options.noSudo => ~Sudo(s, Inspect.manager)}
  <2>1. recipe.pip \in BOOLEAN BY <1>2
  <2> QED BY <1>3, <2>1, StepsShape
<1>5. \A id \in recipe.components : ComponentHealthy(Inspect, id) BY <1>2 DEF AllHealthy
<1>6. \A id \in recipe.components : ~Install(Inspect, id) BY <1>5 DEF Install
<1>7. PlannedPackages(Inspect, recipe, options) = {} 
  <2> DEFINE installed == {id \in recipe.components : Install(Inspect, id)}
  <2>1. installed = {} BY <1>6
  <2>2. PlannedPackages(Inspect, recipe, options) =
          (UNION {Packages(id, Inspect.manager) : id \in installed \cap Privileged})
             \cup (IF "pwntools" \in installed /\ Inspect.manager = "apt" /\ ~options.noSudo THEN {"python3-pwntools"} ELSE {})
             \cup recipe.system
    BY DEF PlannedPackages
  <2>3. UNION {Packages(id, Inspect.manager) : id \in installed \cap Privileged} = {} BY <2>1
  <2> HIDE DEF installed
  <2> QED BY <1>2, <2>1, <2>2, <2>3
<1>8. "pwntools" \in recipe.components BY <1>2, RecipeFacts DEF Mandatory
<1>9. ~Packaged(Inspect, recipe, options) /\ ~Pwntooled(Inspect, recipe) /\ ~DockerPending(Inspect, recipe)
  BY <1>2, <1>5, <1>7, <1>8 DEF Packaged, Pwntooled, DockerPending
<1>10. "pwndbg" \in recipe.components => Inspect.pwndbg BY <1>5, HealthSays
<1>11. Needed(Inspect, recipe, options) = {} BY <1>9, <1>10 DEF Needed, Dockered
<1>12. ToSet(Steps(Inspect, recipe, options)) = {} BY <1>4, <1>11
<1>13. Steps(Inspect, recipe, options) = <<>>
  <2>1. PICK s \in Seq(StepNames) : s = Steps(Inspect, recipe, options) BY <1>4 DEF Within
  <2>2. \A i \in 1..Len(s) : s[i] \in ToSet(s) BY InSet
  <2>3. Len(s) = 0
    <3>1. Len(s) \in Nat /\ ~(1 \in 1..Len(s)) BY <1>12, <2>1, <2>2
    <3> QED BY <3>1
  <2> QED BY <2>1, <2>3
<1> QED BY <1>1, <1>13

LEMMA HealthyIsSuccess ==
  ASSUME ControlInv, setting' = setting, host' = host, AllHealthy
  PROVE  OkayMeansReady' /\ OkayMeansSettled'
<1>1. setting \in Settings /\ host \in Host /\ HostInv BY CommandTyped DEF ControlInv
<1>2. Recipe' = Recipe BY DEF Recipe
<1>3. Version(host)' = Version(host) /\ ActivePwndbg(host)' = ActivePwndbg(host) BY DEF Version, ActivePwndbg
<1>4. Inspect' = Inspect BY <1>3 DEF Inspect
<1>5. OkayMeansReady' BY <1>1, <1>2, <1>3, HealthyIsReady DEF OkayMeansReady, Wants, Docker
<1>6. PICK options : options = Options(client)' OBVIOUS
<1>7. options.noSudo \in BOOLEAN BY <1>1, <1>6, SettingFacts DEF Options
<1>8. Steps(Inspect, [Recipe EXCEPT !.pip = FALSE, !.system = {}], options) = <<>> BY <1>1, <1>7, HealthyIsSettled
<1>9. OkayMeansSettled' BY <1>2, <1>4, <1>6, <1>8 DEF OkayMeansSettled
<1> QED BY <1>5, <1>9

\* A plan without steps or blockers finds everything healthy.
LEMMA NothingToDo ==
  ASSUME ControlInv, client.inv = Inspect, PlanOf(client).blockers = {}, PlanOf(client).steps = <<>>
  PROVE  AllHealthy
<1>1. setting \in Settings /\ client \in ClientStates BY CommandTyped
<1>2. ToSet(PlanOf(client).steps) = {} BY EmptySet
<1>3. Recipe.components \subseteq Components BY <1>1, RecipeFacts
<1>4. ASSUME NEW id \in Recipe.components, ~ComponentHealthy(client.inv, id) PROVE FALSE
  <2>1. id \notin Privileged /\ id # "pwntools" /\ id # "pwndbg" BY <1>1, <1>2, <1>4, PlannedFor
  <2> QED BY <1>3, <2>1 DEF Components, Privileged
<1> QED BY <1>4 DEF AllHealthy

\* After its last step an undisturbed attempt that could be prepared finds everything healthy.
LEMMA PreparedIsHealthy ==
  ASSUME ControlInv, Preparable, PlanOf(client).blockers = {}, NEW steps, steps = ToSet(PlanOf(client).steps),
         Effects(host, steps, PlanOf(client).packages), Keeps(host, client.inv, steps)
  PROVE  AllHealthy
<1>1. setting \in Settings /\ client \in ClientStates /\ host \in Host /\ HostInv /\ Static(client.inv)
  BY CommandTyped DEF ControlInv, ClientInv
<1>2. Recipe.components \subseteq Components BY <1>1, RecipeFacts
<1>3. client.inv.manager = setting.manager /\ client.inv.root = setting.root BY <1>1 DEF Static
<1>4. /\ Inspect.tools = host.tools /\ Inspect.version = Version(host) /\ Inspect.pwndbg = ActivePwndbg(host)
      /\ Inspect.group = host.group /\ Inspect.root = setting.root
  BY DEF Inspect
<1>5. ASSUME NEW id \in Recipe.components, id \in Privileged PROVE Tools(id) \subseteq host.tools
  <2>1. (Tools(id) \cap Packages(id, setting.manager)) \subseteq host.tools BY <1>1, <1>3, <1>5, Supplied
  <2>2. Tools(id) \subseteq Packages(id, setting.manager) \cup setting.start.tools BY <1>5 DEF Preparable
  <2>3. setting.start.tools \subseteq host.tools BY <1>1 DEF HostInv
  <2> QED BY <2>1, <2>2, <2>3
<1>6. ASSUME NEW id \in Recipe.components, id \in {"core", "python", "patching"} PROVE ComponentHealthy(Inspect, id)
  BY <1>4, <1>5, <1>6 DEF ComponentHealthy, Privileged
<1>7. ASSUME "docker" \in Recipe.components PROVE ComponentHealthy(Inspect, "docker")
  <2>1. "docker" \in host.tools BY <1>5, <1>7 DEF Tools, Privileged
  <2>2. setting.root \/ host.group
    <3> SUFFICES ASSUME ~setting.root, ~host.group PROVE FALSE OBVIOUS
    <3>1. ~setting.start.group BY <1>1 DEF HostInv
    <3>2. ~ComponentHealthy(client.inv, "docker")
      <4>1. ~client.inv.group BY DEF Keeps
      <4> QED BY <1>3, <4>1, HealthSays
    <3>3. setting.noSudo
      <4> SUFFICES ASSUME ~setting.noSudo PROVE FALSE OBVIOUS
      <4>1. "docker-group" \in steps BY <1>1, <1>3, <1>7, <3>2, PlannedFor
      <4> QED BY <4>1 DEF Effects
    <3>4. PlanOf(client).blockers = Blockers(client.inv, Recipe, Options(client)) /\ Options(client).noSudo = setting.noSudo
      BY <1>1, PlanShape DEF Options
    <3>5. Install(client.inv, "docker")
      <4>1. ~Unsupported(client.inv, "docker") BY <1>7, <3>4, NoBlockers
      <4> QED BY <3>2, <4>1 DEF Install, Repair
    <3>6. "docker" \in Recipe.components \cap Privileged BY <1>7 DEF Privileged
    <3>7. client.inv.manager = "nix" BY <3>3, <3>4, <3>5, <3>6, NoBlockers
    <3> QED BY <1>3, <1>7, <3>1, <3>7 DEF Preparable, Docker, Wants
  <2> QED BY <1>4, <2>1, <2>2 DEF ComponentHealthy
<1>8. ASSUME "pwntools" \in Recipe.components PROVE ComponentHealthy(Inspect, "pwntools")
  <2>1. Version(host) = "pinned"
    <3>1. CASE "pwntools-venv" \in steps
      <4>1. "pwntools-base" \in steps BY <1>1, <3>1, PlannedWith
      <4>2. host.python /\ host.version = "pinned" BY <3>1, <4>1 DEF Effects
      <4> QED BY <1>1, <4>2, PinnedVersion
    <3>2. CASE "pwntools-venv" \notin steps
      <4>1. ComponentHealthy(client.inv, "pwntools") BY <1>1, <1>8, <3>2, PlannedFor
      <4>2. client.inv.version = "pinned" BY <4>1, HealthSays
      <4> QED BY <3>2, <4>2 DEF Keeps
    <3> QED BY <3>1, <3>2
  <2> QED BY <1>4, <2>1 DEF ComponentHealthy
<1>9. ASSUME "pwndbg" \in Recipe.components PROVE ComponentHealthy(Inspect, "pwndbg")
  <2>1. ActivePwndbg(host)
    <3>1. CASE ComponentHealthy(client.inv, "pwndbg") BY <3>1, HealthSays DEF Keeps
    <3>2. CASE ~ComponentHealthy(client.inv, "pwndbg")
      <4>1. "pwndbg-install" \in steps BY <1>1, <1>9, <3>2, PlannedFor
      <4>2. host.current = "pinned" BY <4>1 DEF Effects
      <4> QED BY <1>1, <4>2 DEF HostInv, ActivePwndbgWorks, ActivePwndbg
    <3> QED BY <3>1, <3>2
  <2> QED BY <1>4, <2>1 DEF ComponentHealthy
<1>10. \A id \in Recipe.components : id \in {"core", "python", "patching", "docker", "pwntools", "pwndbg"}
  BY <1>2 DEF Components
<1> QED BY <1>6, <1>7, <1>8, <1>9, <1>10 DEF AllHealthy

\* What the postflight check does not miss is healthy.
LEMMA FoundHealthy ==
  ASSUME ControlInv, PlanOf(client).blockers = {}, NEW steps, Keeps(host, client.inv, steps), Unhealthy(Inspect, Recipe) = {}
  PROVE  AllHealthy
<1>1. setting \in Settings /\ client \in ClientStates /\ host \in Host /\ Static(client.inv) BY CommandTyped DEF ControlInv, ClientInv
<1>2. PlanOf(client).blockers = Blockers(client.inv, Recipe, Options(client)) BY <1>1, PlanShape
<1>3. \A id \in Recipe.components : ~Unsupported(client.inv, id) BY <1>2, NoBlockers
<1>4. \A id \in Recipe.components : ~Install(Inspect, id) /\ ~Repair(Inspect, id) BY DEF Unhealthy
<1>5. ASSUME NEW id \in Recipe.components, ~ComponentHealthy(Inspect, id) PROVE FALSE
  <2>1. Unsupported(Inspect, id) BY <1>4, <1>5 DEF Install
  <2>2. /\ client.inv.musl = Inspect.musl /\ client.inv.immutable = Inspect.immutable /\ client.inv.manager = Inspect.manager
    BY <1>1 DEF Static, Inspect
  <2>3. ~(id = "pwndbg" /\ Inspect.musl) BY <1>3, <2>2 DEF Unsupported
  <2>4. id \in Privileged BY <2>1, <2>3 DEF Unsupported
  <2>5. ComponentHealthy(client.inv, id) BY <1>3, <2>1, <2>2, <2>3 DEF Unsupported
  <2>6. id # "pwntools" BY <2>4 DEF Privileged
  <2> QED BY <1>1, <1>5, <2>5, <2>6, KeptHealthy
<1> QED BY <1>5 DEF AllHealthy

\* A new attempt has no outcome yet.
LEMMA BeginCleans == ASSUME CleanlyInv, Begin \/ Retry PROVE CleanInv'
<1>a. PICK c : c = NewAttempt(client) OBVIOUS
<1>1. client.n < setting.attempts BY DEF Begin, Retry
<1>2. c \in ClientStates /\ c.outcome = "none" BY <1>1, <1>a, Anew DEF CleanlyInv, ReportedInv
<1>3. CASE Begin
  <2>1. PICK mode \in setting.modes : client' = [c EXCEPT !.pc = "confirm", !.mode = mode, !.consent = setting.accept, !.reviewed = {}]
    BY <1>3, <1>a DEF Begin
  <2>2. client'.pc = "confirm" /\ client'.outcome = "none" BY <1>2, <2>1 DEF ClientStates
  <2> QED BY <2>2, NoOutcome DEF Running
<1>4. CASE Retry
  <2>1. client' = [c EXCEPT !.pc = "apply"] BY <1>4, <1>a DEF Retry
  <2>2. client'.pc = "apply" /\ client'.outcome = "none" BY <1>2, <2>1 DEF ClientStates
  <2> QED BY <2>2, NoOutcome DEF Running
<1> QED BY <1>3, <1>4

LEMMA ConfirmCleans == ASSUME CleanlyInv, Confirm PROVE CleanInv'
<1>1. client.pc = "confirm" /\ ControlInv BY DEF Confirm, CleanlyInv, ReportedInv
<1>2. client \in ClientStates /\ client.outcome = "none" BY <1>1, CommandTyped DEF ControlInv, ClientInv, Preparing
<1>a. PICK asked \in BOOLEAN : asked = (client.mode = "wizard" /\ RiskAsked) OBVIOUS
<1>b. PICK answered : answered = [client EXCEPT !.consent = @ \/ asked, !.accepted = @ \/ asked] OBVIOUS
<1>c. PICK reviewed : reviewed = ToSet(PlanOf(answered).steps) OBVIOUS
<1>3. \/ client' = [[answered EXCEPT !.reviewed = reviewed] EXCEPT !.pc = "deploy"]
      \/ client' = [[answered EXCEPT !.reviewed = reviewed] EXCEPT !.pc = "idle", !.outcome = "previewed"]
      \/ client' = [client EXCEPT !.pc = "idle", !.outcome = "cancelled"]
  BY <1>a, <1>b, <1>c DEF Confirm
<1>4. client'.pc \in {"deploy", "idle"} /\ client'.outcome \in {"none", "previewed", "cancelled"}
  BY <1>2, <1>3, <1>b DEF ClientStates
<1> QED BY <1>4, NoOutcome DEF Running

LEMMA DeployCleans == ASSUME CleanlyInv, Deploy PROVE CleanInv'
<1>1. client.pc = "deploy" /\ ControlInv BY DEF Deploy, CleanlyInv, ReportedInv
<1>2. client \in ClientStates /\ client.outcome = "none" BY <1>1, CommandTyped DEF ControlInv, ClientInv, Preparing
<1>3. CASE client' = [client EXCEPT !.pc = "apply"]
  <2>1. client'.pc = "apply" /\ client'.outcome = "none" BY <1>2, <1>3 DEF ClientStates
  <2> QED BY <2>1, NoOutcome DEF Running
<1>4. CASE client' = [Blamed(client) EXCEPT !.pc = "idle", !.outcome = "failed"]
  <2>1. ~client'.clean BY <1>2, <1>4 DEF ClientStates, Blamed
  <2> QED BY <2>1, NoOutcome
<1> QED BY <1>3, <1>4 DEF Deploy

LEMMA ApplyEndsClean == ASSUME CleanlyInv, ApplyRefused \/ ApplyNothing PROVE CleanInv'
<1>1. client.pc = "apply" /\ ControlInv /\ setting' = setting /\ host' = host
  BY DEF ApplyRefused, ApplyNothing, CleanlyInv, ReportedInv
<1>2. client \in ClientStates BY <1>1, CommandTyped
<1>3. CASE ApplyRefused
  <2>1. client' = Return(client, "blocked") BY <1>3 DEF ApplyRefused
  <2>2. client'.outcome = "blocked" /\ client'.pc \in {"choice", "idle"} BY <1>2, <2>1, Returns
  <2> QED BY <2>2, NoOutcome DEF Running
<1>4. CASE ApplyNothing
  <2>1. client' = Return(client, "ok") /\ PlanOf(client).blockers = {} /\ PlanOf(client).steps = <<>> BY <1>4 DEF ApplyNothing
  <2>2. client'.outcome = "ok" /\ client'.pc \in {"choice", "idle"} /\ client'.clean = client.clean BY <1>2, <2>1, Returns
  <2>3. CASE ~client.clean BY <2>2, <2>3, NoOutcome
  <2>4. CASE client.clean
    <3>1. client.inv = Inspect BY <1>1, <2>4 DEF ControlInv, ClientInv, Preparing
    <3>2. AllHealthy BY <1>1, <2>1, <3>1, NothingToDo
    <3>3. OkayMeansReady' /\ OkayMeansSettled' BY <1>1, <3>2, HealthyIsSuccess
    <3> QED BY <2>2, <3>3 DEF CleanInv, Running
  <2> QED BY <2>3, <2>4
<1> QED BY <1>3, <1>4

\* The steps are sent for the host as it is.
LEMMA ApplyCleans == ASSUME CleanlyInv, Apply PROVE CleanInv'
<1>a. PICK steps : steps = PlanOf(client).steps OBVIOUS
<1>b. PICK packages : packages = PlanOf(client).packages OBVIOUS
<1>c. PICK stage \in {"auth", "next"} : stage = IF Authenticated(PlanOf(client)) THEN "auth" ELSE "next" OBVIOUS
<1>1. /\ client.pc = "apply" /\ client' = [client EXCEPT !.pc = "running", !.pending = steps]
      /\ agents' = [agents EXCEPT ![client.n] =
           [NoAgent EXCEPT !.steps = steps, !.packages = packages, !.attached = TRUE, !.stage = stage]]
      /\ setting' = setting /\ host' = host
  BY <1>a, <1>b, <1>c DEF Apply, Runs
<1>2. ControlInv BY DEF CleanlyInv, ReportedInv
<1>3. /\ client.n \in Attempts /\ client \in ClientStates /\ agents \in [Attempts -> AgentStates] /\ host \in Host
      /\ client.outcome = "none"
  BY <1>1, <1>2, InAttempt, CommandTyped DEF ControlInv, ClientInv, Preparing
<1>4. client'.outcome = "none" /\ client'.inv = client.inv /\ client'.clean = client.clean /\ client'.n = client.n
  BY <1>1, <1>3 DEF ClientStates
<1>5. PICK b : b = [NoAgent EXCEPT !.steps = steps, !.packages = packages, !.attached = TRUE, !.stage = stage] OBVIOUS
<1>6. b.next = 1 /\ b.stage = stage BY <1>5 DEF NoAgent
<1>7. Current' = b BY <1>1, <1>3, <1>4, <1>5 DEF Current
<1>8. DoneBy(b) = {} /\ ~Failing(b) BY <1>6 DEF DoneBy, Failing
<1>9. Effects(host, DoneBy(b), b.packages) BY <1>8 DEF Effects
<1>10. client.clean => Keeps(host, client.inv, ToSet(b.steps))
  <2>1. HAVE client.clean
  <2>2. client.inv = Inspect BY <1>1, <1>2, <2>1 DEF ControlInv, ClientInv, Preparing
  <2> QED BY <2>2 DEF Inspect, Keeps
<1> QED BY <1>1, <1>4, <1>7, <1>8, <1>9, <1>10, AttemptOpen

LEMMA FollowCleans == ASSUME CleanlyInv, Follow PROVE CleanInv'
<1>1. ControlInv /\ CleanInv BY DEF CleanlyInv, ReportedInv
<1>2. /\ client.pc = "running" /\ UNCHANGED <<setting, host, agents>> /\ client'.n = client.n /\ client'.inv = client.inv
      /\ client'.clean = client.clean /\ client'.pc = client.pc /\ client'.outcome = client.outcome
  BY <1>1, Followed
<1>3. client.outcome = "none" BY <1>1, <1>2 DEF ControlInv, ClientInv, Running
<1>4. Current' = Current BY <1>2 DEF Current
<1>5. VenvStarved' = VenvStarved BY <1>2 DEF VenvStarved
<1> QED BY <1>1, <1>2, <1>3, <1>4, <1>5, AttemptOpen DEF CleanInv, Running

\* Ssh returned the agent's success, or the failure of a step.
LEMMA ReturnedCleans == ASSUME CleanlyInv, Returned PROVE CleanInv'
<1>1. ControlInv /\ CleanInv BY DEF CleanlyInv, ReportedInv
<1>2. /\ client.pc = "running" /\ UNCHANGED <<setting, host, agents>> /\ Current.stage = "ended"
      /\ client' = IF Current.ok THEN [client EXCEPT !.pc = "postflight"] ELSE Return(client, "failed")
  BY DEF Returned
<1>3. client \in ClientStates /\ client.outcome = "none" BY <1>1, <1>2, CommandTyped DEF ControlInv, ClientInv, Running
<1>4. CASE Current.ok
  <2>1. client' = [client EXCEPT !.pc = "postflight"] BY <1>2, <1>4
  <2>2. /\ client'.pc = "postflight" /\ client'.outcome = "none" /\ client'.inv = client.inv /\ client'.clean = client.clean
        /\ client'.n = client.n
    BY <1>3, <2>1 DEF ClientStates
  <2>3. Current' = Current BY <1>2, <2>2 DEF Current
  <2>4. ~Failing(Current) BY <1>4 DEF Failing
  <2> QED BY <1>1, <1>2, <2>2, <2>3, <2>4, AttemptOpen DEF CleanInv, Running
<1>5. CASE ~Current.ok
  <2>1. client' = Return(client, "failed") BY <1>2, <1>5
  <2>2. client'.outcome = "failed" /\ client'.pc \in {"choice", "idle"} /\ client'.clean = client.clean BY <1>3, <2>1, Returns
  <2>3. Failing(Current) BY <1>2, <1>5 DEF Failing
  <2>4. client.clean => VenvStarved BY <1>1, <1>2, <2>3 DEF CleanInv
  <2>5. VenvStarved' = VenvStarved BY <1>2 DEF VenvStarved
  <2> QED BY <2>2, <2>4, <2>5 DEF CleanInv, Running
<1> QED BY <1>4, <1>5

LEMMA SeverCleans == ASSUME CleanlyInv, Sever PROVE CleanInv'
<1>1. ControlInv BY DEF CleanlyInv, ReportedInv
<1>2. client' = Return(Blamed(client), "failed") BY DEF Sever
<1>3. PICK c \in ClientStates : c = Blamed(client) /\ ~c.clean BY <1>1, BlamedTyped DEF ControlInv
<1>4. ~client'.clean BY <1>2, <1>3, Returns
<1> QED BY <1>4, NoOutcome

LEMMA PostflightCleans == ASSUME CleanlyInv, Postflight PROVE CleanInv'
<1>1. ControlInv /\ CleanInv BY DEF CleanlyInv, ReportedInv
<1>2. client.pc = "postflight" /\ setting' = setting /\ host' = host BY DEF Postflight
<1>3. client \in ClientStates /\ TypedInv /\ client.n \in Attempts BY <1>1, <1>2, CommandTyped, InAttempt DEF ControlInv
<1>a. PICK outcome \in {"ok", "failed"} : outcome = IF Unhealthy(Inspect, Recipe) = {} THEN "ok" ELSE "failed" OBVIOUS
<1>4. CASE client' = Return(client, outcome)
  <2>1. client'.outcome = outcome /\ client'.pc \in {"choice", "idle"} /\ client'.clean = client.clean BY <1>3, <1>4, Returns
  <2>2. CASE ~client.clean BY <2>1, <2>2, NoOutcome
  <2>3. CASE client.clean
    <3>1. PICK a \in AgentStates : a = Current BY <1>3 DEF Current, TypedInv
    <3>2. /\ a.ok /\ a.steps = PlanOf(client).steps /\ a.packages = PlanOf(client).packages /\ PlanOf(client).blockers = {}
      BY <1>1, <1>2, <3>1 DEF ControlInv, ClientInv, Running
    <3>3. Effects(host, DoneBy(a), a.packages) /\ Keeps(host, client.inv, ToSet(a.steps))
      BY <1>1, <1>2, <2>3, <3>1, <3>2 DEF CleanInv, Running, Failing
    <3>4. a.next = Len(a.steps) + 1 BY <1>1, <1>3, <3>1, <3>2 DEF ControlInv, AgentInv, Current
    <3>5. DoneBy(a) = ToSet(a.steps)
      <4>1. a.steps \in Seq(StepNames) BY DEF AgentStates
      <4>2. ToSet(a.steps) = {a.steps[i] : i \in 1..Len(a.steps)} BY <4>1, ToSetFacts
      <4>3. a.next - 1 = Len(a.steps) BY <3>4, <4>1
      <4> QED BY <4>2, <4>3 DEF DoneBy
    <3>6. PICK steps : steps = ToSet(PlanOf(client).steps) OBVIOUS
    <3>7. Effects(host, steps, PlanOf(client).packages) /\ Keeps(host, client.inv, steps) BY <3>2, <3>3, <3>5, <3>6
    <3>8. CASE Unhealthy(Inspect, Recipe) = {}
      <4>1. AllHealthy BY <1>1, <3>2, <3>7, <3>8, FoundHealthy
      <4>2. OkayMeansReady' /\ OkayMeansSettled' BY <1>1, <1>2, <4>1, HealthyIsSuccess
      <4>3. outcome = "ok" BY <1>a, <3>8
      <4> QED BY <2>1, <4>2, <4>3 DEF CleanInv, Running
    <3>9. CASE Unhealthy(Inspect, Recipe) # {}
      <4>1. ~AllHealthy BY <3>9 DEF AllHealthy, Unhealthy, Install, Repair
      <4>2. ~Preparable BY <1>1, <3>2, <3>6, <3>7, <4>1, PreparedIsHealthy
      <4>3. Preparable' = Preparable BY <1>2, SameMeaning
      <4>4. outcome = "failed" BY <1>a, <3>9
      <4> QED BY <2>1, <4>2, <4>3, <4>4 DEF CleanInv, Running
    <3> QED BY <3>8, <3>9
  <2> QED BY <2>2, <2>3
<1>5. CASE client' = Return(Blamed(client), "failed")
  <2>1. PICK c \in ClientStates : c = Blamed(client) /\ ~c.clean BY <1>3, BlamedTyped
  <2>2. ~client'.clean BY <1>5, <2>1, Returns
  <2> QED BY <2>2, NoOutcome
<1> QED BY <1>4, <1>5, <1>a DEF Postflight

LEMMA LeaveCleans == ASSUME CleanlyInv, Leave PROVE CleanInv'
<1>1. ControlInv /\ CleanInv BY DEF CleanlyInv, ReportedInv
<1>2. client' = [client EXCEPT !.pc = "idle"] /\ setting' = setting /\ host' = host BY DEF Leave
<1>3. client \in ClientStates BY <1>1, CommandTyped
<1>4. /\ client'.pc = "idle" /\ client'.clean = client.clean /\ client'.outcome = client.outcome
      /\ client'.consent = client.consent
  BY <1>2, <1>3 DEF ClientStates
<1> QED BY <1>1, <1>2, <1>4, OutcomeStands DEF Running

LEMMA CleanStutters == ASSUME CleanInv, UNCHANGED vars PROVE CleanInv'
<1>1. client' = client /\ agents' = agents /\ host' = host /\ setting' = setting BY DEF vars
<1>2. Current' = Current BY <1>1 DEF Current
<1>3. /\ VenvStarved' = VenvStarved /\ Preparable' = Preparable
      /\ OkayMeansReady' = OkayMeansReady /\ OkayMeansSettled' = OkayMeansSettled
  BY <1>1, SameMeaning
<1> QED BY <1>1, <1>2, <1>3 DEF CleanInv, Effects, DoneBy, Keeps, Failing, Version, ActivePwndbg

LEMMA CleanlyStep == ASSUME CleanlyInv, [Next]_vars PROVE CleanlyInv'
<1>1. ReportedInv' BY ReportedStep DEF CleanlyInv
<1> SUFFICES CleanInv' BY <1>1 DEF CleanlyInv
<1>2. CASE UNCHANGED vars BY <1>2, CleanStutters DEF CleanlyInv
<1>3. CASE Next
  <2>1. CASE Begin \/ Retry BY <2>1, BeginCleans
  <2>2. CASE Leave BY <2>2, LeaveCleans
  <2>3. CASE Command
    BY <2>3, ConfirmCleans, DeployCleans, ApplyEndsClean, ApplyCleans, FollowCleans, ReturnedCleans, SeverCleans, PostflightCleans
    DEF Command
  <2>4. CASE \E n \in Attempts : Agent(n) BY <2>4, AgentCleans
  <2>5. CASE Over BY <1>2, <2>5 DEF Over
  <2> QED BY <1>3, <2>1, <2>2, <2>3, <2>4, <2>5 DEF Next
<1> QED BY <1>2, <1>3

LEMMA CleanlyInit == ASSUME Init PROVE CleanlyInv
<1>1. client.pc = "idle" /\ client.outcome = "none" BY DEF Init
<1> QED BY <1>1, ReportedInit DEF CleanlyInv, CleanInv, Running

\* What the steps of an undisturbed attempt have done to the host, step by step: each step that
\* bootstrapCommand of agent.go has ended has its effect, and no later step takes it away.
THEOREM BootstrapCleanly == Spec => []CleanlyInv
<1>1. Init => CleanlyInv BY CleanlyInit
<1>2. CleanlyInv /\ [Next]_vars => CleanlyInv' BY CleanlyStep
<1> QED BY <1>1, <1>2, PTL DEF Spec

\* When RunResult returns without an error, after an attempt nothing disturbed, what the recipe wants is
\* there and working, and a plan made anew has nothing left to do (the postflight check of bootstrap.go).
THEOREM BootstrapSuccessIsReal == Spec => []SuccessIsReal
<1>1. CleanlyInv => SuccessIsReal BY DEF CleanlyInv, CleanInv, SuccessIsReal, OkayMeansReady, OkayMeansSettled
<1> QED BY <1>1, BootstrapCleanly, PTL

\* An attempt that nothing disturbs fails only where no attempt could succeed (Preparable), or where the
\* Debian python that is there has no venv package: with what earlier attempts left half done too.
THEOREM BootstrapUndisturbedSucceeds == Spec => []UndisturbedSucceeds
<1>1. CleanlyInv => UndisturbedSucceeds BY DEF CleanlyInv, CleanInv, UndisturbedSucceeds, ResumeSucceeds
<1> QED BY <1>1, BootstrapCleanly, PTL

=============================================================================
