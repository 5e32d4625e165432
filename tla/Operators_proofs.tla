--------------------------- MODULE Operators_proofs ---------------------------
(***************************************************************************)
(* What the operators of CommandPolicy and ConsoleLog yield, for every     *)
(* input: PolicyResolver.forServer the policy that is meant and no other,  *)
(* and tailLines and searchConsoleLines the last and the first lines.      *)
(*                                                                         *)
(* The lines are picked by functions that go through a log line by line.   *)
(* A claim about each of their steps is proved by taking the set of the    *)
(* steps it is true of: Induct says that it is the set of all.             *)
(***************************************************************************)
EXTENDS CommandPolicy, ConsoleLog, TLAPS, FiniteSetTheorems, WellFoundedInduction

-----------------------------------------------------------------------------
(* The policy of a server. *)

\* detectEggPreset knows two games; one that has words of both is Minecraft.
LEMMA EggDetected ==
  ASSUME NEW egg \in Egg
  PROVE  /\ "minecraft" \in egg => DetectEggPreset(egg) = "minecraft"
         /\ egg = {"rust"} => DetectEggPreset(egg) = "rust"
         /\ egg = {} => DetectEggPreset(egg) = None
         /\ "minecraft" \in egg \/ egg = {"rust"} \/ egg = {}
<1>1. ASSUME "minecraft" \notin egg, "rust" \in egg
      PROVE  egg = {"rust"}
  BY <1>1 DEF Egg
<1>2. ASSUME "minecraft" \notin egg, "rust" \notin egg
      PROVE  egg = {}
  BY <1>2 DEF Egg
<1>3. egg = {"rust"} => "minecraft" \notin egg /\ "rust" \in egg
  OBVIOUS
<1>4. egg = {} => "minecraft" \notin egg /\ "rust" \notin egg
  OBVIOUS
<1>5. ASSUME "minecraft" \in egg
      PROVE  DetectEggPreset(egg) = "minecraft"
  BY <1>5 DEF DetectEggPreset
<1>6. ASSUME "minecraft" \notin egg, "rust" \in egg
      PROVE  DetectEggPreset(egg) = "rust"
  BY <1>6 DEF DetectEggPreset
<1>7. ASSUME "minecraft" \notin egg, "rust" \notin egg
      PROVE  DetectEggPreset(egg) = None
  BY <1>7 DEF DetectEggPreset
<1>8. QED
  BY <1>1, <1>2, <1>3, <1>4, <1>5, <1>6, <1>7

\* An egg the server has is told from the details a caller does not pass.
LEMMA EggIsKnown ==
  ASSUME NEW egg \in Egg
  PROVE  egg # NoDetails
BY DEF Egg, NoDetails, None

\* forServer works the preset out from the override, the egg and the default.
LEMMA PresetOfServer ==
  ASSUME NEW override \in Override, NEW egg \in Egg \cup {NoDetails}
  PROVE  /\ override.preset # None =>
              ForServer(override, egg).preset = override.preset
         /\ override.preset = None /\ AutoDetectEgg /\ "minecraft" \in egg =>
              ForServer(override, egg).preset = "minecraft"
         /\ override.preset = None /\ AutoDetectEgg /\ egg = {"rust"} =>
              ForServer(override, egg).preset = "rust"
         /\ /\ override.preset = None
            /\ ~AutoDetectEgg \/ ("minecraft" \notin egg /\ egg # {"rust"})
            => ForServer(override, egg).preset = DefaultPreset
<1>1. CASE override.preset # None
  BY <1>1, CommandPolicyAssumption
     DEF ForServer, Otherwise, DefaultPolicy, Override, PolicyPreset, Unknown, None
<1>2. CASE override.preset = None /\ ~AutoDetectEgg
  BY <1>2, CommandPolicyAssumption DEF ForServer, Otherwise, DefaultPolicy
<1>3. CASE override.preset = None /\ AutoDetectEgg /\ egg \in Egg
  <2>1. egg # NoDetails
    BY <1>3, EggIsKnown
  <2>2. ForServer(override, egg).preset = Otherwise(DetectEggPreset(egg), DefaultPreset)
    BY <1>3, <2>1 DEF ForServer, Otherwise, DefaultPolicy
  <2>3. QED
    BY <1>3, <2>2, EggDetected DEF Otherwise, None
<1>4. CASE override.preset = None /\ AutoDetectEgg /\ egg = NoDetails
  <2>1. "minecraft" \notin egg /\ egg # {"rust"}
    BY <1>4 DEF NoDetails, None
  <2>2. ForServer(override, egg).preset = DefaultPreset
    BY <1>4 DEF ForServer, Otherwise, DefaultPolicy
  <2>3. QED
    BY <1>4, <2>1, <2>2
<1>5. QED
  BY <1>1, <1>2, <1>3, <1>4, CommandPolicyAssumption

\* The mode is the override's, else the configured one, also on the two paths
\* that return the policy made at the start.
LEMMA ModeOfServer ==
  ASSUME NEW override \in Override, NEW egg \in Egg \cup {NoDetails}
  PROVE  ForServer(override, egg).mode = Otherwise(override.mode, DefaultMode)
BY DEF ForServer, Otherwise, DefaultPolicy

\* The resolver (policy-resolver.ts forServer) gives a server the mode and
\* preset its override names; where it names none, the preset of the game its
\* egg tells if that is wanted; else what is configured.  Its two early returns
\* of the policy made at the start agree with this.
THEOREM ResolverGivesWhatIsMeant ==
  ASSUME NEW override \in Override, NEW egg \in Egg \cup {NoDetails}
  PROVE  Meant(ForServer(override, egg), override, egg)
<1> DEFINE policy == ForServer(override, egg)
<1>1. /\ override.mode # None => policy.mode = override.mode
      /\ override.mode = None => policy.mode = DefaultMode
  BY ModeOfServer DEF Otherwise
<1>2. CASE override.preset # None
  BY <1>1, <1>2, PresetOfServer DEF Meant
<1>3. CASE override.preset = None /\ AutoDetectEgg /\ "minecraft" \in egg
  BY <1>1, <1>3, PresetOfServer DEF Meant
<1>4. CASE /\ override.preset = None /\ AutoDetectEgg
           /\ "minecraft" \notin egg /\ egg = {"rust"}
  BY <1>1, <1>4, PresetOfServer DEF Meant
<1>5. CASE /\ override.preset = None
           /\ ~AutoDetectEgg \/ ("minecraft" \notin egg /\ egg # {"rust"})
  BY <1>1, <1>5, PresetOfServer DEF Meant
<1>6. QED
  BY <1>2, <1>3, <1>4, <1>5, CommandPolicyAssumption

\* What is meant is one policy: a policy that is meant for a server is the one
\* the resolver gives it.
THEOREM OnlyOnePolicyIsMeant ==
  ASSUME NEW override \in Override, NEW egg \in Egg \cup {NoDetails},
         NEW policy \in Policies,
         Meant(policy, override, egg)
  PROVE  policy = ForServer(override, egg)
<1>1. /\ policy.mode = ForServer(override, egg).mode
      /\ policy.preset = ForServer(override, egg).preset
  BY ResolverGivesWhatIsMeant DEF Meant
<1>2. ForServer(override, egg) = [mode |-> ForServer(override, egg).mode,
                                  preset |-> ForServer(override, egg).preset]
  BY DEF ForServer, DefaultPolicy
<1>3. QED
  BY <1>1, <1>2 DEF Policies

-----------------------------------------------------------------------------
(* Induction. *)

\* The order of the naturals, as a set of pairs
Less == {p \in Nat \X Nat : p[1] < p[2]}

\* A set of naturals has a least element.
LEMMA LeastOf ==
  ASSUME NEW S \in SUBSET Nat, S # {}
  PROVE  \E m \in S : \A k \in S : m <= k
<1>1. IsWellFoundedOn(Less, Nat)
  <2>1. OpToRel(<, Nat) = Less
    BY DEF OpToRel, Less
  <2>2. QED
    BY <2>1, NatLessThanWellFounded
<1>2. PICK m \in S : \A k \in S : ~(<<k, m>> \in Less)
  BY <1>1, WFMin
<1>3. ASSUME NEW k \in S
      PROVE  m <= k
  <2>1. <<k, m>> \in Nat \X Nat /\ <<k, m>>[1] = k /\ <<k, m>>[2] = m
    OBVIOUS
  <2>2. ~(k < m)
    BY <1>2, <2>1 DEF Less
  <2>3. QED
    BY <2>2
<1>4. QED
  BY <1>3

\* A set that holds 0, and n + 1 with each n it holds up to N, holds 0..N: a
\* claim about every n is proved by citing this of the set of the n it is true of.
LEMMA Induct ==
  ASSUME NEW N \in Nat, NEW S, 0 \in S, \A n \in 0..(N - 1) : n \in S => n + 1 \in S
  PROVE  \A n \in 0..N : n \in S
<1>1. SUFFICES ASSUME (0..N) \ S # {} PROVE FALSE
  OBVIOUS
<1>2. PICK m \in (0..N) \ S : \A k \in (0..N) \ S : m <= k
  <2>1. (0..N) \ S \in SUBSET Nat
    OBVIOUS
  <2>2. QED
    BY <1>1, <2>1, LeastOf
<1>3. m # 0 /\ m - 1 \in 0..(N - 1) /\ m - 1 \in S
  BY <1>2
<1>4. QED
  BY <1>2, <1>3

\* f is the function on 0..N that starts with first and goes on by next.
Unfolds(f, N, V, first, next) ==
  /\ f \in [0..N -> V]
  /\ \A n \in 0..N : f[n] = IF n = 0 THEN first ELSE next[<<n, f[n - 1]>>]

\* A function defined by recursion on 0..N exists.
LEMMA Recursion ==
  ASSUME NEW N \in Nat, NEW V, NEW first \in V, NEW next \in [(1..N) \X V -> V]
  PROVE  \E f : Unfolds(f, N, V, first, next)
<1> DEFINE Good(M) == \E f \in [0..M -> V] :
             \A n \in 0..M : f[n] = IF n = 0 THEN first ELSE next[<<n, f[n - 1]>>]
           S == {M \in 0..N : Good(M)}
<1>1. 0 \in S
  <2> DEFINE f == [n \in 0..0 |-> first]
  <2>1. /\ f \in [0..0 -> V]
        /\ \A n \in 0..0 : f[n] = IF n = 0 THEN first ELSE next[<<n, f[n - 1]>>]
    OBVIOUS
  <2> HIDE DEF f
  <2>2. Good(0)
    BY <2>1
  <2>3. QED
    BY <2>2
<1>2. ASSUME NEW M \in 0..(N - 1), M \in S
      PROVE  M + 1 \in S
  <2>1. PICK f \in [0..M -> V] :
           \A n \in 0..M : f[n] = IF n = 0 THEN first ELSE next[<<n, f[n - 1]>>]
    BY <1>2
  <2> DEFINE g == [n \in 0..(M + 1) |-> IF n = M + 1 THEN next[<<n, f[M]>>] ELSE f[n]]
  <2>2. M \in 0..M /\ M + 1 \in 1..N /\ \A n \in 0..(M + 1) : n = M + 1 \/ n \in 0..M
    OBVIOUS
  <2>3. g \in [0..(M + 1) -> V]
    BY <2>1, <2>2
  <2>4. ASSUME NEW n \in 0..(M + 1)
        PROVE  g[n] = IF n = 0 THEN first ELSE next[<<n, g[n - 1]>>]
    <3>1. CASE n = M + 1
      BY <2>2, <3>1
    <3>2. CASE n \in 0..M /\ n # 0
      <4>1. n - 1 \in 0..M /\ n - 1 # M + 1 /\ n # M + 1 /\ n - 1 \in 0..(M + 1)
        BY <3>2
      <4>2. g[n] = f[n] /\ g[n - 1] = f[n - 1]
        BY <4>1
      <4>3. QED
        BY <2>1, <3>2, <4>2
    <3>3. CASE n = 0
      <4>1. 0 \in 0..M /\ 0 # M + 1 /\ 0 \in 0..(M + 1)
        OBVIOUS
      <4>2. g[0] = f[0] /\ f[0] = first
        BY <2>1, <4>1
      <4>3. QED
        BY <3>3, <4>2
    <3>4. QED
      BY <2>2, <3>1, <3>2, <3>3
  <2>5. Good(M + 1)
    BY <2>3, <2>4
  <2>6. QED
    BY <2>2, <2>5
<1>3. N \in S
  <2> HIDE DEF S
  <2>1. \A n \in 0..N : n \in S
    BY <1>1, <1>2, Induct
  <2>2. QED
    BY <2>1
<1>4. QED
  BY <1>3 DEF Unfolds

-----------------------------------------------------------------------------
(* The text before a line. *)

\* The text before a line is what is before the previous line, that line and its newline.
LEMMA StartOfALine ==
  ASSUME NEW file \in Seq(Line), NEW i \in 1..Len(file)
  PROVE  /\ StartOf(file, i) \in Nat
         /\ StartOf(file, i) = IF i = 1 THEN 0 ELSE StartOf(file, i - 1) + file[i - 1].bytes + 1
<1> DEFINE N == Len(file)
           next == [p \in (1..N) \X Nat |-> p[2] + file[p[1]].bytes + 1]
           After(f) == f = [n \in 0..N |-> IF n = 0 THEN 0 ELSE f[n - 1] + file[n].bytes + 1]
           after == CHOOSE f : After(f)
<1>1. N \in Nat /\ \A n \in 1..N : file[n].bytes \in Nat
  <2>1. \A n \in 1..Len(file) : file[n] \in Line
    OBVIOUS
  <2>2. QED
    BY <2>1 DEF Line
<1>2. next \in [(1..N) \X Nat -> Nat]
  BY <1>1
<1>3. \A n \in 1..N : \A m \in Nat : next[<<n, m>>] = m + file[n].bytes + 1
  BY <1>1
<1> HIDE DEF next, N
<1>4. PICK f \in [0..N -> Nat] :
        \A n \in 0..N : f[n] = IF n = 0 THEN 0 ELSE next[<<n, f[n - 1]>>]
  <2>1. \E f : Unfolds(f, N, Nat, 0, next)
    BY <1>1, <1>2, Recursion
  <2>2. QED
    BY <2>1 DEF Unfolds
<1>5. After(f)
  <2>1. ASSUME NEW n \in 0..N
        PROVE  f[n] = IF n = 0 THEN 0 ELSE f[n - 1] + file[n].bytes + 1
    <3>1. CASE n = 0
      BY <1>4, <3>1
    <3>2. CASE n # 0
      <4>1. n \in 1..N /\ f[n - 1] \in Nat
        BY <1>1, <3>2
      <4>2. QED
        BY <1>3, <1>4, <3>2, <4>1
    <3>3. QED
      BY <3>1, <3>2
  <2>2. QED
    BY <2>1
<1>6. After(after)
  BY <1>5
<1>7. \A n \in 0..N : after[n] = IF n = 0 THEN 0 ELSE after[n - 1] + file[n].bytes + 1
  BY <1>6
<1>8. \A j : StartOf(file, j) = after[j - 1]
  BY DEF StartOf, N
<1> HIDE DEF after
<1> DEFINE S == {n \in 0..N : after[n] \in Nat}
<1>9. 0 \in S
  BY <1>1, <1>7
<1>10. ASSUME NEW n \in 0..(N - 1), n \in S
       PROVE  n + 1 \in S
  <2>1. n + 1 \in 0..N /\ n + 1 \in 1..N /\ (n + 1) - 1 = n /\ n + 1 # 0
    BY <1>1
  <2>2. after[n + 1] = after[n] + file[n + 1].bytes + 1
    BY <1>7, <2>1
  <2>3. QED
    BY <1>1, <1>10, <2>1, <2>2
<1> HIDE DEF S
<1>11. \A n \in 0..N : n \in S
  BY <1>1, <1>9, <1>10, Induct
<1>12. i - 1 \in 0..N /\ i \in 1..N /\ (i = 1 <=> i - 1 = 0)
  BY <1>1 DEF N
<1>13. StartOf(file, i) \in Nat
  BY <1>8, <1>11, <1>12 DEF S
<1>14. StartOf(file, i) = IF i = 1 THEN 0 ELSE StartOf(file, i - 1) + file[i - 1].bytes + 1
  BY <1>7, <1>8, <1>12
<1>15. QED
  BY <1>13, <1>14

-----------------------------------------------------------------------------
(* The lines that are picked. *)

\* What is left of a line, with the line's number
Pair == Nat \X Nat

\* Lines in the order of their numbers, none twice
Ordered(lines) == \A i, j \in DOMAIN lines : i < j => lines[i][1] < lines[j][1]

\* Those goes through the lines one by one.
LEMMA ThoseOneByOne ==
  ASSUME NEW lines \in Seq(Pair), NEW positions
  PROVE  \E f \in [0..Len(lines) -> Seq(Pair)] :
           /\ Those(lines, positions) = f[Len(lines)]
           /\ f[0] = <<>>
           /\ \A n \in 1..Len(lines) :
                f[n] = IF n \in positions THEN Append(f[n - 1], lines[n]) ELSE f[n - 1]
<1> DEFINE N == Len(lines)
           next == [p \in (1..N) \X Seq(Pair) |->
                      IF p[1] \in positions THEN Append(p[2], lines[p[1]]) ELSE p[2]]
           UpTo(f) == f = [n \in 0..N |->
                             IF n = 0 THEN <<>>
                             ELSE IF n \in positions THEN Append(f[n - 1], lines[n]) ELSE f[n - 1]]
           upTo == CHOOSE f : UpTo(f)
<1>1. N \in Nat /\ \A n \in 1..N : lines[n] \in Pair
  OBVIOUS
<1>2. next \in [(1..N) \X Seq(Pair) -> Seq(Pair)]
  BY <1>1
<1>3. \A n \in 1..N : \A picked \in Seq(Pair) :
        next[<<n, picked>>] = IF n \in positions THEN Append(picked, lines[n]) ELSE picked
  BY <1>1
<1> HIDE DEF next, N
<1>4. PICK f \in [0..N -> Seq(Pair)] :
        \A n \in 0..N : f[n] = IF n = 0 THEN <<>> ELSE next[<<n, f[n - 1]>>]
  <2>1. <<>> \in Seq(Pair)
    OBVIOUS
  <2>2. \E f : Unfolds(f, N, Seq(Pair), <<>>, next)
    BY <1>1, <1>2, <2>1, Recursion
  <2>3. QED
    BY <2>2 DEF Unfolds
<1>5. UpTo(f)
  <2>1. ASSUME NEW n \in 0..N
        PROVE  f[n] = IF n = 0 THEN <<>>
                      ELSE IF n \in positions THEN Append(f[n - 1], lines[n]) ELSE f[n - 1]
    <3>1. CASE n = 0
      BY <1>4, <3>1
    <3>2. CASE n # 0
      <4>1. n \in 1..N /\ f[n - 1] \in Seq(Pair)
        BY <1>1, <3>2
      <4>2. QED
        BY <1>3, <1>4, <3>2, <4>1
    <3>3. QED
      BY <3>1, <3>2
  <2>2. QED
    BY <2>1
<1>6. UpTo(upTo)
  BY <1>5
<1>7. /\ DOMAIN upTo = 0..N /\ upTo = [n \in 0..N |-> upTo[n]]
      /\ \A n \in 0..N : upTo[n] = IF n = 0 THEN <<>>
                                   ELSE IF n \in positions THEN Append(upTo[n - 1], lines[n])
                                   ELSE upTo[n - 1]
  BY <1>6
<1>8. Those(lines, positions) = upTo[N]
  BY DEF Those, N
<1> HIDE DEF upTo
<1> DEFINE S == {n \in 0..N : upTo[n] \in Seq(Pair)}
<1>9. 0 \in S
  <2>1. 0 \in 0..N /\ upTo[0] = <<>>
    BY <1>1, <1>7
  <2>2. <<>> \in Seq(Pair)
    OBVIOUS
  <2>3. QED
    BY <2>1, <2>2
<1>10. ASSUME NEW n \in 0..(N - 1), n \in S
       PROVE  n + 1 \in S
  <2>1. n + 1 \in 0..N /\ n + 1 \in 1..N /\ (n + 1) - 1 = n /\ n + 1 # 0
    BY <1>1
  <2>2. upTo[n + 1] = IF n + 1 \in positions THEN Append(upTo[n], lines[n + 1]) ELSE upTo[n]
    BY <1>7, <2>1
  <2>3. upTo[n] \in Seq(Pair) /\ lines[n + 1] \in Pair
    BY <1>1, <1>10, <2>1
  <2>4. Append(upTo[n], lines[n + 1]) \in Seq(Pair)
    BY <2>3
  <2>5. upTo[n + 1] \in Seq(Pair)
    BY <2>2, <2>3, <2>4
  <2>6. QED
    BY <2>1, <2>5
<1> HIDE DEF S
<1>11. \A n \in 0..N : n \in S
  BY <1>1, <1>9, <1>10, Induct
<1>12. upTo \in [0..N -> Seq(Pair)]
  BY <1>7, <1>11 DEF S
<1>13. /\ upTo[0] = <<>>
       /\ \A n \in 1..N :
            upTo[n] = IF n \in positions THEN Append(upTo[n - 1], lines[n]) ELSE upTo[n - 1]
  BY <1>1, <1>7
<1>14. QED
  BY <1>8, <1>12, <1>13 DEF N

\* What is picked so far of the lines up to n
PickedUpTo(picked, lines, positions, n) ==
  /\ picked \in Seq(Pair) /\ Ordered(picked)
  /\ \A k \in DOMAIN picked : \E i \in positions : i \in 1..n /\ picked[k] = lines[i]
  /\ \A i \in positions : i \in 1..n => \E k \in DOMAIN picked : picked[k] = lines[i]

\* With the next line at one of the positions, it is picked too, and comes last.
LEMMA OneMoreIsPicked ==
  ASSUME NEW lines \in Seq(Pair), Ordered(lines), NEW positions, NEW n \in Nat,
         n + 1 \in DOMAIN lines, n + 1 \in positions,
         NEW picked, PickedUpTo(picked, lines, positions, n)
  PROVE  PickedUpTo(Append(picked, lines[n + 1]), lines, positions, n + 1)
<1> DEFINE more == Append(picked, lines[n + 1])
           last == Len(picked) + 1
<1>1. picked \in Seq(Pair) /\ lines[n + 1] \in Pair /\ Len(picked) \in Nat
  BY DEF PickedUpTo
<1>2. /\ more \in Seq(Pair) /\ DOMAIN more = 1..last /\ DOMAIN picked = 1..Len(picked)
      /\ last \in Nat /\ more[last] = lines[n + 1]
      /\ \A k \in DOMAIN picked : more[k] = picked[k]
  BY <1>1
<1>3. \A k \in DOMAIN more : k = last \/ (k \in DOMAIN picked /\ k # last)
  BY <1>1, <1>2
<1>4. last \in DOMAIN more /\ \A k \in DOMAIN picked : k \in DOMAIN more
  BY <1>1, <1>2
<1> HIDE DEF more, last
<1>5. \A i \in 1..(n + 1) : i = n + 1 \/ i \in 1..n
  OBVIOUS
<1>6. \A i \in 1..n : i \in 1..(n + 1) /\ i \in DOMAIN lines /\ i < n + 1
  <2>1. DOMAIN lines = 1..Len(lines) /\ Len(lines) \in Nat
    OBVIOUS
  <2>2. QED
    BY <2>1
<1>7. \A k \in DOMAIN more : \E i \in positions : i \in 1..(n + 1) /\ more[k] = lines[i]
  <2> SUFFICES ASSUME NEW k \in DOMAIN more
               PROVE  \E i \in positions : i \in 1..(n + 1) /\ more[k] = lines[i]
    OBVIOUS
  <2>1. CASE k = last
    <3>1. n + 1 \in 1..(n + 1)
      OBVIOUS
    <3>2. QED
      BY <1>2, <2>1, <3>1
  <2>2. CASE k \in DOMAIN picked
    BY <1>2, <1>6, <2>2 DEF PickedUpTo
  <2>3. QED
    BY <1>3, <2>1, <2>2
<1>8. \A i \in positions : i \in 1..(n + 1) => \E k \in DOMAIN more : more[k] = lines[i]
  BY <1>2, <1>4, <1>5 DEF PickedUpTo
<1>9. Ordered(more)
  <2> SUFFICES ASSUME NEW j \in DOMAIN more, NEW k \in DOMAIN more, j < k
               PROVE  more[j][1] < more[k][1]
    BY DEF Ordered
  <2>1. j \in DOMAIN picked
    BY <1>1, <1>2 DEF last
  <2>2. CASE k = last
    <3>1. PICK i \in positions : i \in 1..n /\ picked[j] = lines[i]
      BY <2>1 DEF PickedUpTo
    <3>2. lines[i][1] < lines[n + 1][1]
      BY <1>6, <3>1 DEF Ordered
    <3>3. QED
      BY <1>2, <2>1, <2>2, <3>1, <3>2
  <2>3. CASE k \in DOMAIN picked
    BY <1>2, <2>1, <2>3 DEF PickedUpTo, Ordered
  <2>4. QED
    BY <1>3, <2>2, <2>3
<1>10. QED
  BY <1>2, <1>7, <1>8, <1>9 DEF PickedUpTo, more

\* Those yields the lines at the positions, no others, in their order.
LEMMA ThoseArePicked ==
  ASSUME NEW lines \in Seq(Pair), Ordered(lines), NEW positions \in SUBSET DOMAIN lines
  PROVE  /\ Those(lines, positions) \in Seq(Pair) /\ Ordered(Those(lines, positions))
         /\ \A k \in DOMAIN Those(lines, positions) :
              \E i \in positions : Those(lines, positions)[k] = lines[i]
         /\ \A i \in positions :
              \E k \in DOMAIN Those(lines, positions) : Those(lines, positions)[k] = lines[i]
<1> DEFINE N == Len(lines)
<1>1. N \in Nat /\ DOMAIN lines = 1..N
  OBVIOUS
<1>2. PICK f \in [0..N -> Seq(Pair)] :
        /\ Those(lines, positions) = f[N]
        /\ f[0] = <<>>
        /\ \A n \in 1..N :
             f[n] = IF n \in positions THEN Append(f[n - 1], lines[n]) ELSE f[n - 1]
  BY ThoseOneByOne
<1> HIDE DEF N
<1> DEFINE S == {n \in 0..N : PickedUpTo(f[n], lines, positions, n)}
<1>3. 0 \in S
  <2>1. PickedUpTo(<<>>, lines, positions, 0)
    <3>1. <<>> \in Seq(Pair) /\ DOMAIN <<>> = {} /\ 1..0 = {}
      OBVIOUS
    <3>2. QED
      BY <3>1 DEF PickedUpTo, Ordered
  <2>2. QED
    BY <1>1, <1>2, <2>1
<1>4. ASSUME NEW n \in 0..(N - 1), n \in S
      PROVE  n + 1 \in S
  <2>1. n \in Nat /\ n + 1 \in 0..N /\ n + 1 \in 1..N /\ (n + 1) - 1 = n /\ n + 1 \in DOMAIN lines
    BY <1>1
  <2>2. f[n + 1] = IF n + 1 \in positions THEN Append(f[n], lines[n + 1]) ELSE f[n]
    BY <1>2, <2>1
  <2>3. PickedUpTo(f[n], lines, positions, n)
    BY <1>4
  <2> HIDE DEF S
  <2>4. PickedUpTo(f[n + 1], lines, positions, n + 1)
    <3>1. CASE n + 1 \in positions
      BY <2>1, <2>2, <2>3, <3>1, OneMoreIsPicked
    <3>2. CASE n + 1 \notin positions
      <4>1. \A i : i \in 1..n => i \in 1..(n + 1)
        BY <2>1
      <4>2. \A i \in 1..(n + 1) : i = n + 1 \/ i \in 1..n
        BY <2>1
      <4>3. f[n + 1] = f[n]
        BY <2>2, <3>2
      <4>4. QED
        BY <2>3, <3>2, <4>1, <4>2, <4>3 DEF PickedUpTo
    <3>3. QED
      BY <3>1, <3>2
  <2>5. QED
    BY <2>1, <2>4 DEF S
<1> HIDE DEF S
<1>5. \A n \in 0..N : n \in S
  BY <1>1, <1>3, <1>4, Induct
<1>6. PickedUpTo(f[N], lines, positions, N)
  <2>1. N \in 0..N
    BY <1>1
  <2>2. QED
    BY <1>5, <2>1 DEF S
<1>7. QED
  BY <1>1, <1>2, <1>6 DEF PickedUpTo

-----------------------------------------------------------------------------
(* Counting lines. *)

\* The smaller of two numbers
LEMMA MinOfTwo ==
  ASSUME NEW m \in Nat, NEW n \in Nat
  PROVE  Min({m, n}) = IF m <= n THEN m ELSE n
BY DEF Min

\* The larger of two numbers
LEMMA MaxOfTwo ==
  ASSUME NEW m \in Int, NEW n \in Int
  PROVE  Max({m, n}) = IF m >= n THEN m ELSE n
BY DEF Max

\* The numbers of lines
Numbers(lines) == {lines[k][1] : k \in DOMAIN lines}

\* The lines at a to b have b - a + 1 different numbers.
LEMMA NumbersCount ==
  ASSUME NEW lines \in Seq(Pair), Ordered(lines), NEW a \in Nat \ {0}, NEW b \in Nat,
         b <= Len(lines), NEW some, \A n : n \in some <=> \E k \in a..b : n = lines[k][1]
  PROVE  Cardinality(some) = IF a > b THEN 0 ELSE b - a + 1
<1> DEFINE f == [k \in a..b |-> lines[k][1]]
<1>1. \A k \in a..b : k \in DOMAIN lines
  <2>1. DOMAIN lines = 1..Len(lines) /\ Len(lines) \in Nat
    OBVIOUS
  <2>2. QED
    BY <2>1
<1>2. f \in [a..b -> some]
  OBVIOUS
<1>3. \A k, l \in a..b : f[k] = f[l] => k = l
  <2> SUFFICES ASSUME NEW k \in a..b, NEW l \in a..b, f[k] = f[l], k # l
               PROVE  FALSE
    OBVIOUS
  <2>1. /\ lines[k] \in Pair /\ lines[l] \in Pair
        /\ f[k] = lines[k][1] /\ f[l] = lines[l][1]
    BY <1>1
  <2>2. lines[k][1] \in Nat /\ lines[l][1] \in Nat
    BY <2>1 DEF Pair
  <2>3. k < l => lines[k][1] < lines[l][1]
    BY <1>1 DEF Ordered
  <2>4. l < k => lines[l][1] < lines[k][1]
    BY <1>1 DEF Ordered
  <2>5. k < l \/ l < k
    OBVIOUS
  <2>6. QED
    BY <2>1, <2>2, <2>3, <2>4, <2>5
<1>4. \A n \in some : \E k \in a..b : f[k] = n
  OBVIOUS
<1> HIDE DEF f
<1>5. f \in Bijection(a..b, some)
  BY <1>2, <1>3, <1>4 DEF Bijection, Injection, Surjection, IsInjective
<1>6. ExistsBijection(a..b, some)
  BY <1>5 DEF ExistsBijection
<1>7. IsFiniteSet(a..b) /\ Cardinality(a..b) = IF a > b THEN 0 ELSE b - a + 1
  BY FS_Interval
<1>8. QED
  BY <1>6, <1>7, FS_Bijection

\* How many lines come after a line, and how many before it.
LEMMA LinesAround ==
  ASSUME NEW lines \in Seq(Pair), Ordered(lines), NEW i \in DOMAIN lines
  PROVE  /\ Cardinality({n \in Numbers(lines) : n > lines[i][1]}) = Len(lines) - i
         /\ Cardinality({n \in Numbers(lines) : n < lines[i][1]}) = i - 1
<1> DEFINE N == Len(lines)
           later == {n \in Numbers(lines) : n > lines[i][1]}
           earlier == {n \in Numbers(lines) : n < lines[i][1]}
<1>1. N \in Nat /\ DOMAIN lines = 1..N /\ i \in 1..N
  OBVIOUS
<1>2. \A k \in DOMAIN lines : lines[k][1] \in Nat
  <2>1. \A k \in DOMAIN lines : lines[k] \in Pair
    OBVIOUS
  <2>2. QED
    BY <2>1 DEF Pair
<1>3. ASSUME NEW k \in DOMAIN lines
      PROVE  /\ lines[k][1] > lines[i][1] <=> k > i
             /\ lines[k][1] < lines[i][1] <=> k < i
  <2>1. CASE k = i
    BY <1>1, <1>2, <2>1
  <2>2. CASE k < i
    <3>1. lines[k][1] < lines[i][1]
      BY <2>2 DEF Ordered
    <3>2. QED
      BY <1>1, <1>2, <2>2, <3>1
  <2>3. CASE i < k
    <3>1. lines[i][1] < lines[k][1]
      BY <2>3 DEF Ordered
    <3>2. QED
      BY <1>1, <1>2, <2>3, <3>1
  <2>4. QED
    BY <1>1, <2>1, <2>2, <2>3
<1> HIDE DEF N
<1>4. \A n : n \in later <=> \E k \in (i + 1)..N : n = lines[k][1]
  <2>1. \A k : k \in (i + 1)..N <=> k \in DOMAIN lines /\ k > i
    BY <1>1
  <2>2. QED
    BY <1>3, <2>1 DEF Numbers
<1>5. \A n : n \in earlier <=> \E k \in 1..(i - 1) : n = lines[k][1]
  <2>1. \A k : k \in 1..(i - 1) <=> k \in DOMAIN lines /\ k < i
    BY <1>1
  <2>2. QED
    BY <1>3, <2>1 DEF Numbers
<1> HIDE DEF later, earlier
<1>6. Cardinality(later) = IF i + 1 > N THEN 0 ELSE N - (i + 1) + 1
  <2>1. i + 1 \in Nat \ {0} /\ N <= Len(lines)
    BY <1>1 DEF N
  <2>2. QED
    BY <1>1, <1>4, <2>1, NumbersCount
<1>7. Cardinality(earlier) = IF 1 > i - 1 THEN 0 ELSE (i - 1) - 1 + 1
  <2> DEFINE b == i - 1
  <2>1. b \in Nat /\ b <= Len(lines) /\ 1 \in Nat \ {0}
    BY <1>1 DEF N
  <2>2. \A n : n \in earlier <=> \E k \in 1..b : n = lines[k][1]
    BY <1>5
  <2> HIDE DEF b
  <2>3. Cardinality(earlier) = IF 1 > b THEN 0 ELSE b - 1 + 1
    BY <2>1, <2>2, NumbersCount
  <2>4. QED
    BY <2>3 DEF b
<1>8. Cardinality(later) = N - i /\ Cardinality(earlier) = i - 1
  BY <1>1, <1>6, <1>7
<1>9. QED
  BY <1>8 DEF N, later, earlier

\* The lines from a to b
IsPiece(piece, lines, a, b) ==
  /\ piece \in Seq(Pair) /\ Ordered(piece)
  /\ \A k \in DOMAIN piece : \E i \in DOMAIN lines : i \in a..b /\ piece[k] = lines[i]
  /\ \A i \in DOMAIN lines : i \in a..b => \E k \in DOMAIN piece : piece[k] = lines[i]

\* SubSeq cuts a piece.
LEMMA PieceOfLines ==
  ASSUME NEW lines \in Seq(Pair), Ordered(lines), NEW a \in Nat \ {0}, NEW b \in Nat,
         b <= Len(lines)
  PROVE  IsPiece(SubSeq(lines, a, b), lines, a, b)
<1> DEFINE piece == SubSeq(lines, a, b)
           N == IF a <= b THEN b - a + 1 ELSE 0
<1>1. N \in Nat /\ DOMAIN lines = 1..Len(lines) /\ Len(lines) \in Nat
  OBVIOUS
<1>2. /\ piece = [k \in 1..(b - a + 1) |-> lines[a + k - 1]] /\ 1..(b - a + 1) = 1..N
  BY DEF SubSeq
<1>3. \A k \in 1..N : a + k - 1 \in DOMAIN lines /\ a + k - 1 \in a..b
  BY <1>1
<1>4. piece \in Seq(Pair) /\ DOMAIN piece = 1..N
  BY <1>1, <1>2, <1>3
<1>5. \A k \in 1..N : piece[k] = lines[a + k - 1]
  BY <1>2
<1>6. \A i \in a..b : i - a + 1 \in 1..N /\ a + (i - a + 1) - 1 = i
  OBVIOUS
<1> HIDE DEF piece, N
<1>7. Ordered(piece)
  <2> SUFFICES ASSUME NEW j \in 1..N, NEW k \in 1..N, j < k
               PROVE  piece[j][1] < piece[k][1]
    BY <1>4 DEF Ordered
  <2>1. a + j - 1 < a + k - 1
    BY <1>1
  <2>2. lines[a + j - 1][1] < lines[a + k - 1][1]
    BY <1>3, <2>1 DEF Ordered
  <2>3. QED
    BY <1>5, <2>2
<1>8. \A i \in a..b : piece[i - a + 1] = lines[i]
  BY <1>5, <1>6
<1>9. QED
  BY <1>3, <1>4, <1>5, <1>6, <1>7, <1>8 DEF IsPiece, piece

-----------------------------------------------------------------------------
(* The last lines, and the first that match. *)

\* The lines that have text
WithText(kept) == {i \in DOMAIN kept : kept[i] > 0}

\* Of the numbers, those that fewer than max come after
LastOf(numbers, max) == {n \in numbers : Cardinality({m \in numbers : m > n}) < max}

\* Of the numbers, those that fewer than max come before
FirstOf(numbers, max) == {n \in numbers : Cardinality({m \in numbers : m < n}) < max}

\* some are the lines of these numbers, in their order
AreLines(some, lines, numbers) ==
  /\ some \in Seq(Pair) /\ Ordered(some)
  /\ \A k \in DOMAIN some : \E i \in DOMAIN lines : some[k] = lines[i]
  /\ Numbers(some) = numbers

\* NotBlank yields the lines with text, each with its number.
LEMMA NotBlankHasText ==
  ASSUME NEW kept \in Seq(Nat)
  PROVE  /\ NotBlank(kept) \in Seq(Pair) /\ Ordered(NotBlank(kept))
         /\ \A k \in DOMAIN NotBlank(kept) :
              \E i \in WithText(kept) : NotBlank(kept)[k] = <<i, kept[i]>>
         /\ Numbers(NotBlank(kept)) = WithText(kept)
<1> DEFINE lines == [i \in DOMAIN kept |-> <<i, kept[i]>>]
           found == NotBlank(kept)
<1>1. DOMAIN kept = 1..Len(kept) /\ Len(kept) \in Nat /\ \A i \in DOMAIN kept : kept[i] \in Nat
  OBVIOUS
<1>2. /\ lines \in Seq(Pair) /\ DOMAIN lines = DOMAIN kept
      /\ \A i \in DOMAIN kept : lines[i] = <<i, kept[i]>> /\ lines[i][1] = i
  <2>1. \A i \in DOMAIN kept : <<i, kept[i]>> \in Pair
    BY <1>1 DEF Pair
  <2>2. lines = [i \in 1..Len(kept) |-> <<i, kept[i]>>]
    BY <1>1
  <2>3. QED
    BY <1>1, <2>1, <2>2
<1>3. found = Those(lines, WithText(kept))
  BY DEF NotBlank, WithText
<1>4. WithText(kept) \in SUBSET DOMAIN lines
  BY <1>2 DEF WithText
<1> HIDE DEF lines, found
<1>5. Ordered(lines)
  BY <1>2 DEF Ordered
<1>6. /\ found \in Seq(Pair) /\ Ordered(found)
      /\ \A k \in DOMAIN found : \E i \in WithText(kept) : found[k] = lines[i]
      /\ \A i \in WithText(kept) : \E k \in DOMAIN found : found[k] = lines[i]
  BY <1>2, <1>3, <1>4, <1>5, ThoseArePicked
<1>7. \A i \in WithText(kept) : lines[i] = <<i, kept[i]>> /\ lines[i][1] = i
  BY <1>2, <1>4
<1>8. \A n : n \in Numbers(found) <=> n \in WithText(kept)
  BY <1>6, <1>7 DEF Numbers
<1>9. Numbers(found) = WithText(kept)
  BY <1>8
<1>10. ASSUME NEW k \in DOMAIN found
       PROVE  \E i \in WithText(kept) : found[k] = <<i, kept[i]>>
  <2>1. PICK i \in WithText(kept) : found[k] = lines[i]
    BY <1>6
  <2>2. found[k] = <<i, kept[i]>>
    BY <1>7, <2>1
  <2>3. QED
    BY <2>2
<1>11. QED
  BY <1>6, <1>9, <1>10 DEF found

\* The last lines are those that fewer than max lines come after.
LEMMA LastLines ==
  ASSUME NEW lines \in Seq(Pair), Ordered(lines), NEW max \in Nat \ {0}
  PROVE  AreLines(SubSeq(lines, Max({1, Len(lines) - max + 1}), Len(lines)), lines,
                  LastOf(Numbers(lines), max))
<1> DEFINE N == Len(lines)
           last == SubSeq(lines, Max({1, Len(lines) - max + 1}), Len(lines))
           a == Max({1, N - max + 1})
           late == LastOf(Numbers(lines), max)
<1>1. N \in Nat /\ DOMAIN lines = 1..N
  OBVIOUS
<1>2. a = IF 1 >= N - max + 1 THEN 1 ELSE N - max + 1
  BY <1>1, MaxOfTwo
<1> HIDE DEF N, a, last
<1>3. a \in Nat \ {0} /\ \A i \in DOMAIN lines : i \in a..N <=> N - i < max
  BY <1>1, <1>2
<1>4. IsPiece(last, lines, a, N)
  <2>1. last = SubSeq(lines, a, N) /\ N <= Len(lines)
    BY <1>1 DEF N, a, last
  <2>2. QED
    BY <1>1, <1>3, <2>1, PieceOfLines
<1>5. \A i \in DOMAIN lines : lines[i][1] \in late <=> i \in a..N
  <2> SUFFICES ASSUME NEW i \in DOMAIN lines
               PROVE  lines[i][1] \in late <=> i \in a..N
    OBVIOUS
  <2>1. Cardinality({m \in Numbers(lines) : m > lines[i][1]}) = N - i
    BY LinesAround DEF N
  <2>2. lines[i][1] \in Numbers(lines)
    BY DEF Numbers
  <2>3. QED
    BY <1>3, <2>1, <2>2 DEF LastOf
<1>6. \A n \in late : \E i \in DOMAIN lines : n = lines[i][1]
  BY DEF Numbers, LastOf
<1> HIDE DEF late
<1>7. /\ \A k \in DOMAIN last : last[k][1] \in late
      /\ \A n \in late : \E k \in DOMAIN last : last[k][1] = n
  <2>1. ASSUME NEW k \in DOMAIN last
        PROVE  last[k][1] \in late
    <3>1. PICK i \in DOMAIN lines : i \in a..N /\ last[k] = lines[i]
      BY <1>4 DEF IsPiece
    <3>2. QED
      BY <1>5, <3>1
  <2>2. ASSUME NEW n \in late
        PROVE  \E k \in DOMAIN last : last[k][1] = n
    <3>1. PICK i \in DOMAIN lines : n = lines[i][1]
      BY <1>6
    <3>2. PICK k \in DOMAIN last : last[k] = lines[i]
      BY <1>4, <1>5, <3>1 DEF IsPiece
    <3>3. QED
      BY <3>1, <3>2
  <2>3. QED
    BY <2>1, <2>2
<1>8. Numbers(last) = late
  BY <1>7 DEF Numbers
<1>9. QED
  BY <1>4, <1>8 DEF IsPiece, AreLines, last, late

\* The first lines are those that fewer than max lines come before.
LEMMA FirstLines ==
  ASSUME NEW lines \in Seq(Pair), Ordered(lines), NEW max \in Nat \ {0}
  PROVE  AreLines(SubSeq(lines, 1, Min({max, Len(lines)})), lines,
                  FirstOf(Numbers(lines), max))
<1> DEFINE N == Len(lines)
           first == SubSeq(lines, 1, Min({max, Len(lines)}))
           b == Min({max, N})
           early == FirstOf(Numbers(lines), max)
<1>1. N \in Nat /\ DOMAIN lines = 1..N
  OBVIOUS
<1>2. b = IF max <= N THEN max ELSE N
  BY <1>1, MinOfTwo
<1> HIDE DEF N, b, first
<1>3. b \in Nat /\ b <= N /\ \A i \in DOMAIN lines : i \in 1..b <=> i - 1 < max
  BY <1>1, <1>2
<1>4. IsPiece(first, lines, 1, b)
  <2>1. first = SubSeq(lines, 1, b) /\ b <= Len(lines) /\ 1 \in Nat \ {0}
    BY <1>1, <1>3 DEF N, b, first
  <2>2. QED
    BY <1>1, <1>3, <2>1, PieceOfLines
<1>5. \A i \in DOMAIN lines : lines[i][1] \in early <=> i \in 1..b
  <2> SUFFICES ASSUME NEW i \in DOMAIN lines
               PROVE  lines[i][1] \in early <=> i \in 1..b
    OBVIOUS
  <2>1. Cardinality({m \in Numbers(lines) : m < lines[i][1]}) = i - 1
    BY LinesAround
  <2>2. lines[i][1] \in Numbers(lines)
    BY DEF Numbers
  <2>3. QED
    BY <1>3, <2>1, <2>2 DEF FirstOf
<1>6. \A n \in early : \E i \in DOMAIN lines : n = lines[i][1]
  BY DEF Numbers, FirstOf
<1> HIDE DEF early
<1>7. /\ \A k \in DOMAIN first : first[k][1] \in early
      /\ \A n \in early : \E k \in DOMAIN first : first[k][1] = n
  <2>1. ASSUME NEW k \in DOMAIN first
        PROVE  first[k][1] \in early
    <3>1. PICK i \in DOMAIN lines : i \in 1..b /\ first[k] = lines[i]
      BY <1>4 DEF IsPiece
    <3>2. QED
      BY <1>5, <3>1
  <2>2. ASSUME NEW n \in early
        PROVE  \E k \in DOMAIN first : first[k][1] = n
    <3>1. PICK i \in DOMAIN lines : n = lines[i][1]
      BY <1>6
    <3>2. PICK k \in DOMAIN first : first[k] = lines[i]
      BY <1>4, <1>5, <3>1 DEF IsPiece
    <3>3. QED
      BY <3>1, <3>2
  <2>3. QED
    BY <2>1, <2>2
<1>8. Numbers(first) = early
  BY <1>7 DEF Numbers
<1>9. QED
  BY <1>4, <1>8 DEF IsPiece, AreLines, first, early

\* tailLines takes the last lines with text, in their order, and all of them
\* when there are no more than it may take.
THEOREM TailLinesAreTheLast ==
  ASSUME NEW kept \in Seq(Nat), NEW max \in Nat \ {0}
  PROVE  /\ TailLines(kept, max) \in Seq(Pair) /\ Ordered(TailLines(kept, max))
         /\ \A k \in DOMAIN TailLines(kept, max) :
              \E i \in WithText(kept) : TailLines(kept, max)[k] = <<i, kept[i]>>
         /\ Numbers(TailLines(kept, max)) = LastOf(WithText(kept), max)
<1>1. /\ NotBlank(kept) \in Seq(Pair) /\ Ordered(NotBlank(kept))
      /\ \A k \in DOMAIN NotBlank(kept) :
           \E i \in WithText(kept) : NotBlank(kept)[k] = <<i, kept[i]>>
      /\ Numbers(NotBlank(kept)) = WithText(kept)
  BY NotBlankHasText
<1>2. PICK lines : lines = NotBlank(kept)
  OBVIOUS
<1>3. PICK last : last = TailLines(kept, max)
  OBVIOUS
<1>4. last = SubSeq(lines, Max({1, Len(lines) - max + 1}), Len(lines))
  BY <1>2, <1>3 DEF TailLines
<1>5. /\ last \in Seq(Pair) /\ Ordered(last)
      /\ \A k \in DOMAIN last : \E i \in DOMAIN lines : last[k] = lines[i]
      /\ Numbers(last) = LastOf(Numbers(lines), max)
  <2>1. AreLines(last, lines, LastOf(Numbers(lines), max))
    BY <1>1, <1>2, <1>4, LastLines
  <2>2. QED
    BY <2>1 DEF AreLines
<1>6. \A k \in DOMAIN last : \E i \in WithText(kept) : last[k] = <<i, kept[i]>>
  BY <1>1, <1>2, <1>5
<1>7. Numbers(last) = LastOf(WithText(kept), max)
  BY <1>1, <1>2, <1>5
<1>8. QED
  BY <1>3, <1>5, <1>6, <1>7

\* The numbers of the lines a search includes
Included(file, lines, search) ==
  {lines[k][1] : k \in {l \in DOMAIN lines : Matches(file, lines[l]) # (search = "invert")}}

\* searchConsoleLines yields the first lines that match, or that do not, in
\* their order.
THEOREM SearchLinesAreTheFirst ==
  ASSUME NEW file, NEW lines \in Seq(Pair), Ordered(lines), NEW search, search # "none",
         NEW max \in Nat \ {0}
  PROVE  AreLines(SearchLines(file, lines, search, max), lines,
                  FirstOf(Included(file, lines, search), max))
<1>1. PICK positions :
        positions = {l \in DOMAIN lines : Matches(file, lines[l]) # (search = "invert")}
  OBVIOUS
<1>2. PICK included : included = Those(lines, positions)
  OBVIOUS
<1>3. PICK first : first = SearchLines(file, lines, search, max)
  OBVIOUS
<1>4. first = SubSeq(included, 1, Min({max, Len(included)}))
  BY <1>1, <1>2, <1>3 DEF SearchLines
<1>5. /\ included \in Seq(Pair) /\ Ordered(included)
      /\ \A k \in DOMAIN included : \E i \in positions : included[k] = lines[i]
      /\ \A i \in positions : \E k \in DOMAIN included : included[k] = lines[i]
  <2>1. positions \in SUBSET DOMAIN lines
    BY <1>1
  <2>2. QED
    BY <1>2, <2>1, ThoseArePicked
<1>6. Numbers(included) = Included(file, lines, search)
  <2>1. Included(file, lines, search) = {lines[k][1] : k \in positions}
    BY <1>1 DEF Included
  <2>2. \A n : n \in Numbers(included) <=> n \in {lines[k][1] : k \in positions}
    BY <1>5 DEF Numbers
  <2>3. QED
    BY <2>1, <2>2
<1>7. /\ first \in Seq(Pair) /\ Ordered(first)
      /\ \A k \in DOMAIN first : \E i \in DOMAIN included : first[k] = included[i]
      /\ Numbers(first) = FirstOf(Numbers(included), max)
  <2>1. AreLines(first, included, FirstOf(Numbers(included), max))
    BY <1>4, <1>5, FirstLines
  <2>2. QED
    BY <2>1 DEF AreLines
<1>8. \A k \in DOMAIN first : \E i \in DOMAIN lines : first[k] = lines[i]
  BY <1>1, <1>5, <1>7
<1>9. QED
  BY <1>3, <1>6, <1>7, <1>8 DEF AreLines

-----------------------------------------------------------------------------
(* The cut. *)

\* truncateContent leaves text of a line when the line has text and starts
\* before the cut, and all of it when the line ends before the cut.
LEMMA TheCut ==
  ASSUME NEW file \in Seq(Line), NEW max \in Nat \ {0}
  PROVE  /\ Truncated(file, max) \in Seq(Nat) /\ DOMAIN Truncated(file, max) = DOMAIN file
         /\ \A i \in DOMAIN file :
              /\ i \in WithText(Truncated(file, max)) <=>
                   file[i].bytes > 0 /\ StartOf(file, i) < max
              /\ i \in WithText(Truncated(file, max)) =>
                   (Truncated(file, max)[i] = file[i].bytes <=>
                      StartOf(file, i) + file[i].bytes <= max)
<1> DEFINE kept == Truncated(file, max)
<1>1. ASSUME NEW i \in DOMAIN file
      PROVE  /\ kept[i] \in Nat
             /\ kept[i] > 0 <=> file[i].bytes > 0 /\ StartOf(file, i) < max
             /\ kept[i] > 0 => (kept[i] = file[i].bytes <=>
                                  StartOf(file, i) + file[i].bytes <= max)
  <2> DEFINE bytes == file[i].bytes
             start == StartOf(file, i)
             room == Max({0, max - start})
  <2>1. bytes \in Nat /\ start \in Nat
    <3>1. file[i] \in Line /\ i \in 1..Len(file)
      OBVIOUS
    <3>2. QED
      BY <3>1, StartOfALine DEF Line
  <2>2. kept[i] = Min({bytes, room})
    BY DEF Truncated
  <2> HIDE DEF bytes, start, kept, room
  <2>3. room = IF 0 >= max - start THEN 0 ELSE max - start
    BY <2>1, MaxOfTwo DEF room
  <2>4. room \in Nat
    BY <2>1, <2>3
  <2>5. kept[i] = IF bytes <= room THEN bytes ELSE room
    BY <2>1, <2>2, <2>4, MinOfTwo
  <2>6. /\ kept[i] \in Nat
        /\ kept[i] > 0 <=> bytes > 0 /\ start < max
        /\ kept[i] > 0 => (kept[i] = bytes <=> start + bytes <= max)
    BY <2>1, <2>3, <2>4, <2>5
  <2>7. QED
    BY <2>6 DEF bytes, start
<1>2. DOMAIN kept = DOMAIN file
  BY DEF Truncated
<1>3. kept \in Seq(Nat)
  <2> DEFINE N == Len(file)
  <2>1. kept = [i \in 1..N |-> kept[i]] /\ N \in Nat /\ DOMAIN file = 1..N
    BY DEF Truncated
  <2> HIDE DEF kept, N
  <2>2. \A i \in 1..N : kept[i] \in Nat
    BY <1>1, <2>1
  <2>3. QED
    BY <2>1, <2>2
<1> HIDE DEF kept
<1>4. \A i \in DOMAIN file : i \in WithText(kept) <=> kept[i] > 0
  BY <1>2 DEF WithText
<1>5. QED
  BY <1>1, <1>2, <1>3, <1>4 DEF kept

\* stripAnsi takes a line of one escape sequence away, unless the cut left only a
\* part of it, and leaves the others as they are.
LEMMA WhatIsLeft ==
  ASSUME NEW file \in Seq(Line), NEW max \in Nat \ {0},
         NEW left, left = Stripped(file, Truncated(file, max))
  PROVE  /\ left \in Seq(Nat) /\ DOMAIN left = DOMAIN file
         /\ \A i \in DOMAIN file :
              /\ i \in WithText(left) <=>
                   /\ file[i].bytes > 0 /\ StartOf(file, i) < max
                   /\ ~(file[i].codes /\ StartOf(file, i) + file[i].bytes <= max)
              /\ i \in WithText(left) =>
                   (left[i] = file[i].bytes <=> StartOf(file, i) + file[i].bytes <= max)
<1>1. PICK kept : kept = Truncated(file, max)
  OBVIOUS
<1> DEFINE whole(i) == StartOf(file, i) + file[i].bytes <= max
<1>2. /\ kept \in Seq(Nat) /\ DOMAIN kept = DOMAIN file
      /\ \A i \in DOMAIN file :
           /\ kept[i] > 0 <=> file[i].bytes > 0 /\ StartOf(file, i) < max
           /\ kept[i] > 0 => (kept[i] = file[i].bytes <=> whole(i))
  BY <1>1, TheCut DEF WithText
<1> HIDE DEF whole
<1>3. left = [i \in DOMAIN file |->
                IF file[i].codes /\ kept[i] = file[i].bytes THEN 0 ELSE kept[i]]
  BY <1>1 DEF Stripped
<1>4. left \in Seq(Nat) /\ DOMAIN left = DOMAIN file
  <2> DEFINE N == Len(file)
  <2>1. left = [i \in 1..N |-> left[i]] /\ N \in Nat /\ DOMAIN file = 1..N
    BY <1>3
  <2>2. \A i \in 1..N : left[i] \in Nat
    BY <1>2, <1>3, <2>1
  <2> HIDE DEF N
  <2>3. QED
    BY <2>1, <2>2
<1>5. \A i \in DOMAIN file : i \in WithText(left) <=> left[i] > 0
  BY <1>4 DEF WithText
<1>6. \A i \in DOMAIN file :
        /\ left[i] > 0 <=> kept[i] > 0 /\ ~(file[i].codes /\ kept[i] = file[i].bytes)
        /\ left[i] > 0 => left[i] = kept[i]
  BY <1>2, <1>3
<1>7. \A i \in DOMAIN file :
        /\ i \in WithText(left) <=>
             /\ file[i].bytes > 0 /\ StartOf(file, i) < max
             /\ ~(file[i].codes /\ whole(i))
        /\ i \in WithText(left) => (left[i] = file[i].bytes <=> whole(i))
  BY <1>2, <1>5, <1>6
<1>8. QED
  BY <1>4, <1>7 DEF whole

=============================================================================
