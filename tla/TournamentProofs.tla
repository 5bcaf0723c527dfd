-------------------------- MODULE TournamentProofs --------------------------
(***************************************************************************)
(* Proofs about Tournament, for every bracket size and lineup, and any     *)
(* number of requests, regenerations and purges.  First the geometry of a  *)
(* bracket, then the promises of the atomic tournament, then that the      *)
(* concurrent requests implement it, so that they keep those promises.     *)
(***************************************************************************)
EXTENDS Tournament, ChalkPlay, FiniteSetTheorems, SequenceTheorems, TLAPS

-----------------------------------------------------------------------------
(* The geometry of a bracket *)

\* The two matches whose winners play match m.
Left(m) == <<m[1] - 1, 2 * m[2]>>
Right(m) == <<m[1] - 1, 2 * m[2] + 1>>

LEMMA RoundSizes ==
    ASSUME NEW n \in BracketSizes
    PROVE
    /\ Rounds(n) \in 3..6
    /\ \A r \in 1..Rounds(n) : MatchesInRound(n, r) \in 1..n
    /\ \A r \in 1..(Rounds(n) - 1) :
          MatchesInRound(n, r) = 2 * MatchesInRound(n, r + 1)
    /\ MatchesInRound(n, 1) = n \div 2
    /\ MatchesInRound(n, Rounds(n)) = 1
<1>1. CASE n = 8
  BY <1>1 DEF Rounds, MatchesInRound, Pow2
<1>2. CASE n = 16
  BY <1>2 DEF Rounds, MatchesInRound, Pow2
<1>3. CASE n = 32
  BY <1>3 DEF Rounds, MatchesInRound, Pow2
<1>4. CASE n = 64
  BY <1>4 DEF Rounds, MatchesInRound, Pow2
<1> QED
  BY <1>1, <1>2, <1>3, <1>4 DEF BracketSizes

LEMMA MatchParts ==
    ASSUME NEW n \in BracketSizes, NEW m \in Places(n)
    PROVE  /\ m[1] \in 1..Rounds(n) /\ m[2] \in Nat
           /\ m[2] < MatchesInRound(n, m[1])
           /\ m = <<m[1], m[2]>>
    BY RoundSizes DEF Places, BracketSizes

LEMMA PlaceIsMatch ==
    ASSUME NEW n \in BracketSizes, NEW r \in 1..Rounds(n), NEW p \in Nat,
           p < MatchesInRound(n, r)
    PROVE  <<r, p>> \in Places(n)
    BY RoundSizes DEF Places, BracketSizes

LEMMA FinalIsMatch ==
    ASSUME NEW n \in BracketSizes
    PROVE  Final(n) \in Places(n) /\ Final(n)[1] = Rounds(n)
    BY RoundSizes, PlaceIsMatch DEF Final

\* Only the final has no next match.
LEMMA FinalIsLast ==
    ASSUME NEW n \in BracketSizes, NEW m \in Places(n)
    PROVE  m = Final(n) <=> ~(m[1] < Rounds(n))
    BY MatchParts, FinalIsMatch, RoundSizes DEF Final

LEMMA Feeders ==
    ASSUME NEW n \in BracketSizes, NEW m \in Places(n), m[1] > 1
    PROVE  /\ Left(m) \in Places(n) /\ Right(m) \in Places(n)
           /\ Left(m) # Right(m) /\ Left(m) # m /\ Right(m) # m
           /\ Left(m)[1] = m[1] - 1 /\ Left(m)[2] = 2 * m[2]
           /\ Right(m)[1] = m[1] - 1 /\ Right(m)[2] = 2 * m[2] + 1
<1>1. m[1] - 1 \in 1..(Rounds(n) - 1)
  BY MatchParts, RoundSizes
<1>2. MatchesInRound(n, m[1] - 1) = 2 * MatchesInRound(n, m[1])
  <2>1. (m[1] - 1) + 1 = m[1]
    BY <1>1, MatchParts
  <2> QED
    BY <1>1, <2>1, RoundSizes
<1>3. MatchesInRound(n, m[1]) \in Nat
  BY MatchParts, RoundSizes DEF BracketSizes
<1>4. /\ 2 * m[2] \in Nat /\ 2 * m[2] < MatchesInRound(n, m[1] - 1)
      /\ 2 * m[2] + 1 \in Nat /\ 2 * m[2] + 1 < MatchesInRound(n, m[1] - 1)
  BY <1>2, <1>3, MatchParts
<1>5. <<m[1] - 1, 2 * m[2]>> \in Places(n) /\ <<m[1] - 1, 2 * m[2] + 1>> \in Places(n)
  BY <1>1, <1>4, PlaceIsMatch, RoundSizes
<1> QED
  BY <1>5, MatchParts DEF Left, Right

\* A match that is not the final feeds one place of one match: the side that
\* its position says.
LEMMA Feeding ==
    ASSUME NEW n \in BracketSizes, NEW m \in Places(n), m[1] < Rounds(n)
    PROVE  /\ NextPlace(m) \in Places(n) /\ NextPlace(m)[1] > 1
           /\ NextPlace(m) # m
           /\ m[2] % 2 = 0 => m = Left(NextPlace(m))
           /\ m[2] % 2 # 0 => m = Right(NextPlace(m))
<1>1. m[1] \in 1..(Rounds(n) - 1) /\ m[2] \in Nat
  BY MatchParts, RoundSizes
<1>2. MatchesInRound(n, m[1]) = 2 * MatchesInRound(n, m[1] + 1)
  BY <1>1, RoundSizes
<1>3. m[1] + 1 \in 1..Rounds(n)
  BY <1>1, RoundSizes
<1>4. MatchesInRound(n, m[1] + 1) \in Nat
  BY <1>3, RoundSizes DEF BracketSizes
<1>5. m[2] \div 2 \in Nat /\ m[2] \div 2 < MatchesInRound(n, m[1] + 1)
  BY <1>1, <1>2, <1>4, MatchParts
<1>6. NextPlace(m) \in Places(n)
  BY <1>3, <1>5, PlaceIsMatch DEF NextPlace
<1>7. /\ m[2] % 2 = 0 => 2 * (m[2] \div 2) = m[2]
      /\ m[2] % 2 # 0 => 2 * (m[2] \div 2) + 1 = m[2]
  BY <1>1
<1> QED
  BY <1>1, <1>6, <1>7, MatchParts DEF NextPlace, Left, Right

LEMMA FeedsOnly ==
    ASSUME NEW n \in BracketSizes, NEW m \in Places(n), NEW k \in Places(n), k[1] > 1
    PROVE  /\ m = Left(k) => m[1] < Rounds(n) /\ NextPlace(m) = k /\ m[2] % 2 = 0
           /\ m = Right(k) => m[1] < Rounds(n) /\ NextPlace(m) = k /\ m[2] % 2 # 0
<1>1. /\ k[1] \in 1..Rounds(n) /\ k[2] \in Nat /\ k = <<k[1], k[2]>>
      /\ m[1] \in 1..Rounds(n) /\ m[2] \in Nat
  BY MatchParts
<1>2. /\ (2 * k[2]) \div 2 = k[2] /\ (2 * k[2]) % 2 = 0
      /\ (2 * k[2] + 1) \div 2 = k[2] /\ (2 * k[2] + 1) % 2 = 1
  BY <1>1
<1> QED
  BY <1>1, <1>2, RoundSizes, Feeders DEF NextPlace, Left, Right

LEMMA MatchesFinite ==
    ASSUME NEW n \in BracketSizes
    PROVE  IsFiniteSet(Places(n))
<1>1. IsFiniteSet(1..Rounds(n)) /\ IsFiniteSet(0..n)
  <2>1. Rounds(n) \in Int /\ n \in Int /\ 0 \in Int /\ 1 \in Int
    BY RoundSizes DEF BracketSizes
  <2> QED
    BY <2>1, FS_Interval
<1>2. IsFiniteSet((1..Rounds(n)) \X (0..n))
  BY <1>1, FS_Product
<1> QED
  BY <1>2, FS_Subset DEF Places

-----------------------------------------------------------------------------
(* Seedings *)

\* A list of pairings for 2k seeds: each of the k best opens one of them,
\* against the seed that complements it.
IsSeeding(pairs, k) ==
    /\ pairs \in Seq(Nat \X Nat)
    /\ Len(pairs) = k
    /\ \A i \in 1..k :
          pairs[i][1] \in 1..k /\ pairs[i][2] \in Nat /\ pairs[i][1] + pairs[i][2] = 2 * k + 1
    /\ \A i, j \in 1..k : pairs[i][1] = pairs[j][1] => i = j
    /\ \A s \in 1..k : \E i \in 1..k : pairs[i][1] = s

LEMMA SeedingOf8 == IsSeeding(Pairings8, 4)
<1>1. Pairings8 \in Seq(Nat \X Nat) /\ Len(Pairings8) = 4
  BY DEF Pairings8
<1>2. \A i \in 1..4 : Pairings8[i][1] = CASE i = 1 -> 1 [] i = 2 -> 4 [] i = 3 -> 2 [] i = 4 -> 3
  BY DEF Pairings8
<1>3. \A i \in 1..4 : Pairings8[i][2] \in Nat /\ Pairings8[i][1] + Pairings8[i][2] = 2 * 4 + 1
  BY DEF Pairings8
<1>4. \A s \in 1..4 : \E i \in 1..4 : Pairings8[i][1] = s
  <2>1. /\ Pairings8[1][1] = 1 /\ Pairings8[2][1] = 4
        /\ Pairings8[3][1] = 2 /\ Pairings8[4][1] = 3
    BY DEF Pairings8
  <2>2. \A s \in 1..4 : s = 1 \/ s = 2 \/ s = 3 \/ s = 4
    OBVIOUS
  <2>3. 1 \in 1..4 /\ 2 \in 1..4 /\ 3 \in 1..4 /\ 4 \in 1..4
    OBVIOUS
  <2> QED
    BY <2>1, <2>2, <2>3, Zenon
<1> QED
  BY <1>1, <1>2, <1>3, <1>4 DEF IsSeeding

LEMMA SeedingOf16 == IsSeeding(Pairings16, 8)
<1>1. Pairings16 \in Seq(Nat \X Nat) /\ Len(Pairings16) = 8
  BY DEF Pairings16
<1>2. \A i \in 1..8 : Pairings16[i][1] =
        CASE i = 1 -> 1 [] i = 2 -> 8 [] i = 3 -> 4 [] i = 4 -> 5
          [] i = 5 -> 2 [] i = 6 -> 7 [] i = 7 -> 3 [] i = 8 -> 6
  BY DEF Pairings16
<1>3. \A i \in 1..8 : Pairings16[i][2] \in Nat /\ Pairings16[i][1] + Pairings16[i][2] = 2 * 8 + 1
  BY DEF Pairings16
<1>4. \A s \in 1..8 : \E i \in 1..8 : Pairings16[i][1] = s
  <2>1. /\ Pairings16[1][1] = 1 /\ Pairings16[2][1] = 8
        /\ Pairings16[3][1] = 4 /\ Pairings16[4][1] = 5
        /\ Pairings16[5][1] = 2 /\ Pairings16[6][1] = 7
        /\ Pairings16[7][1] = 3 /\ Pairings16[8][1] = 6
    BY DEF Pairings16
  <2>2. \A s \in 1..8 : s \in {1, 2, 3, 4, 5, 6, 7, 8}
    OBVIOUS
  <2>3. \A i \in {1, 2, 3, 4, 5, 6, 7, 8} : i \in 1..8
    OBVIOUS
  <2> QED
    BY <2>1, <2>2, <2>3, Zenon
<1>5. \A i \in 1..8 : Pairings16[i][1] \in 1..8
  BY <1>2
<1>6. \A i, j \in 1..8 : Pairings16[i][1] = Pairings16[j][1] => i = j
  BY <1>2
<1> QED
  BY <1>1, <1>3, <1>4, <1>5, <1>6 DEF IsSeeding

\* Doubling pairs the first seeds of a seeding, its better half, with the new
\* ones, and then the second seeds.
LEMMA DoubledIsSeeding ==
    ASSUME NEW k \in Nat, NEW top, IsSeeding(top, k)
    PROVE  IsSeeding(Doubled(top, 4 * k), 2 * k)
<1> DEFINE against(side) == [i \in DOMAIN top |-> <<top[i][side], 4 * k + 1 - top[i][side]>>]
           d == Doubled(top, 4 * k)
<1>1. DOMAIN top = 1..k /\ top \in Seq(Nat \X Nat) /\ Len(top) = k
  BY DEF IsSeeding
<1>2. \A i \in 1..k :
         /\ top[i][1] \in 1..k /\ top[i][2] \in Nat /\ top[i][2] = 2 * k + 1 - top[i][1]
         /\ 4 * k + 1 - top[i][1] \in Nat /\ 4 * k + 1 - top[i][2] \in Nat
  <2>1. \A i \in 1..k : /\ top[i][1] \in 1..k /\ top[i][2] \in Nat
                        /\ top[i][1] + top[i][2] = 2 * k + 1
    BY DEF IsSeeding
  <2>2. \A x \in 1..k, y \in Nat : x + y = 2 * k + 1 =>
           y = 2 * k + 1 - x /\ 4 * k + 1 - x \in Nat /\ 4 * k + 1 - y \in Nat
    OBVIOUS
  <2> QED
    BY <2>1, <2>2
<1>3. ASSUME NEW side \in {1, 2}
      PROVE  /\ against(side) \in Seq(Nat \X Nat) /\ Len(against(side)) = k
             /\ \A i \in 1..k :
                   against(side)[i] = <<top[i][side], 4 * k + 1 - top[i][side]>>
  <2>1. \A i \in 1..k : <<top[i][side], 4 * k + 1 - top[i][side]>> \in Nat \X Nat
    BY <1>2
  <2>2. DOMAIN top = 1..k
    BY <1>1
  <2>3. against(side) \in Seq(Nat \X Nat) /\ Len(against(side)) = k
    BY <2>1, <2>2
  <2>4. \A i \in 1..k : against(side)[i] = <<top[i][side], 4 * k + 1 - top[i][side]>>
    BY <1>1
  <2> HIDE DEF against
  <2> QED
    BY <2>3, <2>4
<1>4. d = against(1) \o against(2)
  BY DEF Doubled
<1> HIDE DEF against, d
<1>5. /\ d \in Seq(Nat \X Nat) /\ Len(d) = 2 * k
      /\ \A i \in 1..(2 * k) : /\ i <= k => d[i] = against(1)[i]
                               /\ ~(i <= k) => d[i] = against(2)[i - k]
  <2>1. 1 \in {1, 2} /\ 2 \in {1, 2}
    OBVIOUS
  <2> DEFINE Pairs == Nat \X Nat
  <2>2. /\ against(1) \in Seq(Pairs) /\ Len(against(1)) = k
        /\ against(2) \in Seq(Pairs) /\ Len(against(2)) = k
    BY <1>3, <2>1
  <2> HIDE DEF Pairs
  <2>3. /\ d \in Seq(Pairs) /\ Len(d) = 2 * k
        /\ \A i \in 1..(2 * k) : /\ i <= k => d[i] = against(1)[i]
                                 /\ ~(i <= k) => d[i] = against(2)[i - k]
    <3> DEFINE s == against(1)
               u == against(2)
    <3>1. s \in Seq(Pairs) /\ u \in Seq(Pairs) /\ Len(s) = k /\ Len(u) = k /\ d = s \o u
      BY <1>4, <2>2
    <3> HIDE DEF s, u
    <3>2. /\ s \o u \in Seq(Pairs) /\ Len(s \o u) = 2 * k
          /\ \A i \in 1..(2 * k) : /\ i <= k => (s \o u)[i] = s[i]
                                   /\ ~(i <= k) => (s \o u)[i] = u[i - k]
      <4>1. s \in Seq(Pairs) /\ u \in Seq(Pairs) /\ Len(s) = k /\ Len(u) = k
        BY <3>1
      <4>2. k + k = 2 * k
        OBVIOUS
      <4>3. s \o u \in Seq(Pairs) /\ Len(s \o u) = k + k
        BY <4>1
      <4>4. \A i \in 1..(k + k) : /\ i <= k => (s \o u)[i] = s[i]
                                  /\ ~(i <= k) => (s \o u)[i] = u[i - k]
        BY <4>1
      <4> QED
        BY <4>2, <4>3, <4>4
    <3> QED
      BY <3>1, <3>2 DEF s, u
  <2> QED
    BY <2>3 DEF Pairs
<1>12. \A i \in 1..k : /\ against(1)[i] = <<top[i][1], 4 * k + 1 - top[i][1]>>
                       /\ against(2)[i] = <<top[i][2], 4 * k + 1 - top[i][2]>>
  <2>1. 1 \in {1, 2} /\ 2 \in {1, 2}
    OBVIOUS
  <2> QED
    BY <1>3, <2>1
<1>6. ASSUME NEW i \in 1..(2 * k)
      PROVE  /\ i <= k => d[i][1] = top[i][1]
             /\ ~(i <= k) => i - k \in 1..k /\ d[i][1] = 2 * k + 1 - top[i - k][1]
             /\ d[i][2] \in Nat /\ d[i][1] + d[i][2] = 4 * k + 1
  <2>1. CASE i <= k
    <3>1. i \in 1..k
      BY <2>1
    <3>2. d[i] = <<top[i][1], 4 * k + 1 - top[i][1]>>
      <4>1. d[i] = against(1)[i]
        BY <1>5, <2>1
      <4>2. against(1)[i] = <<top[i][1], 4 * k + 1 - top[i][1]>>
        BY <1>12, <3>1
      <4> QED
        BY <4>1, <4>2
    <3>3. top[i][1] \in 1..k
      BY <1>2, <3>1
    <3> QED
      BY <2>1, <3>2, <3>3
  <2>2. CASE ~(i <= k)
    <3>1. i - k \in 1..k
      BY <2>2
    <3>2. d[i] = <<top[i - k][2], 4 * k + 1 - top[i - k][2]>>
      <4>1. d[i] = against(2)[i - k]
        BY <1>5, <2>2
      <4>2. against(2)[i - k] = <<top[i - k][2], 4 * k + 1 - top[i - k][2]>>
        BY <1>12, <3>1
      <4> QED
        BY <4>1, <4>2
    <3>3. top[i - k][1] \in 1..k /\ top[i - k][2] = 2 * k + 1 - top[i - k][1]
      BY <1>2, <3>1
    <3> QED
      BY <2>2, <3>1, <3>2, <3>3
  <2> QED
    BY <2>1, <2>2
<1>7. ASSUME NEW i \in 1..(2 * k) PROVE d[i][1] \in 1..(2 * k)
  <2>1. CASE i <= k
    <3>1. i \in 1..k
      BY <2>1
    <3> QED
      BY <1>2, <1>6, <2>1, <3>1
  <2>2. CASE ~(i <= k)
    BY <1>2, <1>6, <2>2
  <2> QED
    BY <2>1, <2>2
<1>8. ASSUME NEW i \in 1..(2 * k), NEW j \in 1..(2 * k), d[i][1] = d[j][1] PROVE i = j
  <2>1. \A x, y \in 1..k : top[x][1] = top[y][1] => x = y
    BY DEF IsSeeding
  <2>2. CASE i <= k /\ j <= k
    <3>1. i \in 1..k /\ j \in 1..k
      BY <2>2
    <3> QED
      BY <1>6, <1>8, <2>1, <2>2, <3>1
  <2>3. CASE ~(i <= k) /\ ~(j <= k)
    <3>1. /\ i - k \in 1..k /\ d[i][1] = 2 * k + 1 - top[i - k][1]
          /\ j - k \in 1..k /\ d[j][1] = 2 * k + 1 - top[j - k][1]
      BY <1>6, <2>3
    <3>2. top[i - k][1] \in 1..k /\ top[j - k][1] \in 1..k
      BY <1>2, <3>1
    <3>3. top[i - k][1] = top[j - k][1]
      <4>1. \A x, y \in 1..k : 2 * k + 1 - x = 2 * k + 1 - y => x = y
        OBVIOUS
      <4> QED
        BY <1>8, <3>1, <3>2, <4>1
    <3>4. i - k = j - k
      BY <2>1, <3>1, <3>3
    <3> QED
      BY <3>4
  <2>4. CASE i <= k /\ ~(j <= k)
    <3>1. i \in 1..k /\ j - k \in 1..k
      BY <1>6, <2>4
    <3>2. top[i][1] \in 1..k /\ top[j - k][1] \in 1..k
      BY <1>2, <3>1
    <3>3. d[i][1] = top[i][1] /\ d[j][1] = 2 * k + 1 - top[j - k][1]
      BY <1>6, <2>4
    <3>4. \A x, y \in 1..k : x # 2 * k + 1 - y
      OBVIOUS
    <3> QED
      BY <1>8, <3>2, <3>3, <3>4
  <2>5. CASE ~(i <= k) /\ j <= k
    <3>1. j \in 1..k /\ i - k \in 1..k
      BY <1>6, <2>5
    <3>2. top[j][1] \in 1..k /\ top[i - k][1] \in 1..k
      BY <1>2, <3>1
    <3>3. d[j][1] = top[j][1] /\ d[i][1] = 2 * k + 1 - top[i - k][1]
      BY <1>6, <2>5
    <3>4. \A x, y \in 1..k : x # 2 * k + 1 - y
      OBVIOUS
    <3> QED
      BY <1>8, <3>2, <3>3, <3>4
  <2> QED
    BY <2>2, <2>3, <2>4, <2>5
<1>9. ASSUME NEW s \in 1..(2 * k) PROVE \E i \in 1..(2 * k) : d[i][1] = s
  <2>1. \A x \in 1..k : \E y \in 1..k : top[y][1] = x
    BY DEF IsSeeding
  <2>2. CASE s <= k
    <3>1. PICK y \in 1..k : top[y][1] = s
      BY <2>1, <2>2
    <3>2. y \in 1..(2 * k) /\ y <= k
      OBVIOUS
    <3> QED
      BY <1>6, <3>1, <3>2
  <2>3. CASE ~(s <= k)
    <3>1. 2 * k + 1 - s \in 1..k
      BY <2>3
    <3>2. PICK y \in 1..k : top[y][1] = 2 * k + 1 - s
      BY <2>1, <3>1
    <3>3. y + k \in 1..(2 * k) /\ ~(y + k <= k) /\ (y + k) - k = y
      OBVIOUS
    <3>4. d[y + k][1] = 2 * k + 1 - top[y][1]
      BY <1>6, <3>3
    <3>5. d[y + k][1] = s
      BY <3>2, <3>4
    <3> QED
      BY <3>3, <3>5
  <2> QED
    BY <2>2, <2>3
<1>10. 4 * k = 2 * (2 * k)
  OBVIOUS
<1>11. \A i \in 1..(2 * k) : d[i][2] \in Nat /\ d[i][1] + d[i][2] = 2 * (2 * k) + 1
  BY <1>6, <1>10
<1> QED
  BY <1>5, <1>7, <1>8, <1>9, <1>11 DEF IsSeeding, d

LEMMA PairingsAreSeeding ==
    ASSUME NEW n \in BracketSizes
    PROVE  IsSeeding(Pairings(n), n \div 2)
<1>1. CASE n = 8
  BY <1>1, SeedingOf8 DEF Pairings
<1>2. CASE n = 16
  BY <1>2, SeedingOf16 DEF Pairings
<1>3. IsSeeding(Doubled(Pairings16, 32), 16)
  BY SeedingOf16, DoubledIsSeeding
<1>4. IsSeeding(Doubled(Doubled(Pairings16, 32), 64), 32)
  BY <1>3, DoubledIsSeeding
<1>5. CASE n = 32
  BY <1>3, <1>5 DEF Pairings
<1>6. CASE n = 64
  BY <1>4, <1>6 DEF Pairings
<1> QED
  BY <1>1, <1>2, <1>5, <1>6 DEF BracketSizes

-----------------------------------------------------------------------------
(* A new bracket *)

\* The better and the worse seed of the opening match at position p.
Better(n, p) == Pairings(n)[p + 1][1]
Worse(n, p) == Pairings(n)[p + 1][2]

LEMMA OpeningSeeds ==
    ASSUME NEW n \in BracketSizes
    PROVE  /\ n \in Nat /\ n \div 2 \in Nat /\ 2 * (n \div 2) = n
           /\ MatchesInRound(n, 1) = n \div 2
           /\ \A p \in Nat : p < n \div 2 =>
                 /\ Better(n, p) \in 1..(n \div 2) /\ Worse(n, p) \in 1..n
                 /\ Worse(n, p) = n + 1 - Better(n, p)
           /\ \A p, q \in Nat : p < n \div 2 /\ q < n \div 2 /\ Better(n, p) = Better(n, q) => p = q
           /\ \A s \in 1..(n \div 2) : \E p \in Nat : p < n \div 2 /\ Better(n, p) = s
<1>1. n \in Nat /\ n \div 2 \in Nat /\ 2 * (n \div 2) = n
  BY DEF BracketSizes
<1>2. MatchesInRound(n, 1) = n \div 2
  BY RoundSizes
<1> DEFINE k == n \div 2
<1>3. IsSeeding(Pairings(n), k)
  BY PairingsAreSeeding
<1>4. k \in Nat /\ 2 * k = n
  BY <1>1
<1> HIDE DEF k
<1>5. \A p \in Nat : p < k => p + 1 \in 1..k
  BY <1>4
<1>6. ASSUME NEW p \in Nat, p < k
      PROVE  Better(n, p) \in 1..k /\ Worse(n, p) \in 1..n /\ Worse(n, p) = n + 1 - Better(n, p)
  <2>1. p + 1 \in 1..k
    BY <1>5, <1>6
  <2>2. /\ Better(n, p) \in 1..k /\ Worse(n, p) \in Nat
        /\ Better(n, p) + Worse(n, p) = 2 * k + 1
    BY <1>3, <2>1 DEF IsSeeding, Better, Worse
  <2> QED
    BY <1>4, <2>2
<1>7. ASSUME NEW p \in Nat, NEW q \in Nat, p < k, q < k, Better(n, p) = Better(n, q) PROVE p = q
  <2>1. p + 1 \in 1..k /\ q + 1 \in 1..k
    BY <1>5, <1>7
  <2>2. p + 1 = q + 1
    BY <1>3, <1>7, <2>1 DEF IsSeeding, Better
  <2> QED
    BY <2>2
<1>8. ASSUME NEW s \in 1..k PROVE \E p \in Nat : p < k /\ Better(n, p) = s
  <2>1. PICK i \in 1..k : Pairings(n)[i][1] = s
    BY <1>3 DEF IsSeeding
  <2>2. i - 1 \in Nat /\ i - 1 < k /\ (i - 1) + 1 = i
    BY <1>4
  <2> QED
    BY <2>1, <2>2 DEF Better
<1> QED
  BY <1>1, <1>2, <1>6, <1>7, <1>8 DEF k

\* Films that half-fill a bracket of n, none of them twice.
Fits(n, F, seeded) ==
    /\ seeded \in Seq(F)
    /\ Len(seeded) <= n /\ n <= 2 * Len(seeded)
    /\ \A i, j \in DOMAIN seeded : seeded[i] = seeded[j] => i = j

\* The rows of the tournament_matches table, for the films of F.
MatchOf(F) ==
    [a : F \cup {NoFilm}, b : F \cup {NoFilm}, winner : F \cup {NoFilm}, bye : BOOLEAN]

\* A film, or the mark for none.
Entry(F) == F \cup {NoFilm}

LEMMA IsMatchOf ==
    ASSUME NEW F, NEW x \in Entry(F), NEW y \in Entry(F), NEW z \in Entry(F), NEW bye \in BOOLEAN
    PROVE  [a |-> x, b |-> y, winner |-> z, bye |-> bye] \in MatchOf(F)
    BY DEF MatchOf, Entry

\* In an opening match the better seed plays the worse one, or has a bye when
\* there is none.
LEMMA Opening ==
    ASSUME NEW n \in BracketSizes, NEW F, NoFilm \notin F,
           NEW seeded, Fits(n, F, seeded), NEW p \in Nat, p < n \div 2
    PROVE  LET match == FirstRound(n, seeded, p)
               worse == Worse(n, p) <= Len(seeded) IN
           /\ match \in MatchOf(F)
           /\ Better(n, p) \in 1..Len(seeded)
           /\ match.a = seeded[Better(n, p)] /\ match.a \in F
           /\ worse => match.b = seeded[Worse(n, p)] /\ match.b \in F /\ match.winner = NoFilm
           /\ ~worse => match.b = NoFilm /\ match.winner = match.a
           /\ match.bye <=> ~worse
<1> DEFINE one == Better(n, p)
           two == Worse(n, p)
<1>1. one \in 1..(n \div 2) /\ two \in 1..n /\ n \in Nat /\ 2 * (n \div 2) = n
  BY OpeningSeeds
<1>2. /\ seeded \in Seq(F) /\ Len(seeded) \in Nat
      /\ Len(seeded) <= n /\ n <= 2 * Len(seeded)
  BY DEF Fits
<1>3. FirstRound(n, seeded, p) = OpeningMatch(seeded, one, two)
  BY DEF FirstRound, Better, Worse
<1> HIDE DEF one, two
<1>4. one \in 1..Len(seeded)
  <2>1. n \div 2 \in Int /\ one \in Int
    BY <1>1
  <2> HIDE DEF one
  <2> QED
    BY <1>1, <1>2, <2>1
<1>5. /\ seeded[one] \in F /\ seeded[one] # NoFilm
      /\ two <= Len(seeded) => seeded[two] \in F /\ seeded[two] # NoFilm
  BY <1>1, <1>2, <1>4
<1> DEFINE match == FirstRound(n, seeded, p)
<1>6. ASSUME two <= Len(seeded)
      PROVE  match = [a |-> seeded[one], b |-> seeded[two], winner |-> NoFilm, bye |-> FALSE]
  <2>1. match = [EmptyMatch EXCEPT !.a = seeded[one], !.b = seeded[two]]
    BY <1>1, <1>2, <1>3, <1>4, <1>6 DEF OpeningMatch
  <2> QED
    BY <2>1 DEF EmptyMatch
<1>7. ASSUME ~(two <= Len(seeded))
      PROVE  match = [a |-> seeded[one], b |-> NoFilm, winner |-> seeded[one], bye |-> TRUE]
  BY <1>1, <1>2, <1>3, <1>4, <1>7 DEF OpeningMatch
<1> HIDE DEF match
<1>8. CASE two <= Len(seeded)
  <2>1. match \in MatchOf(F)
    BY <1>5, <1>6, <1>8, IsMatchOf DEF Entry
  <2> QED
    BY <1>4, <1>5, <1>6, <1>8, <2>1 DEF match, one, two
<1>9. CASE ~(two <= Len(seeded))
  <2>1. match \in MatchOf(F)
    BY <1>5, <1>7, <1>9, IsMatchOf DEF Entry
  <2> QED
    BY <1>4, <1>5, <1>7, <1>9, <2>1 DEF match, one, two
<1> QED
  BY <1>8, <1>9

\* No film is in two opening matches, or plays itself in one.
LEMMA OpeningsDiffer ==
    ASSUME NEW n \in BracketSizes, NEW F, NoFilm \notin F,
           NEW seeded, Fits(n, F, seeded),
           NEW p \in Nat, p < n \div 2, NEW q \in Nat, q < n \div 2
    PROVE  LET m == FirstRound(n, seeded, p)
               k == FirstRound(n, seeded, q) IN
           /\ m.a # m.b
           /\ \A f \in F : f \in {m.a, m.b} /\ f \in {k.a, k.b} => p = q
<1> DEFINE m == FirstRound(n, seeded, p)
           k == FirstRound(n, seeded, q)
<1>1. /\ n \in Nat /\ n \div 2 \in Nat /\ 2 * (n \div 2) = n
      /\ Better(n, p) \in 1..(n \div 2) /\ Worse(n, p) = n + 1 - Better(n, p)
      /\ Better(n, q) \in 1..(n \div 2) /\ Worse(n, q) = n + 1 - Better(n, q)
      /\ Better(n, p) = Better(n, q) => p = q
  BY OpeningSeeds
<1>2. \A i, j \in 1..Len(seeded) : seeded[i] = seeded[j] => i = j
  BY DEF Fits
<1>3. Len(seeded) \in Nat
  BY DEF Fits
<1>4. /\ Better(n, p) \in 1..Len(seeded) /\ m.a = seeded[Better(n, p)] /\ m.a # NoFilm
      /\ m.b = NoFilm \/ (Worse(n, p) <= Len(seeded) /\ m.b = seeded[Worse(n, p)])
  BY Opening
<1>5. /\ Better(n, q) \in 1..Len(seeded) /\ k.a = seeded[Better(n, q)]
      /\ k.b = NoFilm \/ (Worse(n, q) <= Len(seeded) /\ k.b = seeded[Worse(n, q)])
  BY Opening
<1> HIDE DEF m, k
<1>6. /\ Worse(n, p) <= Len(seeded) => Worse(n, p) \in 1..Len(seeded)
      /\ Worse(n, q) <= Len(seeded) => Worse(n, q) \in 1..Len(seeded)
      /\ Worse(n, p) # Better(n, p) /\ Worse(n, p) # Better(n, q) /\ Worse(n, q) # Better(n, p)
      /\ Worse(n, p) = Worse(n, q) => Better(n, p) = Better(n, q)
  BY <1>1, <1>3
<1>7. m.a # m.b
  BY <1>2, <1>4, <1>6
<1>8. ASSUME NEW f \in F, f \in {m.a, m.b}, f \in {k.a, k.b} PROVE p = q
  <2>1. f # NoFilm
    OBVIOUS
  <2>2. PICK s \in 1..Len(seeded) : f = seeded[s] /\ s \in {Better(n, p), Worse(n, p)}
    BY <1>4, <1>6, <1>8, <2>1
  <2>3. PICK t \in 1..Len(seeded) : f = seeded[t] /\ t \in {Better(n, q), Worse(n, q)}
    BY <1>5, <1>6, <1>8, <2>1
  <2>4. s = t
    BY <1>2, <2>2, <2>3
  <2> QED
    BY <1>1, <1>6, <2>2, <2>3, <2>4
<1> QED
  BY <1>7, <1>8 DEF m, k

\* In round r no film is in two matches, or plays itself.
OnceInRound(n, b, r) ==
    \A m, k \in Places(n) : m[1] = r /\ k[1] = r =>
        /\ b[m].a = b[m].b => b[m].a = NoFilm
        /\ \A f : f # NoFilm /\ f \in {b[m].a, b[m].b} /\ f \in {b[k].a, b[k].b} => m = k

\* What every bracket keeps: a later match holds the winners of the two before
\* it, an opening match can be played or has a winner, a match is won by one
\* of its two films only, a bye has a winner, and no film opens twice.
BracketInv(n, b) ==
    /\ \A m \in Places(n) :
          /\ m[1] > 1 => /\ b[m].a = b[Left(m)].winner
                         /\ b[m].b = b[Right(m)].winner
                         /\ b[m].winner # NoFilm =>
                               b[m].a # NoFilm /\ b[m].b # NoFilm
          /\ m[1] = 1 => \/ b[m].winner # NoFilm
                         \/ b[m].a # NoFilm /\ b[m].b # NoFilm
          /\ b[m].winner # NoFilm => b[m].winner \in {b[m].a, b[m].b}
          /\ b[m].bye => b[m].winner # NoFilm
    /\ OnceInRound(n, b, 1)

LEMMA NewBracketSound ==
    ASSUME NEW n \in BracketSizes, NEW F, NoFilm \notin F,
           NEW seeded, Fits(n, F, seeded)
    PROVE  LET b == NewBracket(n, seeded) IN
           /\ b \in [Places(n) -> MatchOf(F)]
           /\ BracketInv(n, b)
           /\ \A m \in Places(n) : /\ m[1] = 1 => b[m] = FirstRound(n, seeded, m[2])
                                   /\ m[1] > 1 => ~b[m].bye
           /\ \A m \in Places(n) : ~Played(b[m])
           /\ b[Final(n)].winner = NoFilm
<1> DEFINE b == NewBracket(n, seeded)
<1>0. ASSUME NEW m \in Places(n)
      PROVE  /\ m[1] = 1 => b[m] = FirstRound(n, seeded, m[2])
             /\ m[1] = 2 => b[m] = [EmptyMatch EXCEPT
                                      !.a = FirstRound(n, seeded, Left(m)[2]).winner,
                                      !.b = FirstRound(n, seeded, Right(m)[2]).winner]
             /\ m[1] > 2 => b[m] = EmptyMatch
  <2>1. m[1] \in Nat
    BY MatchParts, RoundSizes
  <2> QED
    BY <2>1 DEF NewBracket, Places, Left, Right
<1>4. b = [m \in Places(n) |-> b[m]]
  BY DEF NewBracket, Places
<1> HIDE DEF b
<1>1. ASSUME NEW m \in Places(n), m[1] = 1
      PROVE  /\ b[m] \in MatchOf(F)
             /\ b[m].bye <=> b[m].winner # NoFilm
             /\ b[m].winner # NoFilm => b[m].winner = b[m].a
             /\ ~b[m].bye => b[m].a # NoFilm /\ b[m].b # NoFilm
  <2>1. m[2] \in Nat /\ m[2] < n \div 2
    BY <1>1, MatchParts, OpeningSeeds
  <2>2. b[m] = FirstRound(n, seeded, m[2])
    BY <1>0, <1>1
  <2> QED
    BY <2>1, <2>2, Opening
<1>2. ASSUME NEW m \in Places(n), m[1] > 1
      PROVE  /\ b[m] \in MatchOf(F)
             /\ b[m].winner = NoFilm /\ ~b[m].bye
             /\ b[m].a = b[Left(m)].winner /\ b[m].b = b[Right(m)].winner
  <2>1. CASE m[1] = 2
    <3>1. /\ Left(m) \in Places(n) /\ Left(m)[1] = 1
          /\ Right(m) \in Places(n) /\ Right(m)[1] = 1
      BY <1>2, <2>1, Feeders
    <3>2. /\ b[Left(m)] = FirstRound(n, seeded, Left(m)[2])
          /\ b[Right(m)] = FirstRound(n, seeded, Right(m)[2])
      BY <1>0, <3>1
    <3>3. b[Left(m)].winner \in Entry(F) /\ b[Right(m)].winner \in Entry(F)
      BY <1>1, <3>1 DEF MatchOf, Entry
    <3>4. b[m] = [EmptyMatch EXCEPT !.a = b[Left(m)].winner, !.b = b[Right(m)].winner]
      BY <1>0, <2>1, <3>2
    <3> QED
      BY <3>3, <3>4 DEF EmptyMatch, MatchOf, Entry
  <2>2. CASE m[1] > 2
    <3>1. /\ Left(m) \in Places(n) /\ Left(m)[1] > 1
          /\ Right(m) \in Places(n) /\ Right(m)[1] > 1
      BY <1>2, <2>2, Feeders, MatchParts, RoundSizes
    <3>2. ASSUME NEW k \in Places(n), k[1] > 1 PROVE b[k].winner = NoFilm
      <4>1. k[1] = 2 \/ k[1] > 2
        BY <3>2, MatchParts, RoundSizes
      <4>2. \A x, y : [EmptyMatch EXCEPT !.a = x, !.b = y].winner = NoFilm
        BY DEF EmptyMatch
      <4>3. EmptyMatch.winner = NoFilm
        BY DEF EmptyMatch
      <4>4. CASE k[1] = 2
        <5>1. b[k] = [EmptyMatch EXCEPT
                         !.a = FirstRound(n, seeded, Left(k)[2]).winner,
                         !.b = FirstRound(n, seeded, Right(k)[2]).winner]
          BY <1>0, <4>4
        <5> QED
          BY <4>2, <5>1
      <4>5. CASE k[1] > 2
        BY <1>0, <4>3, <4>5, Zenon
      <4> QED
        BY <4>1, <4>4, <4>5
    <3>3. b[m] = EmptyMatch
      BY <1>0, <2>2
    <3> QED
      BY <3>1, <3>2, <3>3 DEF EmptyMatch, MatchOf
  <2> QED
    BY <1>2, <2>1, <2>2, MatchParts, RoundSizes
<1>3. \A m \in Places(n) : m[1] = 1 \/ m[1] > 1
  BY MatchParts, RoundSizes
<1>5. b \in [Places(n) -> MatchOf(F)]
  BY <1>1, <1>2, <1>3, <1>4
<1>9. OnceInRound(n, b, 1)
  <2> SUFFICES ASSUME NEW m \in Places(n), NEW k \in Places(n), m[1] = 1, k[1] = 1
               PROVE  /\ b[m].a = b[m].b => b[m].a = NoFilm
                      /\ \A f : f # NoFilm /\ f \in {b[m].a, b[m].b} /\ f \in {b[k].a, b[k].b}
                            => m = k
    BY DEF OnceInRound
  <2>1. /\ m[2] \in Nat /\ m[2] < n \div 2 /\ m = <<m[1], m[2]>>
        /\ k[2] \in Nat /\ k[2] < n \div 2 /\ k = <<k[1], k[2]>>
    BY MatchParts, OpeningSeeds
  <2>2. b[m] = FirstRound(n, seeded, m[2]) /\ b[k] = FirstRound(n, seeded, k[2])
    BY <1>0
  <2>3. /\ b[m].a # b[m].b
        /\ \A f \in F : f \in {b[m].a, b[m].b} /\ f \in {b[k].a, b[k].b} => m[2] = k[2]
    BY <2>1, <2>2, OpeningsDiffer
  <2>4. b[m].a \in Entry(F) /\ b[m].b \in Entry(F)
    BY <1>1 DEF MatchOf, Entry
  <2> QED
    BY <2>1, <2>3, <2>4 DEF Entry
<1>6. BracketInv(n, b)
  BY <1>1, <1>2, <1>3, <1>9 DEF BracketInv
<1>7. \A m \in Places(n) : ~Played(b[m])
  BY <1>1, <1>2, <1>3 DEF Played
<1>8. b[Final(n)].winner = NoFilm
  BY <1>2, FinalIsMatch, RoundSizes
<1>10. \A m \in Places(n) : /\ m[1] = 1 => b[m] = FirstRound(n, seeded, m[2])
                            /\ m[1] > 1 => ~b[m].bye
  BY <1>0, <1>2
<1> QED
  BY <1>5, <1>6, <1>7, <1>8, <1>10 DEF b

\* A new bracket has every film of the lineup in exactly one opening match
\* (create_tournament_bracket), for each size and any lineup that half-fills it.
THEOREM EveryFilmOpensOnce ==
    ASSUME NEW n \in BracketSizes, NEW F, NoFilm \notin F,
           NEW seeded, Fits(n, F, seeded), NEW s \in 1..Len(seeded)
    PROVE  LET b == NewBracket(n, seeded) IN
           \E m \in Places(n) :
               /\ m[1] = 1 /\ seeded[s] \in {b[m].a, b[m].b}
               /\ \A k \in Places(n) :
                     k[1] = 1 /\ seeded[s] \in {b[k].a, b[k].b} => k = m
<1> DEFINE b == NewBracket(n, seeded)
<1>1. /\ BracketInv(n, b)
      /\ \A m \in Places(n) : m[1] = 1 => b[m] = FirstRound(n, seeded, m[2])
  BY NewBracketSound
<1> HIDE DEF b
<1>2. /\ n \in Nat /\ n \div 2 \in Nat /\ 2 * (n \div 2) = n
      /\ MatchesInRound(n, 1) = n \div 2
      /\ \A p \in Nat : p < n \div 2 => Worse(n, p) = n + 1 - Better(n, p)
      /\ \A x \in 1..(n \div 2) : \E p \in Nat : p < n \div 2 /\ Better(n, p) = x
  BY OpeningSeeds
<1>3. Len(seeded) \in Nat /\ Len(seeded) <= n /\ seeded[s] \in F /\ seeded[s] # NoFilm
  BY DEF Fits
<1>4. PICK p \in Nat : p < n \div 2 /\ s \in {Better(n, p), Worse(n, p)}
  <2>1. CASE s <= n \div 2
    BY <1>2, <2>1
  <2>2. CASE ~(s <= n \div 2)
    <3>1. n + 1 - s \in 1..(n \div 2)
      BY <1>2, <1>3, <2>2
    <3>2. PICK p \in Nat : p < n \div 2 /\ Better(n, p) = n + 1 - s
      BY <1>2, <3>1
    <3>3. Worse(n, p) = s
      BY <1>2, <3>2
    <3> QED
      BY <3>2, <3>3
  <2> QED
    BY <2>1, <2>2
<1>5. seeded[s] \in {FirstRound(n, seeded, p).a, FirstRound(n, seeded, p).b}
  <2>1. s <= Len(seeded)
    BY <1>3
  <2> QED
    BY <1>4, <2>1, Opening
<1>6. <<1, p>> \in Places(n) /\ <<1, p>>[1] = 1 /\ <<1, p>>[2] = p
  BY <1>2, <1>4, PlaceIsMatch, RoundSizes
<1>7. seeded[s] \in {b[<<1, p>>].a, b[<<1, p>>].b}
  BY <1>1, <1>5, <1>6
<1>8. \A k \in Places(n) : k[1] = 1 /\ seeded[s] \in {b[k].a, b[k].b} => k = <<1, p>>
  BY <1>1, <1>3, <1>6, <1>7 DEF BracketInv, OnceInRound
<1> QED
  BY <1>6, <1>7, <1>8 DEF b

-----------------------------------------------------------------------------
(* A match is won *)

LEMMA Decided ==
    ASSUME NEW n \in BracketSizes, NEW F, NoFilm \notin F,
           NEW b \in [Places(n) -> MatchOf(F)], BracketInv(n, b),
           NEW m \in Places(n), Playable(b[m]),
           NEW w \in F, w \in {b[m].a, b[m].b}
    PROVE  LET d == Decide(n, b, m, w) IN
           /\ d \in [Places(n) -> MatchOf(F)]
           /\ d[m].winner = w /\ Played(d[m]) /\ ~Played(b[m])
           /\ \A k \in Places(n) : k # m => d[k].winner = b[k].winner
           /\ \A k \in Places(n) : k # m => (Played(d[k]) <=> Played(b[k]))
           /\ \A k \in Places(n) : Played(b[k]) => d[k] = b[k]
           /\ \A k \in Places(n) : d[k].bye = b[k].bye
           /\ BracketInv(n, d)
<1> DEFINE d == Decide(n, b, m, w)
           inner == m[1] < Rounds(n)
           next == NextPlace(m)
<1>1. w # NoFilm /\ b[m].winner = NoFilm /\ ~b[m].bye
  BY DEF Playable, BracketInv
<1>2. /\ d[m] = [b[m] EXCEPT !.winner = w]
      /\ \A k \in Places(n) : k # m /\ ~(inner /\ k = next) => d[k] = b[k]
  BY DEF Decide, Places
<1>3. ASSUME inner
      PROVE  /\ next \in Places(n) /\ next # m /\ next[1] > 1
             /\ m[2] % 2 = 0 => d[next] = [b[next] EXCEPT !.a = w]
             /\ m[2] % 2 # 0 => d[next] = [b[next] EXCEPT !.b = w]
  <2>1. next \in Places(n) /\ next # m /\ next[1] > 1
    BY <1>3, Feeding
  <2>2. d[next] = Advance(b[next], w, m[2])
    BY <1>3, <2>1 DEF Decide, Places
  <2> QED
    BY <2>1, <2>2 DEF Advance
<1>4. ASSUME inner PROVE b[next].winner = NoFilm
  <2>1. m = Left(next) \/ m = Right(next)
    BY <1>4, Feeding
  <2> QED
    BY <1>1, <1>3, <1>4, <2>1 DEF BracketInv
<1>5. DOMAIN d = Places(n)
  BY DEF Decide, Places
<1>6. d = [k \in Places(n) |-> d[k]]
  BY DEF Decide, Places
<1> HIDE DEF d, inner, next
<1>7. \A k \in Places(n) : b[k] \in MatchOf(F)
  OBVIOUS
<1>8. ASSUME NEW k \in Places(n) PROVE d[k] \in MatchOf(F)
  <2>1. CASE k = m
    BY <1>2, <1>7, <2>1 DEF MatchOf
  <2>2. CASE inner /\ k = next
    BY <1>3, <1>7, <2>2 DEF MatchOf
  <2>3. CASE k # m /\ ~(inner /\ k = next)
    BY <1>2, <1>7, <2>3
  <2> QED
    BY <2>1, <2>2, <2>3
<1>9. d[m].winner = w /\ ~d[m].bye /\ d[m].a = b[m].a /\ d[m].b = b[m].b
  BY <1>1, <1>2, <1>7 DEF MatchOf
<1>10. ASSUME NEW k \in Places(n), k # m
       PROVE  d[k].winner = b[k].winner /\ d[k].bye = b[k].bye
  BY <1>2, <1>3, <1>7, <1>10 DEF MatchOf
<1>11. \A k \in Places(n) : Played(b[k]) => d[k] = b[k]
  BY <1>1, <1>2, <1>4 DEF Played
<1>12. ASSUME NEW k \in Places(n), k[1] > 1
       PROVE  d[k].a = d[Left(k)].winner /\ d[k].b = d[Right(k)].winner
  <2>1. /\ Left(k) \in Places(n) /\ Right(k) \in Places(n)
        /\ Left(k) # Right(k) /\ Left(k) # k /\ Right(k) # k
    BY <1>12, Feeders
  <2>2. b[k].a = b[Left(k)].winner /\ b[k].b = b[Right(k)].winner
    BY <1>12 DEF BracketInv
  <2>3. CASE inner /\ k = next
    <3>1. \/ m[2] % 2 = 0 /\ m = Left(k)
          \/ m[2] % 2 # 0 /\ m = Right(k)
      BY <2>3, Feeding DEF inner, next
    <3> QED
      BY <1>3, <1>7, <1>9, <1>10, <2>1, <2>2, <2>3, <3>1 DEF MatchOf
  <2>4. CASE ~(inner /\ k = next)
    <3>1. m # Left(k) /\ m # Right(k)
      BY <1>12, <2>4, FeedsOnly DEF inner, next
    <3>2. d[k].a = b[k].a /\ d[k].b = b[k].b
      BY <1>2, <1>9, <2>4
    <3> QED
      BY <1>10, <2>1, <2>2, <3>1, <3>2
  <2> QED
    BY <2>3, <2>4
<1>13. ASSUME NEW k \in Places(n)
       PROVE  b[k].a # NoFilm /\ b[k].b # NoFilm =>
                 d[k].a # NoFilm /\ d[k].b # NoFilm
  <2>1. CASE k = m
    BY <1>9, <2>1
  <2>2. CASE inner /\ k = next
    BY <1>1, <1>3, <1>7, <2>2 DEF MatchOf
  <2>3. CASE k # m /\ ~(inner /\ k = next)
    BY <1>2, <2>3
  <2> QED
    BY <2>1, <2>2, <2>3
<1>14. BracketInv(n, d)
  <2>1. ASSUME NEW k \in Places(n)
        PROVE  /\ k[1] > 1 => /\ d[k].a = d[Left(k)].winner
                              /\ d[k].b = d[Right(k)].winner
                              /\ d[k].winner # NoFilm =>
                                    d[k].a # NoFilm /\ d[k].b # NoFilm
               /\ k[1] = 1 => \/ d[k].winner # NoFilm
                              \/ d[k].a # NoFilm /\ d[k].b # NoFilm
               /\ d[k].bye => d[k].winner # NoFilm
    <3>1. CASE k = m
      BY <1>1, <1>9, <1>12, <3>1 DEF Playable
    <3>2. CASE k # m
      BY <1>10, <1>12, <1>13, <3>2 DEF BracketInv
    <3> QED
      BY <3>1, <3>2
  <2>2. ASSUME NEW k \in Places(n), d[k].winner # NoFilm
        PROVE  d[k].winner \in {d[k].a, d[k].b}
    <3>1. CASE k = m
      BY <1>9, <3>1
    <3>2. CASE k # m
      <4>1. d[k] = b[k]
        BY <1>2, <1>4, <1>10, <2>2, <3>2
      <4> QED
        BY <2>2, <4>1 DEF BracketInv
    <3> QED
      BY <3>1, <3>2
  <2>3. OnceInRound(n, d, 1)
    <3>1. \A k \in Places(n) : k[1] = 1 => d[k].a = b[k].a /\ d[k].b = b[k].b
      <4>1. ASSUME NEW k \in Places(n), k[1] = 1, k # m PROVE d[k] = b[k]
        BY <1>2, <1>3, <4>1
      <4> QED
        BY <1>9, <4>1
    <3>2. OnceInRound(n, b, 1)
      BY DEF BracketInv
    <3> QED
      BY <3>1, <3>2 DEF OnceInRound
  <2> QED
    BY <2>1, <2>2, <2>3 DEF BracketInv
<1>15. d \in [Places(n) -> MatchOf(F)]
  BY <1>6, <1>8
<1>16. \A k \in Places(n) : k # m => (Played(d[k]) <=> Played(b[k]))
  BY <1>10 DEF Played
<1>17. Played(d[m]) /\ ~Played(b[m])
  BY <1>1, <1>9 DEF Played
<1>18. \A k \in Places(n) : d[k].bye = b[k].bye
  <2>1. d[m].bye = b[m].bye
    BY <1>2, <1>7 DEF MatchOf
  <2> QED
    BY <1>10, <2>1
<1> QED
  BY <1>9, <1>10, <1>11, <1>14, <1>15, <1>16, <1>17, <1>18 DEF d

\* So no film is in two matches of a later round either: it came there by
\* winning one match of the round before.
LEMMA OnceInEveryRound ==
    ASSUME NEW n \in BracketSizes, NEW b, BracketInv(n, b)
    PROVE  \A r \in 1..Rounds(n) : OnceInRound(n, b, r)
<1>1. OnceInRound(n, b, 1)
  BY DEF BracketInv
<1>2. ASSUME NEW r \in 1..5, OnceInRound(n, b, r) PROVE OnceInRound(n, b, r + 1)
  <2>1. ASSUME NEW m \in Places(n), m[1] = r + 1, NEW f, f # NoFilm, f \in {b[m].a, b[m].b}
        PROVE  /\ f = b[m].a => f \in {b[Left(m)].a, b[Left(m)].b}
               /\ f = b[m].b => f \in {b[Right(m)].a, b[Right(m)].b}
    <3>1. m[1] > 1
      BY <2>1
    <3>2. Left(m) \in Places(n) /\ Right(m) \in Places(n)
      BY <3>1, Feeders
    <3> QED
      BY <2>1, <3>1, <3>2 DEF BracketInv
  <2>2. ASSUME NEW m \in Places(n), m[1] = r + 1
        PROVE  /\ Left(m) \in Places(n) /\ Left(m)[1] = r
               /\ Right(m) \in Places(n) /\ Right(m)[1] = r
               /\ Left(m) # Right(m)
               /\ NextPlace(Left(m)) = m /\ NextPlace(Right(m)) = m
    <3>1. m[1] > 1 /\ m[1] - 1 = r
      BY <2>2
    <3>2. /\ Left(m) \in Places(n) /\ Right(m) \in Places(n)
          /\ Left(m)[1] = r /\ Right(m)[1] = r /\ Left(m) # Right(m)
      BY <3>1, Feeders
    <3> QED
      BY <3>1, <3>2, FeedsOnly
  <2> SUFFICES ASSUME NEW m \in Places(n), NEW k \in Places(n), m[1] = r + 1, k[1] = r + 1
               PROVE  /\ b[m].a = b[m].b => b[m].a = NoFilm
                      /\ \A f : f # NoFilm /\ f \in {b[m].a, b[m].b} /\ f \in {b[k].a, b[k].b}
                            => m = k
    BY DEF OnceInRound
  <2>3. \A f : \A x, y \in Places(n) :
           x[1] = r /\ y[1] = r /\ f # NoFilm /\ f \in {b[x].a, b[x].b} /\ f \in {b[y].a, b[y].b}
              => x = y
    BY <1>2 DEF OnceInRound
  <2>4. ASSUME b[m].a = b[m].b, b[m].a # NoFilm PROVE FALSE
    <3>1. b[m].a \in {b[Left(m)].a, b[Left(m)].b} /\ b[m].a \in {b[Right(m)].a, b[Right(m)].b}
      BY <2>1, <2>4
    <3> QED
      BY <2>2, <2>3, <2>4, <3>1
  <2>5. ASSUME NEW f, f # NoFilm, f \in {b[m].a, b[m].b}, f \in {b[k].a, b[k].b} PROVE m = k
    <3>1. PICK x \in {Left(m), Right(m)} : f \in {b[x].a, b[x].b}
      BY <2>1, <2>5
    <3>2. PICK y \in {Left(k), Right(k)} : f \in {b[y].a, b[y].b}
      BY <2>1, <2>5
    <3>3. /\ x \in Places(n) /\ x[1] = r /\ NextPlace(x) = m
          /\ y \in Places(n) /\ y[1] = r /\ NextPlace(y) = k
      BY <2>2
    <3>4. x = y
      BY <2>3, <2>5, <3>1, <3>2, <3>3
    <3> QED
      BY <3>3, <3>4
  <2> QED
    BY <2>4, <2>5
<1>3. /\ OnceInRound(n, b, 2) /\ OnceInRound(n, b, 3) /\ OnceInRound(n, b, 4)
      /\ OnceInRound(n, b, 5) /\ OnceInRound(n, b, 6)
  <2>1. OnceInRound(n, b, 2)
    BY <1>1, <1>2
  <2>2. OnceInRound(n, b, 3)
    BY <1>2, <2>1
  <2>3. OnceInRound(n, b, 4)
    BY <1>2, <2>2
  <2>4. OnceInRound(n, b, 5)
    BY <1>2, <2>3
  <2>5. OnceInRound(n, b, 6)
    BY <1>2, <2>4
  <2> QED
    BY <2>1, <2>2, <2>3, <2>4, <2>5
<1>4. \A r \in 1..6 : OnceInRound(n, b, r)
  <2>1. \A r \in 1..6 : r = 1 \/ r = 2 \/ r = 3 \/ r = 4 \/ r = 5 \/ r = 6
    OBVIOUS
  <2> QED
    BY <1>1, <1>3, <2>1
<1> QED
  BY <1>4, RoundSizes

\* Until its final is won a bracket has a match to play: else every match of
\* the first round, and so of each later one, would have a winner.
LEMMA UndecidedIsPlayable ==
    ASSUME NEW n \in BracketSizes, NEW F, NEW b \in [Places(n) -> MatchOf(F)],
           BracketInv(n, b), b[Final(n)].winner = NoFilm
    PROVE  \E m \in Places(n) : Playable(b[m])
<1> DEFINE Over(r) == \A m \in Places(n) : m[1] = r => b[m].winner # NoFilm
<1> SUFFICES ASSUME \A m \in Places(n) : ~Playable(b[m]) PROVE FALSE
  OBVIOUS
<1>1. Over(1)
  BY DEF BracketInv, Playable
<1>2. ASSUME NEW r \in 1..5, Over(r) PROVE Over(r + 1)
  <2> SUFFICES ASSUME NEW m \in Places(n), m[1] = r + 1 PROVE b[m].winner # NoFilm
    OBVIOUS
  <2>1. m[1] > 1 /\ m[1] - 1 = r
    OBVIOUS
  <2>2. /\ Left(m) \in Places(n) /\ Left(m)[1] = r
        /\ Right(m) \in Places(n) /\ Right(m)[1] = r
    BY <2>1, Feeders
  <2>3. b[Left(m)].winner # NoFilm /\ b[Right(m)].winner # NoFilm
    BY <1>2, <2>2
  <2> QED
    BY <2>1, <2>3 DEF BracketInv, Playable
<1> HIDE DEF Over
<1>3. Over(2) /\ Over(3) /\ Over(4) /\ Over(5) /\ Over(6)
  <2>1. Over(2)
    BY <1>1, <1>2
  <2>2. Over(3)
    BY <1>2, <2>1
  <2>3. Over(4)
    BY <1>2, <2>2
  <2>4. Over(5)
    BY <1>2, <2>3
  <2>5. Over(6)
    BY <1>2, <2>4
  <2> QED
    BY <2>1, <2>2, <2>3, <2>4, <2>5
<1>4. Over(Rounds(n))
  BY <1>3, RoundSizes
<1> QED
  BY <1>4, FinalIsMatch DEF Over

-----------------------------------------------------------------------------
(* The bracket of the tournament *)

LEMMA ThisBracket ==
    /\ BracketSize \in BracketSizes /\ NoFilm \notin Films
    /\ Matches = Places(BracketSize) /\ LastMatch = Final(BracketSize)
    /\ MatchRow = MatchOf(Films)
    /\ \A seeded \in Lineups : Fits(BracketSize, Films, seeded)
<1>1. ASSUME NEW seeded \in Lineups PROVE Fits(BracketSize, Films, seeded)
  BY LineupsAssumption DEF Fits
<1> QED
  BY <1>1, BracketSizeAssumption, NoFilmAssumption DEF Matches, LastMatch, MatchRow, MatchOf

\* What it keeps in every state.
TournamentBracket(b) == b \in [Matches -> MatchRow] /\ BracketInv(BracketSize, b)

LEMMA LastIsMatch == LastMatch \in Matches
    BY ThisBracket, FinalIsMatch

LEMMA MatchesAreFinite == IsFiniteSet(Matches)
    BY ThisBracket, MatchesFinite

LEMMA FreshBracket ==
    ASSUME NEW seeded \in Lineups
    PROVE  LET b == NewBracket(BracketSize, seeded) IN
           /\ TournamentBracket(b)
           /\ \A m \in Matches : ~Played(b[m])
           /\ b[LastMatch].winner = NoFilm
    BY ThisBracket, NewBracketSound DEF TournamentBracket

LEMMA WonBracket ==
    ASSUME NEW b, TournamentBracket(b), NEW m \in Matches, Playable(b[m]),
           NEW w \in Films, w \in {b[m].a, b[m].b}
    PROVE  LET d == Decide(BracketSize, b, m, w) IN
           /\ TournamentBracket(d)
           /\ d[m].winner = w /\ Played(d[m]) /\ ~Played(b[m])
           /\ \A k \in Matches : k # m => d[k].winner = b[k].winner
           /\ \A k \in Matches : k # m => (Played(d[k]) <=> Played(b[k]))
           /\ \A k \in Matches : Played(b[k]) => d[k] = b[k]
<1>1. /\ BracketSize \in BracketSizes /\ NoFilm \notin Films
      /\ b \in [Places(BracketSize) -> MatchOf(Films)] /\ BracketInv(BracketSize, b)
      /\ m \in Places(BracketSize)
  BY ThisBracket DEF TournamentBracket
<1> QED
  BY <1>1, ThisBracket, Decided DEF TournamentBracket
-----------------------------------------------------------------------------
(* The atomic tournament keeps its promises *)

Types ==
    /\ tournament \in TournamentRow
    /\ duels \in Nat
    /\ purges \in 0..MaxPurges

AtomicInv ==
    /\ Types
    /\ tournament.status = "none" => tournament = Unborn
    /\ tournament.status # "none" => TournamentBracket(tournament.bracket)
    /\ CompletedByFinal
    /\ DuelPerMatch
    /\ RegensCounted

LEMMA RowParts ==
    ASSUME NEW t \in TournamentRow
    PROVE  /\ t.status \in {"none", "active", "completed", "abandoned"}
           /\ t.curated \in BOOLEAN
           /\ t.champion \in Films \cup {NoFilm}
           /\ t.regens \in Nat /\ t.generation \in Nat
           /\ t.bracket \in [Matches -> MatchRow]
    BY DEF TournamentRow

LEMMA UnbornRow == Unborn \in TournamentRow
    BY DEF Unborn, TournamentRow, MatchRow, EmptyMatch

LEMMA AtomicStart == AtomicInit => AtomicInv
<1> SUFFICES ASSUME AtomicInit PROVE AtomicInv
  OBVIOUS
<1>1. /\ tournament = Unborn /\ tournament.status = "none" /\ tournament.champion = NoFilm
      /\ tournament.regens = 0 /\ tournament.generation = 0
      /\ \A m \in Matches : tournament.bracket[m] = EmptyMatch
      /\ duels = 0 /\ purges = 0
  BY DEF AtomicInit, Unborn
<1>2. Types
  BY <1>1, UnbornRow, RegensAssumption DEF Types
<1>3. CompletedByFinal
  BY <1>1, LastIsMatch DEF CompletedByFinal, Match, EmptyMatch
<1>4. DuelPerMatch
  <2>1. { m \in Matches : Played(Match(m)) } = {}
    BY <1>1 DEF Match, Played, EmptyMatch
  <2> QED
    BY <1>1, <2>1, FS_EmptySet DEF DuelPerMatch
<1>5. RegensCounted
  BY <1>1, RegensAssumption DEF RegensCounted
<1> QED
  BY <1>1, <1>2, <1>3, <1>4, <1>5 DEF AtomicInv

\* A new bracket, the first or a later one, takes the place of one in which
\* nothing was played.
LEMMA CountsNothing ==
    ASSUME DuelPerMatch, \A m \in Matches : ~Played(Match(m))
    PROVE  duels = 0
<1>1. { m \in Matches : Played(Match(m)) } = {}
  OBVIOUS
<1> QED
  BY <1>1, FS_EmptySet DEF DuelPerMatch

LEMMA UnbornUnplayed ==
    ASSUME tournament = Unborn
    PROVE  /\ \A m \in Matches : ~Played(Match(m))
           /\ tournament.status = "none" /\ tournament.champion = NoFilm
           /\ tournament.regens = 0 /\ tournament.generation = 0
    BY DEF Unborn, Match, Played, EmptyMatch

LEMMA CreateKeeps == AtomicInv /\ Create => AtomicInv'
<1> SUFFICES ASSUME AtomicInv, Create PROVE AtomicInv'
  OBVIOUS
<1> USE DEF AtomicInv
<1>1. PICK seeded \in Lineups, curated \in BOOLEAN :
         tournament' = Created(tournament, seeded, curated)
  BY DEF Create
<1>2. /\ tournament = Unborn /\ duels = 0 /\ duels' = 0 /\ purges' = purges
      /\ tournament.champion = NoFilm
      /\ tournament.regens = 0 /\ tournament.generation = 0
  BY UnbornUnplayed, CountsNothing DEF Create
<1> DEFINE b == NewBracket(BracketSize, seeded)
<1>3. /\ TournamentBracket(b)
      /\ \A m \in Matches : ~Played(b[m])
      /\ b[LastMatch].winner = NoFilm
  BY FreshBracket
<1> HIDE DEF b
<1>4. /\ tournament'.status = "active" /\ tournament'.bracket = b
      /\ tournament'.champion = NoFilm
      /\ tournament'.regens = 0 /\ tournament'.generation = 0
      /\ tournament' \in TournamentRow
  BY <1>1, <1>2, <1>3 DEF TournamentBracket, Created, Unborn, TournamentRow, b
<1>5. { m \in Matches : Played(b[m]) } = {}
  BY <1>3
<1>6. CompletedByFinal'
  BY <1>3, <1>4 DEF CompletedByFinal, Match
<1>7. DuelPerMatch'
  BY <1>2, <1>4, <1>5, FS_EmptySet DEF DuelPerMatch, Match
<1>8. RegensCounted'
  BY <1>2, <1>4 DEF RegensCounted
<1> QED
  BY <1>2, <1>3, <1>4, <1>6, <1>7, <1>8 DEF Types

LEMMA WinKeeps == AtomicInv /\ Win => AtomicInv'
<1> SUFFICES ASSUME AtomicInv, Win PROVE AtomicInv'
  OBVIOUS
<1> USE DEF AtomicInv
<1>1. PICK m \in Matches, w \in Films :
         /\ ValidResult(tournament, Result(tournament, m, w))
         /\ tournament' = Won(tournament, Result(tournament, m, w))
         /\ duels' = duels + 1
         /\ purges' = purges
  BY DEF Win
<1> DEFINE b == tournament.bracket
           d == Decide(BracketSize, b, m, w)
<1>2. /\ tournament.status = "active" /\ Playable(b[m]) /\ w \in {b[m].a, b[m].b}
      /\ TournamentBracket(b)
  BY <1>1, RowParts DEF ValidResult, Result, Types
<1>3. /\ TournamentBracket(d)
      /\ d[m].winner = w /\ Played(d[m]) /\ ~Played(b[m])
      /\ \A k \in Matches : k # m => d[k].winner = b[k].winner
      /\ \A k \in Matches : k # m => (Played(d[k]) <=> Played(b[k]))
  BY <1>2, WonBracket
<1>4. /\ tournament'.bracket = d
      /\ tournament'.champion = IF m = LastMatch THEN w ELSE tournament.champion
      /\ tournament'.status = IF m = LastMatch THEN "completed" ELSE "active"
      /\ tournament'.regens = tournament.regens
      /\ tournament'.generation = tournament.generation
      /\ tournament' \in TournamentRow
  <2> HIDE DEF d
  <2> QED
    BY <1>1, <1>2, <1>3 DEF TournamentBracket, Won, Result, Types, TournamentRow, d
<1> HIDE DEF d
<1>5. CompletedByFinal'
  <2>1. b[LastMatch].winner = NoFilm /\ tournament.champion = NoFilm
    BY <1>2 DEF CompletedByFinal, Match
  <2> QED
    BY <1>3, <1>4, <2>1, LastIsMatch, NoFilmAssumption DEF CompletedByFinal, Match
<1>6. DuelPerMatch'
  <2> DEFINE before == { k \in Matches : Played(b[k]) }
             after == { k \in Matches : Played(d[k]) }
  <2>1. after = before \cup {m} /\ m \notin before
    BY <1>3
  <2>2. IsFiniteSet(before)
    BY MatchesAreFinite, FS_Subset
  <2>3. Cardinality(after) = Cardinality(before) + 1
    BY <2>1, <2>2, FS_AddElement
  <2>4. duels = Cardinality(before)
    BY DEF DuelPerMatch, Match
  <2> QED
    BY <1>1, <1>4, <2>3, <2>4 DEF DuelPerMatch, Match
<1>7. RegensCounted'
  BY <1>1, <1>4 DEF RegensCounted
<1> QED
  BY <1>1, <1>3, <1>4, <1>5, <1>6, <1>7 DEF Types

LEMMA AbandonKeeps == AtomicInv /\ Abandon => AtomicInv'
<1> SUFFICES ASSUME AtomicInv, Abandon PROVE AtomicInv'
  OBVIOUS
<1> USE DEF AtomicInv
<1>1. /\ tournament.status = "active" /\ duels' = duels /\ purges' = purges
      /\ tournament'.status = "abandoned" /\ tournament'.bracket = tournament.bracket
      /\ tournament'.champion = tournament.champion
      /\ tournament'.regens = tournament.regens
      /\ tournament'.generation = tournament.generation
      /\ tournament' \in TournamentRow
  BY DEF Abandon, MayAbandon, Abandoned, Types, TournamentRow
<1> QED
  BY <1>1 DEF Types, CompletedByFinal, DuelPerMatch, RegensCounted, Match

LEMMA RegenerateKeeps == AtomicInv /\ Regenerate => AtomicInv'
<1> SUFFICES ASSUME AtomicInv, Regenerate PROVE AtomicInv'
  OBVIOUS
<1> USE DEF AtomicInv
<1>1. PICK seeded \in Lineups, regensRead \in RegensRead :
         tournament' = Recurated(tournament, seeded, regensRead)
  BY DEF Regenerate
<1>2. /\ tournament.status = "active"
      /\ \A m \in Matches : ~Played(Match(m))
      /\ tournament.regens < MaxRegens
      /\ duels' = duels /\ purges' = purges
  BY DEF Regenerate, MayRegenerate, Match
<1>3. /\ tournament.regens \in Nat /\ tournament.generation \in Nat
      /\ MaxRegens \in Nat /\ purges \in Nat
  BY RowParts, RegensAssumption DEF Types
<1>4. /\ regensRead \in Nat /\ tournament.regens <= regensRead /\ regensRead < MaxRegens
      /\ purges = 0 => regensRead = tournament.regens
  BY <1>2, <1>3 DEF RegensRead
<1> DEFINE b == NewBracket(BracketSize, seeded)
<1>5. /\ TournamentBracket(b)
      /\ \A m \in Matches : ~Played(b[m])
      /\ b[LastMatch].winner = NoFilm
  BY FreshBracket
<1> HIDE DEF b
<1>6. /\ tournament'.status = "active" /\ tournament'.bracket = b
      /\ tournament'.champion = tournament.champion
      /\ tournament'.regens = regensRead + 1
      /\ tournament'.generation = tournament.generation + 1
      /\ tournament' \in TournamentRow
  <2>1. tournament' = [tournament EXCEPT !.bracket = b,
                                        !.generation = tournament.generation + 1,
                                        !.regens = regensRead + 1]
    BY <1>1 DEF Recurated, b
  <2>2. tournament \in TournamentRow
    BY DEF Types
  <2>3. tournament.generation + 1 \in Nat /\ regensRead + 1 \in Nat
    BY <1>3, <1>4
  <2> HIDE DEF AtomicInv
  <2>4. /\ tournament' \in TournamentRow /\ tournament'.bracket = b
        /\ tournament'.generation = tournament.generation + 1
        /\ tournament'.regens = regensRead + 1
        /\ tournament'.status = tournament.status
        /\ tournament'.champion = tournament.champion
    <3> DEFINE v == [tournament EXCEPT !.bracket = b]
               w == [v EXCEPT !.generation = tournament.generation + 1]
    <3>1. /\ v \in TournamentRow /\ v.bracket = b
          /\ v.status = tournament.status /\ v.champion = tournament.champion
      BY <1>5, <2>2 DEF TournamentBracket, TournamentRow
    <3>2. tournament' = [w EXCEPT !.regens = regensRead + 1]
      BY <2>1
    <3> HIDE DEF v
    <3>3. /\ w \in TournamentRow /\ w.bracket = b
          /\ w.generation = tournament.generation + 1
          /\ w.status = tournament.status /\ w.champion = tournament.champion
      BY <2>3, <3>1 DEF TournamentRow
    <3> HIDE DEF w
    <3> QED
      BY <2>3, <3>2, <3>3 DEF TournamentRow
  <2> QED
    BY <1>2, <2>4
<1>7. CompletedByFinal'
  BY <1>2, <1>5, <1>6 DEF CompletedByFinal, Match
<1>8. DuelPerMatch'
  <2>1. { m \in Matches : Played(b[m]) } = {}
    BY <1>5
  <2> QED
    BY <1>2, <1>6, <2>1, CountsNothing, FS_EmptySet DEF DuelPerMatch, Match
<1>9. RegensCounted'
  <2>1. tournament.generation + 1 <= regensRead + 1 + purges * MaxRegens
    <3>1. purges * MaxRegens \in Nat
      BY <1>3
    <3> HIDE DEF AtomicInv
    <3>2. tournament.generation <= tournament.regens + purges * MaxRegens
      BY DEF AtomicInv, RegensCounted
    <3> QED
      BY <1>3, <1>4, <3>1, <3>2
  <2>2. regensRead + 1 <= MaxRegens
    BY <1>3, <1>4
  <2>3. purges = 0 => tournament.generation + 1 = regensRead + 1
    BY <1>4 DEF RegensCounted
  <2> QED
    BY <1>2, <1>6, <2>1, <2>2, <2>3 DEF RegensCounted
<1> QED
  BY <1>2, <1>5, <1>6, <1>7, <1>8, <1>9 DEF Types

LEMMA PurgeKeeps == AtomicInv /\ PurgeLlmResponse => AtomicInv'
<1> SUFFICES ASSUME AtomicInv, PurgeLlmResponse PROVE AtomicInv'
  OBVIOUS
<1> USE DEF AtomicInv
<1>1. /\ tournament.regens > 0 /\ purges < MaxPurges
      /\ purges' = purges + 1 /\ duels' = duels
      /\ tournament'.status = tournament.status /\ tournament'.bracket = tournament.bracket
      /\ tournament'.champion = tournament.champion
      /\ tournament'.regens = 0
      /\ tournament'.generation = tournament.generation
      /\ tournament' \in TournamentRow
  BY DEF PurgeLlmResponse, Types, TournamentRow
<1>2. tournament.status # "none"
  BY <1>1 DEF Unborn
<1>3. RegensCounted'
  <2>1. /\ tournament.regens \in Nat /\ tournament.generation \in Nat
        /\ MaxRegens \in Nat /\ purges \in Nat /\ purges' # 0
    BY <1>1, RowParts, RegensAssumption DEF Types
  <2>2. purges * MaxRegens \in Nat /\ (purges + 1) * MaxRegens = purges * MaxRegens + MaxRegens
    BY <2>1
  <2>3. tournament.generation <= tournament.regens + purges * MaxRegens
        /\ tournament.regens <= MaxRegens
    BY DEF RegensCounted
  <2>4. tournament.generation <= 0 + purges' * MaxRegens
    BY <1>1, <2>1, <2>2, <2>3
  <2> QED
    BY <1>1, <2>1, <2>4 DEF RegensCounted
<1> QED
  BY <1>1, <1>2, <1>3, RegensAssumption DEF Types, CompletedByFinal, DuelPerMatch, Match

LEMMA AtomicStep == AtomicInv /\ [AtomicNext]_atomicVars => AtomicInv'
<1> SUFFICES ASSUME AtomicInv, [AtomicNext]_atomicVars PROVE AtomicInv'
  OBVIOUS
<1>1. CASE UNCHANGED atomicVars
  BY <1>1 DEF atomicVars, AtomicInv, Types, CompletedByFinal, DuelPerMatch, RegensCounted, Match
<1> QED
  BY <1>1, CreateKeeps, WinKeeps, AbandonKeeps, RegenerateKeeps, PurgeKeeps DEF AtomicNext

\* The invariant of the tournament holds of every behaviour of the abstract
\* specification, whose steps are whole requests.
THEOREM AtomicHolds == AtomicSpec => []AtomicInv
<1> QED
  BY AtomicStart, AtomicStep, PTL DEF AtomicSpec

-----------------------------------------------------------------------------
(* The concurrent requests implement it *)

RequestTypes ==
    /\ holder \in Requests \cup {NoRequest}
    /\ pc \in [Requests -> {"idle", "arrived"} \cup InTransaction]
    /\ call \in [Requests -> Calls \cup {Nothing}]
    /\ reading \in [Requests -> TournamentRow \cup {Nothing}]
    /\ lineup \in [Requests -> Lineups \cup {Nothing}]

\* A request is in its transaction while it holds the lock; what it read is
\* what the tournament is, but that the purge may have dropped the count, and
\* it passed the checks.
RequestFits(r) ==
    /\ pc[r] \in InTransaction <=> holder = r
    /\ pc[r] # "idle" => call[r] \in Calls
    /\ pc[r] = "curating" => call[r].op = "regenerate"
    /\ pc[r] = "writing" /\ call[r].op = "regenerate" => lineup[r] \in Lineups
    /\ pc[r] \in {"curating", "writing"} =>
          /\ reading[r] \in TournamentRow
          /\ Allowed(call[r], reading[r])
          /\ ButRegens(reading[r]) = ButRegens(tournament)
          /\ \/ reading[r].regens = tournament.regens
             \/ tournament.regens = 0 /\ purges > 0

RequestInv == RequestTypes /\ \A r \in Requests : RequestFits(r)

RaceInv == AtomicInv /\ RequestInv

LEMMA CallKinds ==
    ASSUME NEW c \in Calls
    PROVE  /\ c.op \in {"submit", "abandon", "regenerate"}
           /\ c.op = "submit" => /\ c.generation \in Nat /\ c.match \in Matches
                                 /\ c.winner \in Films
                                 /\ \A t : c.generation = t.generation =>
                                       c = Result(t, c.match, c.winner)
    BY DEF Calls, Result

\* Nothing a check looks at depends on the count, but that it is small.
LEMMA SameButRegens ==
    ASSUME NEW s \in TournamentRow, NEW t \in TournamentRow, ButRegens(s) = ButRegens(t)
    PROVE  /\ s.status = t.status /\ s.curated = t.curated /\ s.champion = t.champion
           /\ s.generation = t.generation /\ s.bracket = t.bracket
    BY DEF ButRegens, TournamentRow

LEMMA StillAllowed ==
    ASSUME NEW c \in Calls, NEW s \in TournamentRow, NEW t \in TournamentRow,
           ButRegens(s) = ButRegens(t), s.regens = t.regens \/ t.regens = 0,
           Allowed(c, s)
    PROVE  Allowed(c, t) /\ t.status = "active"
<1>1. /\ s.status = t.status /\ s.curated = t.curated
      /\ s.generation = t.generation /\ s.bracket = t.bracket
  BY SameButRegens
<1>2. s.regens \in Nat /\ t.regens \in Nat /\ MaxRegens \in Nat
  BY RowParts, RegensAssumption
<1>3. CASE c.op = "submit"
  BY <1>1, <1>3 DEF Allowed, ValidResult
<1>4. CASE c.op = "abandon"
  BY <1>1, <1>4 DEF Allowed, MayAbandon
<1>5. CASE c.op = "regenerate"
  BY <1>1, <1>2, <1>5 DEF Allowed, MayRegenerate
<1> QED
  BY <1>3, <1>4, <1>5, CallKinds

LEMMA AtCommit ==
    ASSUME RaceInv, NEW r \in Requests, pc[r] = "writing"
    PROVE  /\ call[r] \in Calls /\ Allowed(call[r], tournament)
           /\ reading[r] \in TournamentRow /\ Allowed(call[r], reading[r])
           /\ \/ reading[r].regens = tournament.regens
              \/ tournament.regens = 0 /\ purges > 0
    BY StillAllowed DEF RaceInv, AtomicInv, Types, RequestInv, RequestFits

LEMMA ResultIsWin == RaceInv /\ (\E r \in Requests : CommitResult(r)) => Win
<1> SUFFICES ASSUME RaceInv, NEW r \in Requests, CommitResult(r) PROVE Win
  OBVIOUS
<1>1. pc[r] = "writing" /\ call[r].op = "submit"
  BY DEF CommitResult, Writes
<1>2. call[r] \in Calls /\ ValidResult(tournament, call[r])
  BY <1>1, AtCommit DEF Allowed
<1>3. /\ call[r].match \in Matches /\ call[r].winner \in Films
      /\ call[r] = Result(tournament, call[r].match, call[r].winner)
  BY <1>1, <1>2, CallKinds DEF ValidResult
<1> QED
  BY <1>2, <1>3 DEF Win, CommitResult

LEMMA AbandonIsAbandon == RaceInv /\ (\E r \in Requests : CommitAbandon(r)) => Abandon
    BY AtCommit DEF Allowed, CommitAbandon, Writes, Abandon

LEMMA RegenerateIsRegenerate ==
    RaceInv /\ (\E r \in Requests : CommitRegenerate(r)) => Regenerate
<1> SUFFICES ASSUME RaceInv, NEW r \in Requests, CommitRegenerate(r) PROVE Regenerate
  OBVIOUS
<1>1. pc[r] = "writing" /\ call[r].op = "regenerate"
  BY DEF CommitRegenerate, Writes
<1>2. /\ MayRegenerate(tournament) /\ MayRegenerate(reading[r])
      /\ reading[r] \in TournamentRow
      /\ \/ reading[r].regens = tournament.regens
         \/ tournament.regens = 0 /\ purges > 0
  BY <1>1, AtCommit DEF Allowed
<1>3. lineup[r] \in Lineups
  BY <1>1 DEF RaceInv, RequestInv, RequestFits
<1>4. reading[r].regens \in RegensRead
  BY <1>2, RowParts, RegensAssumption DEF RegensRead, MayRegenerate
<1> QED
  BY <1>2, <1>3, <1>4 DEF Regenerate, CommitRegenerate

\* Every step is a step of the atomic tournament or changes nothing of it.
LEMMA StepIsAtomic == RaceInv /\ [Next]_vars => [AtomicNext]_atomicVars
<1> SUFFICES ASSUME RaceInv, [Next]_vars PROVE [AtomicNext]_atomicVars
  OBVIOUS
<1>1. ASSUME NEW r \in Requests,
             \/ Arrive(r) \/ Acquire(r) \/ Busy(r) \/ Load(r) \/ Refuse(r)
             \/ Curated(r) \/ Abort(r)
      PROVE  UNCHANGED atomicVars
  BY <1>1 DEF Arrive, Acquire, Busy, Load, Refuse, Curated, Abort, atomicVars
<1>2. UNCHANGED vars => UNCHANGED atomicVars
  BY DEF vars, atomicVars
<1> QED
  BY <1>1, <1>2, ResultIsWin, AbandonIsAbandon, RegenerateIsRegenerate
  DEF Next, AtomicNext

LEMMA RequestStart == Init => RequestInv
    BY MarkersAssumption DEF Init, RequestInv, RequestTypes, RequestFits, InTransaction

\* A request that ends, with or without a write, disturbs no other: none is in
\* its transaction at the same time.
LEMMA FinishKeeps ==
    ASSUME RequestInv, NEW r \in Requests, Finish(r),
           pc[r] \in InTransaction \/ UNCHANGED atomicVars
    PROVE  RequestInv'
<1> USE DEF RequestInv
<1>1. RequestTypes'
  BY DEF Finish, RequestTypes
<1>2. ASSUME NEW q \in Requests PROVE RequestFits(q)'
  <2>1. CASE q = r
    BY <2>1, MarkersAssumption DEF Finish, RequestTypes, RequestFits, InTransaction
  <2>2. CASE q # r /\ pc[r] \in InTransaction
    <3>1. holder = r /\ pc[q] \notin InTransaction
      BY <2>2 DEF RequestFits
    <3>2. pc'[q] = pc[q] /\ call'[q] = call[q] /\ holder' = NoRequest
      BY <2>2, <3>1 DEF Finish, RequestTypes
    <3> QED
      BY <3>1, <3>2, MarkersAssumption DEF RequestFits, InTransaction
  <2>3. CASE q # r /\ UNCHANGED atomicVars
    <3>1. /\ pc'[q] = pc[q] /\ call'[q] = call[q] /\ reading'[q] = reading[q]
          /\ lineup'[q] = lineup[q] /\ tournament' = tournament /\ purges' = purges
      BY <2>3 DEF Finish, RequestTypes, atomicVars
    <3>2. holder' = q <=> holder = q
      BY <2>3, MarkersAssumption DEF Finish
    <3> QED
      BY <3>1, <3>2 DEF RequestFits
  <2> QED
    BY <2>1, <2>2, <2>3
<1> QED
  BY <1>1, <1>2

\* A request under way has found the tournament active.
LEMMA ReadingIsActive ==
    ASSUME RaceInv, NEW r \in Requests, pc[r] \in {"curating", "writing"}
    PROVE  tournament.status = "active"
<1>1. /\ call[r] \in Calls /\ reading[r] \in TournamentRow /\ tournament \in TournamentRow
      /\ ButRegens(reading[r]) = ButRegens(tournament)
      /\ reading[r].regens = tournament.regens \/ tournament.regens = 0
      /\ Allowed(call[r], reading[r])
  BY DEF RaceInv, AtomicInv, Types, RequestInv, RequestFits
<1> QED
  BY <1>1, StillAllowed

LEMMA ArriveKeeps ==
    ASSUME RaceInv, NEW r \in Requests, Arrive(r)
    PROVE  RequestInv'
<1> USE DEF RaceInv, RequestInv
<1>1. PICK c \in Calls : call' = [call EXCEPT ![r] = c]
  <2>1. tournament.generation \in Nat
    BY RowParts DEF AtomicInv, Types
  <2>2. \A m \in Matches, w \in Films : Result(tournament, m, w) \in Calls
    BY <2>1 DEF Result, Calls
  <2>3. \A op \in {"abandon", "regenerate"} : [op |-> op] \in Calls
    BY DEF Calls
  <2> QED
    BY <2>2, <2>3 DEF Arrive
<1>2. /\ pc[r] = "idle" /\ pc' = [pc EXCEPT ![r] = "arrived"]
      /\ UNCHANGED <<tournament, purges, holder, reading, lineup>>
  BY DEF Arrive
<1>3. RequestTypes'
  BY <1>1, <1>2 DEF RequestTypes
<1>4. ASSUME NEW q \in Requests PROVE RequestFits(q)'
  BY <1>1, <1>2 DEF RequestTypes, RequestFits, InTransaction
<1> QED
  BY <1>3, <1>4

LEMMA AcquireKeeps ==
    ASSUME RaceInv, NEW r \in Requests, Acquire(r)
    PROVE  RequestInv'
<1> USE DEF RaceInv, RequestInv
<1>1. /\ pc[r] = "arrived" /\ holder = NoRequest /\ holder' = r
      /\ pc' = [pc EXCEPT ![r] = "locked"]
      /\ UNCHANGED <<tournament, purges, call, reading, lineup>>
  BY DEF Acquire, LockFree
<1>2. RequestTypes'
  BY <1>1 DEF RequestTypes, InTransaction
<1>3. ASSUME NEW q \in Requests PROVE RequestFits(q)'
  BY <1>1, MarkersAssumption DEF RequestTypes, RequestFits, InTransaction
<1> QED
  BY <1>2, <1>3

LEMMA LoadKeeps ==
    ASSUME RaceInv, NEW r \in Requests, Load(r)
    PROVE  RequestInv'
<1> USE DEF RaceInv, RequestInv
<1>1. /\ pc[r] = "locked" /\ Allowed(call[r], tournament)
      /\ reading' = [reading EXCEPT ![r] = tournament]
      /\ pc' = [pc EXCEPT ![r] = IF call[r].op = "regenerate" THEN "curating" ELSE "writing"]
      /\ UNCHANGED <<tournament, purges, holder, call, lineup>>
  BY DEF Load
<1>2. tournament \in TournamentRow
  BY DEF AtomicInv, Types
<1>3. RequestTypes'
  BY <1>1, <1>2 DEF RequestTypes, InTransaction
<1>4. ASSUME NEW q \in Requests PROVE RequestFits(q)'
  BY <1>1, <1>2 DEF RequestTypes, RequestFits, InTransaction
<1> QED
  BY <1>3, <1>4

LEMMA CuratedKeeps ==
    ASSUME RaceInv, NEW r \in Requests, Curated(r)
    PROVE  RequestInv'
<1> USE DEF RaceInv, RequestInv
<1>1. PICK seeded \in Lineups : lineup' = [lineup EXCEPT ![r] = seeded]
  BY DEF Curated
<1>2. /\ pc[r] = "curating" /\ pc' = [pc EXCEPT ![r] = "writing"]
      /\ UNCHANGED <<tournament, purges, holder, call, reading>>
  BY DEF Curated
<1>3. RequestTypes'
  BY <1>1, <1>2 DEF RequestTypes, InTransaction
<1>4. ASSUME NEW q \in Requests PROVE RequestFits(q)'
  BY <1>1, <1>2 DEF RequestTypes, RequestFits, InTransaction
<1> QED
  BY <1>3, <1>4

LEMMA RequestStep == RaceInv /\ [Next]_vars => RequestInv'
<1> SUFFICES ASSUME RaceInv, [Next]_vars PROVE RequestInv'
  OBVIOUS
<1>1. CASE Create /\ UNCHANGED requestVars
  <2>1. tournament.status = "none"
    BY <1>1 DEF Create
  <2>2. \A r \in Requests : pc[r] \notin {"curating", "writing"}
    BY <2>1, ReadingIsActive
  <2> QED
    BY <1>1, <2>2 DEF RaceInv, RequestInv, RequestTypes, RequestFits, requestVars, InTransaction
<1>2. CASE PurgeLlmResponse /\ UNCHANGED requestVars
  <2>1. /\ tournament \in TournamentRow /\ tournament' = [tournament EXCEPT !.regens = 0]
        /\ purges \in Nat /\ purges' = purges + 1
    BY <1>2, RegensAssumption DEF PurgeLlmResponse, RaceInv, AtomicInv, Types
  <2>2. ButRegens(tournament') = ButRegens(tournament)
    BY <2>1 DEF ButRegens, TournamentRow
  <2>3. tournament'.regens = 0 /\ purges' > 0
    BY <2>1 DEF TournamentRow
  <2> QED
    BY <1>2, <2>2, <2>3 DEF RaceInv, RequestInv, RequestTypes, RequestFits, requestVars, InTransaction
<1>3. ASSUME NEW r \in Requests, Busy(r) \/ Refuse(r) \/ Abort(r)
      PROVE  RequestInv'
  BY <1>3, FinishKeeps DEF RaceInv, Busy, Refuse, Abort
<1>4. ASSUME NEW r \in Requests, CommitResult(r) \/ CommitAbandon(r) \/ CommitRegenerate(r)
      PROVE  RequestInv'
  BY <1>4, FinishKeeps
  DEF RaceInv, CommitResult, CommitAbandon, CommitRegenerate, Writes, InTransaction
<1>5. CASE UNCHANGED vars
  BY <1>5 DEF vars, RaceInv, RequestInv, RequestTypes, RequestFits
<1> QED
  BY <1>1, <1>2, <1>3, <1>4, <1>5, ArriveKeeps, AcquireKeeps, LoadKeeps, CuratedKeeps DEF Next

LEMMA RaceStep == RaceInv /\ [Next]_vars => RaceInv'
    BY StepIsAtomic, AtomicStep, RequestStep DEF RaceInv

LEMMA RaceStart == Init => RaceInv
    BY AtomicStart, RequestStart DEF Init, RaceInv

\* It holds with the requests in flight too: who is in its transaction holds the
\* lock, and what it read is still so but for regenerations purged meanwhile.
THEOREM RacesHold == Spec => []RaceInv
<1> QED
  BY RaceStart, RaceStep, PTL DEF Spec

-----------------------------------------------------------------------------
(* What that gives *)

\* TypeOK: every variable of the tournament and of its requests has its type.
THEOREM TypeCorrect == Spec => []TypeOK
<1>1. RaceInv => TypeOK
  BY DEF RaceInv, AtomicInv, Types, RequestInv, RequestTypes, TypeOK
<1> QED
  BY <1>1, RacesHold, PTL

\* RequestsAreAtomic: what a request checked when it loaded the tournament is
\* still so at its commit, so the requests implement the atomic tournament.
THEOREM RacesAreAtomic == Spec => RequestsAreAtomic
<1>1. Init => AtomicInit
  BY DEF Init
<1> QED
  BY <1>1, RacesHold, StepIsAtomic, PTL DEF Spec, RequestsAreAtomic, AtomicSpec

\* CompletedByFinal: completed if and only if the final is decided, with its
\* winner as the champion.
THEOREM FinalCompletes == Spec => []CompletedByFinal
<1>1. RaceInv => CompletedByFinal
  BY DEF RaceInv, AtomicInv
<1> QED
  BY <1>1, RacesHold, PTL

\* DuelPerMatch: one duel for each match that was played.
THEOREM MatchesAreDuels == Spec => []DuelPerMatch
<1>1. RaceInv => DuelPerMatch
  BY DEF RaceInv, AtomicInv
<1> QED
  BY <1>1, RacesHold, PTL

\* RegensCounted: every regeneration counts against the limit, and only the
\* purge gives room for more.
THEOREM RegensAreCounted == Spec => []RegensCounted
<1>1. RaceInv => RegensCounted
  BY DEF RaceInv, AtomicInv
<1> QED
  BY <1>1, RacesHold, PTL

\* SlotsAgree: a later match holds the winners of the matches that feed it.
THEOREM WinnersMoveOn == Spec => []SlotsAgree
<1>1. RaceInv => SlotsAgree
  BY ThisBracket
  DEF RaceInv, AtomicInv, TournamentBracket, BracketInv, SlotsAgree, Match, Left, Right
<1> QED
  BY <1>1, RacesHold, PTL

\* OneMatchPerRound: no film is in two matches of one round, or plays itself.
THEOREM OneMatchEach == Spec => []OneMatchPerRound
<1>1. RaceInv => OneMatchPerRound
  <2> SUFFICES ASSUME RaceInv, NEW m \in Matches, NEW k \in Matches, m[1] = k[1]
               PROVE  /\ Match(m).a = Match(m).b => Match(m).a = NoFilm
                      /\ m # k => {Match(m).a, Match(m).b} \cap {Match(k).a, Match(k).b}
                                      \subseteq {NoFilm}
    BY DEF OneMatchPerRound
  <2>1. CASE tournament.status = "none"
    BY <2>1 DEF RaceInv, AtomicInv, Match, Unborn, EmptyMatch
  <2>2. CASE tournament.status # "none"
    <3>1. /\ BracketSize \in BracketSizes /\ BracketInv(BracketSize, tournament.bracket)
          /\ m \in Places(BracketSize) /\ k \in Places(BracketSize)
      BY <2>2, ThisBracket DEF RaceInv, AtomicInv, TournamentBracket
    <3>2. m[1] \in 1..Rounds(BracketSize)
      BY <3>1, MatchParts
    <3>3. OnceInRound(BracketSize, tournament.bracket, m[1])
      BY <3>1, <3>2, OnceInEveryRound
    <3> QED
      BY <3>1, <3>3 DEF OnceInRound, Match
  <2> QED
    BY <2>1, <2>2
<1> QED
  BY <1>1, RacesHold, PTL

\* ResultsStand: no step changes a match that was played.
THEOREM PlayedStays == Spec => ResultsStand
<1>1. ASSUME AtomicInv, AtomicNext, NEW m \in Matches, Played(Match(m))
      PROVE  Match(m)' = Match(m)
  <2>1. CASE Create
    BY <1>1, <2>1, UnbornUnplayed DEF Create, AtomicInv
  <2>2. CASE Win
    <3>1. PICK k \in Matches, w \in Films :
             /\ ValidResult(tournament, Result(tournament, k, w))
             /\ tournament' = Won(tournament, Result(tournament, k, w))
      BY <2>2 DEF Win
    <3>2. /\ tournament.status = "active" /\ Playable(tournament.bracket[k])
          /\ w \in {tournament.bracket[k].a, tournament.bracket[k].b}
      BY <3>1 DEF ValidResult, Result
    <3>3. /\ tournament \in TournamentRow
          /\ TournamentBracket(tournament.bracket)
      BY <1>1, <3>2, RowParts DEF AtomicInv, Types
    <3>4. tournament'.bracket = Decide(BracketSize, tournament.bracket, k, w)
      BY <3>1, <3>3 DEF Won, Result, TournamentRow
    <3> QED
      BY <1>1, <3>2, <3>3, <3>4, WonBracket DEF Match
  <2>3. CASE Abandon
    BY <1>1, <2>3 DEF Abandon, Abandoned, Match, AtomicInv, Types, TournamentRow
  <2>4. CASE Regenerate
    BY <1>1, <2>4 DEF Regenerate, MayRegenerate, Match
  <2>5. CASE PurgeLlmResponse
    BY <1>1, <2>5 DEF PurgeLlmResponse, Match, AtomicInv, Types, TournamentRow
  <2> QED
    BY <1>1, <2>1, <2>2, <2>3, <2>4, <2>5 DEF AtomicNext
<1>2. RaceInv /\ [Next]_vars =>
         [\A m \in Matches : Played(Match(m)) => Match(m)' = Match(m)]_atomicVars
  BY <1>1, StepIsAtomic DEF RaceInv
<1> QED
  BY <1>2, RacesHold, PTL DEF Spec, ResultsStand

\* EndedIsFrozen: a completed or abandoned tournament changes no more, but for
\* the count the purge drops.
THEOREM EndedStays == Spec => EndedIsFrozen
<1>1. ASSUME AtomicInv, AtomicNext, tournament.status \in {"completed", "abandoned"}
      PROVE  ButRegens(tournament') = ButRegens(tournament)
  <2>1. ~Create /\ ~Win /\ ~Abandon /\ ~Regenerate
    BY <1>1 DEF Create, Win, ValidResult, Abandon, MayAbandon, Regenerate, MayRegenerate
  <2>2. tournament \in TournamentRow /\ tournament' = [tournament EXCEPT !.regens = 0]
    BY <1>1, <2>1 DEF AtomicNext, PurgeLlmResponse, AtomicInv, Types
  <2> QED
    BY <2>2 DEF ButRegens, TournamentRow
<1>2. RaceInv /\ [Next]_vars =>
         [tournament.status \in {"completed", "abandoned"} =>
             ButRegens(tournament') = ButRegens(tournament)]_atomicVars
  BY <1>1, StepIsAtomic DEF RaceInv
<1> QED
  BY <1>2, RacesHold, PTL DEF Spec, EndedIsFrozen

\* A tournament under way can be finished: until its final is decided there is
\* a match to play (get_next_match).
ActiveIsPlayable ==
    tournament.status = "active" => \E m \in Matches : Playable(Match(m))

\* ActiveIsPlayable: an active tournament has a match to play, whoever won
\* those played and whatever raced with them.
THEOREM NothingStuck == Spec => []ActiveIsPlayable
<1>1. RaceInv => ActiveIsPlayable
  <2> SUFFICES ASSUME RaceInv, tournament.status = "active"
               PROVE  \E m \in Matches : Playable(Match(m))
    BY DEF ActiveIsPlayable
  <2>1. /\ TournamentBracket(tournament.bracket)
        /\ tournament.bracket[LastMatch].winner = NoFilm
    BY RowParts DEF RaceInv, AtomicInv, Types, CompletedByFinal, Match
  <2> QED
    BY <2>1, ThisBracket, UndecidedIsPlayable DEF TournamentBracket, Match
<1> QED
  BY <1>1, RacesHold, PTL
-----------------------------------------------------------------------------
(* Every bracket the API accepts *)

\* A bracket is offered only for a pool that half-fills it.
LEMMA HalfFilled ==
    ASSUME NEW pool \in Nat, 4 <= pool, NEW s \in BracketSizes, s <= MaxBracketSize(pool)
    PROVE  s <= 2 * pool
<1> DEFINE largest(m) == \A t \in Offerable(pool) : t <= m
<1>1. \E m \in Offerable(pool) : largest(m)
  <2>1. 8 \in Offerable(pool)
    BY DEF Offerable, BracketSizes
  <2>2. CASE 64 <= 2 * pool
    <3>1. 64 \in Offerable(pool) /\ largest(64)
      BY <2>2 DEF Offerable, BracketSizes
    <3> QED
      BY <3>1
  <2>3. CASE ~(64 <= 2 * pool) /\ 32 <= 2 * pool
    <3>1. 32 \in Offerable(pool) /\ largest(32)
      BY <2>3 DEF Offerable, BracketSizes
    <3> QED
      BY <3>1
  <2>4. CASE ~(32 <= 2 * pool) /\ 16 <= 2 * pool
    <3>1. 16 \in Offerable(pool) /\ largest(16)
      BY <2>4 DEF Offerable, BracketSizes
    <3> QED
      BY <3>1
  <2>5. CASE ~(16 <= 2 * pool)
    <3>1. largest(8)
      BY <2>5 DEF Offerable, BracketSizes
    <3> QED
      BY <2>1, <3>1
  <2> QED
    BY <2>2, <2>3, <2>4, <2>5
<1> HIDE DEF largest
<1>2. Offerable(pool) # {}
  BY <1>1
<1>3. MaxBracketSize(pool) = CHOOSE m \in Offerable(pool) : largest(m)
  BY <1>2 DEF MaxBracketSize, largest
<1>4. MaxBracketSize(pool) \in Offerable(pool)
  BY <1>1, <1>3
<1> QED
  BY <1>4 DEF Offerable, BracketSizes

\* The films of a bracket, each its own seed.
Ranked(count) == [seed \in 1..count |-> seed]

LEMMA RankedFits ==
    ASSUME NEW n \in BracketSizes, NEW count \in Nat, count <= n, n <= 2 * count
    PROVE  Fits(n, 1..count, Ranked(count)) /\ Len(Ranked(count)) = count
    BY DEF Fits, Ranked

\* The byes of a new bracket: n - count of them, for the best seeds.
LEMMA ByesOfNew ==
    ASSUME NEW n \in BracketSizes, NEW count \in Nat, count <= n, n <= 2 * count,
           NoFilm \notin 1..count
    PROVE  LET b == NewBracket(n, Ranked(count))
               byes == { p \in Places(n) : b[p].bye } IN
           /\ { b[p].winner : p \in byes } = 1..(n - count)
           /\ Cardinality(byes) = n - count
<1> DEFINE seeded == Ranked(count)
           F == 1..count
           b == NewBracket(n, seeded)
           byes == { p \in Places(n) : b[p].bye }
<1>1. Fits(n, F, seeded) /\ Len(seeded) = count /\ NoFilm \notin F
  BY RankedFits
<1>0. \A s \in 1..count : seeded[s] = s
  BY DEF Ranked
<1> HIDE DEF seeded, F, b, byes
<1>2. /\ n \in Nat /\ n \div 2 \in Nat /\ 2 * (n \div 2) = n
      /\ MatchesInRound(n, 1) = n \div 2
      /\ \A p \in Nat : p < n \div 2 =>
            Better(n, p) \in 1..(n \div 2) /\ Worse(n, p) = n + 1 - Better(n, p)
      /\ \A p, q \in Nat : p < n \div 2 /\ q < n \div 2 /\ Better(n, p) = Better(n, q) => p = q
      /\ \A s \in 1..(n \div 2) : \E p \in Nat : p < n \div 2 /\ Better(n, p) = s
  BY OpeningSeeds
<1>3. ASSUME NEW p \in Places(n)
      PROVE  /\ p[1] = 1 => b[p] = FirstRound(n, seeded, p[2])
             /\ p[1] > 1 => ~b[p].bye
  BY <1>1, NewBracketSound DEF b
<1>4. ASSUME NEW p \in Places(n), p[1] = 1
      PROVE  /\ p[2] \in Nat /\ p[2] < n \div 2
             /\ Better(n, p[2]) \in 1..(n \div 2)
             /\ b[p].bye <=> Better(n, p[2]) <= n - count
             /\ b[p].bye => b[p].winner = Better(n, p[2])
  <2>1. p[2] \in Nat /\ p[2] < n \div 2
    BY <1>2, <1>4, MatchParts
  <2> DEFINE match == FirstRound(n, seeded, p[2])
             better == Better(n, p[2])
             worse == Worse(n, p[2])
  <2>2. b[p] = match
    BY <1>3, <1>4
  <2>3. /\ better \in 1..count
        /\ match.a = seeded[better]
        /\ ~(worse <= count) => match.winner = match.a
        /\ match.bye <=> ~(worse <= count)
    BY <1>1, <2>1, Opening
  <2>4. better \in 1..(n \div 2) /\ worse = n + 1 - better
    BY <1>2, <2>1
  <2>5. seeded[better] = better
    BY <1>0, <2>3
  <2> HIDE DEF match, better, worse
  <2>6. ~(worse <= count) <=> better <= n - count
    BY <1>2, <2>4
  <2>7. /\ better \in 1..(n \div 2)
        /\ b[p].bye <=> better <= n - count
        /\ b[p].bye => b[p].winner = better
    BY <2>2, <2>3, <2>4, <2>5, <2>6
  <2> QED
    BY <2>1, <2>7 DEF better
<1>5. ASSUME NEW p \in byes
      PROVE  /\ p \in Places(n) /\ p[1] = 1 /\ p = <<1, p[2]>>
             /\ p[2] \in Nat /\ p[2] < n \div 2
             /\ b[p].winner = Better(n, p[2])
             /\ b[p].winner \in 1..(n - count)
  <2>1. p \in Places(n) /\ b[p].bye
    BY DEF byes
  <2>2. p[1] \in 1..Rounds(n) /\ p = <<p[1], p[2]>>
    BY <2>1, MatchParts
  <2>3. p[1] = 1
    BY <1>3, <2>1, <2>2, RoundSizes
  <2> QED
    BY <1>2, <1>4, <2>1, <2>2, <2>3
<1>6. ASSUME NEW s \in 1..(n - count)
      PROVE  \E p \in byes : b[p].winner = s
  <2>1. s \in 1..(n \div 2)
    BY <1>2
  <2>2. PICK q \in Nat : q < n \div 2 /\ Better(n, q) = s
    BY <1>2, <2>1
  <2> DEFINE p == <<1, q>>
  <2>3. p \in Places(n) /\ p[1] = 1 /\ p[2] = q
    BY <1>2, <2>2, PlaceIsMatch, RoundSizes
  <2> HIDE DEF p
  <2>4. b[p].bye /\ b[p].winner = s
    BY <1>2, <1>4, <2>2, <2>3
  <2> QED
    BY <2>3, <2>4 DEF byes
<1>7. { b[p].winner : p \in byes } = 1..(n - count)
  BY <1>5, <1>6
<1>8. Cardinality(byes) = n - count
  <2> DEFINE S == 1..(n - count)
             seedOf == [p \in byes |-> b[p].winner]
  <2>1. ASSUME NEW p \in byes, NEW q \in byes, seedOf[p] = seedOf[q] PROVE p = q
    <3>1. b[p].winner = b[q].winner
      BY <2>1
    <3>2. Better(n, p[2]) = Better(n, q[2])
      BY <1>5, <3>1
    <3>3. p[2] = q[2]
      BY <1>2, <1>5, <3>2
    <3> QED
      BY <1>5, <3>3
  <2>2. seedOf \in [byes -> S]
    BY <1>5
  <2>3. \A s \in S : \E p \in byes : seedOf[p] = s
    BY <1>6
  <2>4. seedOf \in Bijection(byes, S)
    BY <2>1, <2>2, <2>3 DEF Bijection, Injection, Surjection, IsInjective
  <2>5. ExistsBijection(byes, S)
    BY <2>4 DEF ExistsBijection
  <2>6. IsFiniteSet(byes)
    BY MatchesFinite, FS_Subset DEF byes
  <2>7. Cardinality(S) = Cardinality(byes)
    BY <2>5, <2>6, FS_Bijection
  <2>8. Cardinality(S) = n - count
    <3>1. n - count \in Nat /\ 1 \in Int
      BY <1>2
    <3> QED
      BY <3>1, FS_Interval
  <2> QED
    BY <2>7, <2>8
<1> QED
  BY <1>7, <1>8 DEF byes, b, seeded

ChalkInv ==
    /\ size \in BracketSizes /\ films \in 1..MaxPool
    /\ films <= size /\ size <= 2 * films
    /\ bracket \in [Places(size) -> MatchOf(1..films)]
    /\ BracketInv(size, bracket)
    /\ ByesToTopSeeds

LEMMA ChalkStart == ChalkInit => ChalkInv
<1> SUFFICES ASSUME ChalkInit PROVE ChalkInv
  OBVIOUS
<1>1. PICK pool \in 4..MaxPool :
         /\ size \in BracketSizes /\ size <= MaxBracketSize(pool)
         /\ films = IF pool < size THEN pool ELSE size
         /\ bracket = NewBracket(size, Ranked(films))
  BY DEF ChalkInit, Ranked
<1>2. pool \in Nat /\ 4 <= pool /\ MaxPool \in Nat /\ pool <= MaxPool
  BY ChalkAssumption
<1>3. size <= 2 * pool
  BY <1>1, <1>2, HalfFilled
<1>4. size \in Nat /\ 8 <= size
  BY <1>1 DEF BracketSizes
<1>5. films \in 1..MaxPool /\ films \in Nat /\ films <= size /\ size <= 2 * films
  BY <1>1, <1>2, <1>3, <1>4
<1>6. NoFilm \notin 1..films
  BY <1>2, <1>5, ChalkAssumption
<1>7. Fits(size, 1..films, Ranked(films))
  BY <1>1, <1>5, RankedFits
<1>8. bracket \in [Places(size) -> MatchOf(1..films)] /\ BracketInv(size, bracket)
  BY <1>1, <1>6, <1>7, NewBracketSound
<1>9. ByesToTopSeeds
  BY <1>1, <1>5, <1>6, ByesOfNew DEF ByesToTopSeeds
<1> QED
  BY <1>1, <1>5, <1>8, <1>9 DEF ChalkInv

LEMMA ChalkStep == ChalkInv /\ [ChalkNext]_chalkVars => ChalkInv'
<1> SUFFICES ASSUME ChalkInv, [ChalkNext]_chalkVars PROVE ChalkInv'
  OBVIOUS
<1>1. CASE UNCHANGED chalkVars
  BY <1>1 DEF ChalkInv, ByesToTopSeeds, chalkVars
<1>2. CASE PlayNext
  <2>1. PICK m \in Places(size) :
           /\ Playable(bracket[m])
           /\ bracket' = Decide(size, bracket, m, BetterSeed(bracket[m]))
           /\ size' = size /\ films' = films
    BY <1>2 DEF PlayNext, IsNext
  <2>2. /\ size \in BracketSizes /\ bracket \in [Places(size) -> MatchOf(1..films)]
        /\ BracketInv(size, bracket) /\ NoFilm \notin 1..films
    BY ChalkAssumption DEF ChalkInv
  <2> DEFINE w == BetterSeed(bracket[m])
             F == 1..films
  <2>3. w \in F /\ w \in {bracket[m].a, bracket[m].b}
    BY <2>1, <2>2 DEF MatchOf, Playable, BetterSeed
  <2> HIDE DEF w, F
  <2>10. bracket \in [Places(size) -> MatchOf(F)] /\ NoFilm \notin F
    BY <2>2 DEF F
  <2> DEFINE d == Decide(size, bracket, m, w)
  <2>11. /\ d \in [Places(size) -> MatchOf(F)] /\ BracketInv(size, d)
         /\ \A k \in Places(size) : k # m => d[k].winner = bracket[k].winner
         /\ \A k \in Places(size) : d[k].bye = bracket[k].bye
    BY <2>1, <2>2, <2>3, <2>10, Decided
  <2> HIDE DEF d
  <2>12. bracket' = d
    BY <2>1 DEF d, w
  <2>4. /\ bracket' \in [Places(size) -> MatchOf(1..films)] /\ BracketInv(size, bracket')
        /\ \A k \in Places(size) : k # m => bracket'[k].winner = bracket[k].winner
        /\ \A k \in Places(size) : bracket'[k].bye = bracket[k].bye
    BY <2>11, <2>12 DEF F
  <2>5. ~bracket[m].bye
    BY <2>1, <2>2 DEF BracketInv, Playable
  <2> DEFINE before == { p \in Places(size) : bracket[p].bye }
             after == { p \in Places(size) : bracket'[p].bye }
  <2>6. after = before
    BY <2>4
  <2>7. \A p \in before : bracket'[p].winner = bracket[p].winner
    BY <2>4, <2>5
  <2>8. { bracket'[p].winner : p \in after } = { bracket[p].winner : p \in before }
    BY <2>6, <2>7
  <2>9. ByesToTopSeeds'
    BY <2>1, <2>6, <2>8 DEF ChalkInv, ByesToTopSeeds
  <2> QED
    BY <2>1, <2>4, <2>9 DEF ChalkInv
<1> QED
  BY <1>1, <1>2 DEF ChalkNext

THEOREM ChalkHolds == ChalkSpec => []ChalkInv
<1> QED
  BY ChalkStart, ChalkStep, PTL DEF ChalkSpec

\* NeverStuck: whatever size the API accepts for a pool, until the final is
\* won there is a match to play.
THEOREM ChalkGoesOn == ChalkSpec => []NeverStuck
<1>1. ChalkInv => NeverStuck
  BY UndecidedIsPlayable DEF ChalkInv, NeverStuck
<1> QED
  BY <1>1, ChalkHolds, PTL

\* ByesToTopSeeds: the byes are as many as films are missing, and they go to
\* the best seeds, one each.
THEOREM ByesAreEarned == ChalkSpec => []ByesToTopSeeds
<1>1. ChalkInv => ByesToTopSeeds
  BY DEF ChalkInv
<1> QED
  BY <1>1, ChalkHolds, PTL
=============================================================================
