-------------------------- MODULE Fixtures_proofs --------------------------
(***************************************************************************)
(* For every even number of teams from four on, and every shuffle: each    *)
(* team plays exactly once in every week, no pairing is scheduled twice,   *)
(* and in the end every pair has met at home and away.                     *)
(***************************************************************************)
EXTENDS Fixtures, FiniteSetTheorems, TLAPS

\* The rotation permutes the wheel: no team is lost or doubled.
LEMMA RotateKeepsWheels ==
  ASSUME NEW w \in Wheels PROVE Rotate(w) \in Wheels
<1> USE HalfAssumption DEF N, Indices
<1> DEFINE from(i) == IF i = 0 THEN 0 ELSE IF i = 1 THEN N - 1 ELSE i - 1
           to(i)   == IF i = 0 THEN 0 ELSE IF i = N - 1 THEN 1 ELSE i + 1
<1>1. /\ w \in [Indices -> Teams]
      /\ \A i, j \in Indices : w[i] = w[j] => i = j
      /\ \A t \in Teams : \E i \in Indices : w[i] = t
  BY DEF Wheels
<1>2. \A i \in Indices : from(i) \in Indices /\ to(i) \in Indices /\ from(to(i)) = i
  OBVIOUS
<1>3. \A i, j \in Indices : from(i) = from(j) => i = j
  OBVIOUS
<1>4. \A i \in Indices : Rotate(w)[i] = w[from(i)]
  BY <1>1 DEF Rotate
<1>5. Rotate(w) \in [Indices -> Teams]
  BY <1>1 DEF Rotate
<1> HIDE DEF N, Indices, from, to
<1>6. \A i, j \in Indices : Rotate(w)[i] = Rotate(w)[j] => i = j
  BY <1>1, <1>2, <1>3, <1>4
<1>7. \A t \in Teams : \E i \in Indices : Rotate(w)[i] = t
  <2> SUFFICES ASSUME NEW t \in Teams PROVE \E i \in Indices : Rotate(w)[i] = t
    OBVIOUS
  <2>1. PICK i \in Indices : w[i] = t
    BY <1>1
  <2>2. to(i) \in Indices /\ Rotate(w)[to(i)] = t
    BY <1>2, <1>4, <2>1
  <2> QED BY <2>2
<1> QED BY <1>5, <1>6, <1>7 DEF Wheels

\* One team's only match in a set of matches.
PlaysOnce(fs, t) ==
  \E f \in fs : Plays(f, t) /\ \A g \in fs : Plays(g, t) => g = f

FirstLeg(w, r)  == {Match(r + 1, w[i], w[N - 1 - i]) : i \in 0..Half - 1}
SecondLeg(w, r) == {Match(r + 1 + Rounds, w[N - 1 - i], w[i]) : i \in 0..Half - 1}

\* A wheel pairs position i with position n-1-i: a team stands at one of them.
LEMMA Opposite ==
  ASSUME NEW w \in Wheels, NEW t \in Teams
  PROVE  \E i \in 0..Half - 1 :
           /\ w[i] = t \/ w[N - 1 - i] = t
           /\ \A j \in 0..Half - 1 : w[j] = t \/ w[N - 1 - j] = t => j = i
<1> USE HalfAssumption DEF N, Indices
<1>1. /\ \A i, j \in Indices : w[i] = w[j] => i = j
      /\ \A x \in Teams : \E i \in Indices : w[i] = x
  BY DEF Wheels
<1>2. PICK p \in Indices : w[p] = t
  BY <1>1
<1>3. \A j \in 0..Half - 1 : j \in Indices /\ N - 1 - j \in Indices
  OBVIOUS
<1>4. CASE p <= Half - 1
  <2>1. p \in 0..Half - 1
    BY <1>4
  <2>2. ASSUME NEW j \in 0..Half - 1, w[j] = t \/ w[N - 1 - j] = t PROVE j = p
    <3>1. j = p \/ N - 1 - j = p
      BY <1>1, <1>2, <1>3, <2>2
    <3> QED BY <3>1, <1>4
  <2> QED BY <1>2, <2>1, <2>2
<1>5. CASE ~(p <= Half - 1)
  <2> DEFINE q == N - 1 - p
  <2>1. q \in 0..Half - 1 /\ N - 1 - q = p
    BY <1>5
  <2>2. ASSUME NEW j \in 0..Half - 1, w[j] = t \/ w[N - 1 - j] = t PROVE j = q
    <3>1. j = p \/ N - 1 - j = p
      BY <1>1, <1>2, <1>3, <2>2
    <3> QED BY <3>1, <1>5
  <2> HIDE DEF q
  <2> QED BY <1>2, <2>1, <2>2
<1> QED BY <1>4, <1>5

\* Either leg of a round has every team exactly once, never against itself.
LEMMA LegsPairEveryTeam ==
  ASSUME NEW w \in Wheels, NEW r \in Nat
  PROVE  /\ \A t \in Teams : PlaysOnce(FirstLeg(w, r), t) /\ PlaysOnce(SecondLeg(w, r), t)
         /\ \A f \in FirstLeg(w, r) : /\ f.week = r + 1 /\ f.home # f.away
                                      /\ f.home \in Teams /\ f.away \in Teams
         /\ \A f \in SecondLeg(w, r) : /\ f.week = r + 1 + Rounds /\ f.home # f.away
                                       /\ f.home \in Teams /\ f.away \in Teams
<1>1. /\ w \in [Indices -> Teams]
      /\ \A i, j \in Indices : w[i] = w[j] => i = j
  BY DEF Wheels
<1>2. \A i \in 0..Half - 1 : /\ i \in Indices /\ N - 1 - i \in Indices
                             /\ i # N - 1 - i
  BY HalfAssumption DEF N, Indices
<1>3. \A i \in 0..Half - 1 : w[i] \in Teams /\ w[N - 1 - i] \in Teams /\ w[i] # w[N - 1 - i]
  BY <1>1, <1>2
<1>4. ASSUME NEW t \in Teams PROVE PlaysOnce(FirstLeg(w, r), t)
  <2>1. PICK i \in 0..Half - 1 :
          /\ w[i] = t \/ w[N - 1 - i] = t
          /\ \A j \in 0..Half - 1 : w[j] = t \/ w[N - 1 - j] = t => j = i
    BY Opposite
  <2> DEFINE f == Match(r + 1, w[i], w[N - 1 - i])
  <2>2. f \in FirstLeg(w, r) /\ Plays(f, t)
    BY <2>1 DEF FirstLeg, Plays, Match
  <2>3. ASSUME NEW g \in FirstLeg(w, r), Plays(g, t) PROVE g = f
    <3>1. PICK j \in 0..Half - 1 : g = Match(r + 1, w[j], w[N - 1 - j])
      BY DEF FirstLeg
    <3>2. w[j] = t \/ w[N - 1 - j] = t
      BY <2>3, <3>1 DEF Plays, Match
    <3> QED BY <2>1, <3>1, <3>2
  <2> QED BY <2>2, <2>3 DEF PlaysOnce
<1>5. ASSUME NEW t \in Teams PROVE PlaysOnce(SecondLeg(w, r), t)
  <2>1. PICK i \in 0..Half - 1 :
          /\ w[i] = t \/ w[N - 1 - i] = t
          /\ \A j \in 0..Half - 1 : w[j] = t \/ w[N - 1 - j] = t => j = i
    BY Opposite
  <2> DEFINE f == Match(r + 1 + Rounds, w[N - 1 - i], w[i])
  <2>2. f \in SecondLeg(w, r) /\ Plays(f, t)
    BY <2>1 DEF SecondLeg, Plays, Match
  <2>3. ASSUME NEW g \in SecondLeg(w, r), Plays(g, t) PROVE g = f
    <3>1. PICK j \in 0..Half - 1 : g = Match(r + 1 + Rounds, w[N - 1 - j], w[j])
      BY DEF SecondLeg
    <3>2. w[j] = t \/ w[N - 1 - j] = t
      BY <2>3, <3>1 DEF Plays, Match
    <3> QED BY <2>1, <3>1, <3>2
  <2> QED BY <2>2, <2>3 DEF PlaysOnce
<1>6. ASSUME NEW f \in FirstLeg(w, r)
      PROVE  /\ f.week = r + 1 /\ f.home # f.away
             /\ f.home \in Teams /\ f.away \in Teams
  <2>1. PICK i \in 0..Half - 1 : f = Match(r + 1, w[i], w[N - 1 - i])
    BY DEF FirstLeg
  <2> QED BY <1>3, <2>1 DEF Match
<1>7. ASSUME NEW f \in SecondLeg(w, r)
      PROVE  /\ f.week = r + 1 + Rounds /\ f.home # f.away
             /\ f.home \in Teams /\ f.away \in Teams
  <2>1. PICK i \in 0..Half - 1 : f = Match(r + 1 + Rounds, w[N - 1 - i], w[i])
    BY DEF SecondLeg
  <2> QED BY <1>3, <2>1 DEF Match
<1> QED BY <1>4, <1>5, <1>6, <1>7

\* The schedule so far, and the wheel that the next round uses.
Inv == TypeOK /\ OnceAWeek

\* A round fills its two weeks and leaves the others as they were.
LEMMA RoundKeepsInv ==
  ASSUME Inv, Round PROVE Inv'
<1>1. /\ wheel \in Wheels /\ round \in 0..Rounds /\ round < Rounds
      /\ fixtures' = fixtures \cup RoundMatches(wheel, round)
      /\ wheel' = Rotate(wheel) /\ round' = round + 1
  BY DEF Inv, TypeOK, Round
<1>2. round \in Nat /\ Rounds \in Nat /\ round + 1 \in 1..Rounds
  BY <1>1, HalfAssumption DEF Rounds, N
<1> DEFINE one == FirstLeg(wheel, round)
           two == SecondLeg(wheel, round)
<1>3. /\ \A t \in Teams : PlaysOnce(one, t) /\ PlaysOnce(two, t)
      /\ \A f \in one : /\ f.week = round + 1 /\ f.home # f.away
                        /\ f.home \in Teams /\ f.away \in Teams
      /\ \A f \in two : /\ f.week = round + 1 + Rounds /\ f.home # f.away
                        /\ f.home \in Teams /\ f.away \in Teams
  BY <1>1, <1>2, LegsPairEveryTeam
<1>4. fixtures' = fixtures \cup one \cup two
  BY <1>1 DEF RoundMatches, FirstLeg, SecondLeg
<1> HIDE DEF one, two
<1>5. TypeOK'
  <2>1. wheel' \in Wheels
    BY <1>1, RotateKeepsWheels
  <2>2. \A f \in fixtures' : f.week \in 1..2 * Rounds /\ f.home \in Teams /\ f.away \in Teams
    BY <1>2, <1>3, <1>4 DEF Inv, TypeOK
  <2> QED BY <1>1, <1>2, <2>1, <2>2 DEF TypeOK
<1>6. /\ \A w \in WeeksFilled(round') :
           w \in WeeksFilled(round) \/ w = round + 1 \/ w = round + 1 + Rounds
      /\ WeeksFilled(round) \subseteq WeeksFilled(round')
      /\ round + 1 \in WeeksFilled(round') /\ round + 1 + Rounds \in WeeksFilled(round')
      /\ round + 1 \notin WeeksFilled(round) /\ round + 1 + Rounds \notin WeeksFilled(round)
  BY <1>1, <1>2 DEF WeeksFilled
<1>7. \A f \in fixtures' : f.home # f.away /\ f.week \in WeeksFilled(round')
  BY <1>3, <1>4, <1>6 DEF Inv, OnceAWeek
<1>8. ASSUME NEW w \in WeeksFilled(round'), NEW t \in Teams
      PROVE  \E f \in fixtures' :
               /\ f.week = w /\ Plays(f, t)
               /\ \A g \in fixtures' : g.week = w /\ Plays(g, t) => g = f
  <2>1. CASE w \in WeeksFilled(round)
    <3>1. \A f \in one \cup two : f.week # w
      BY <1>3, <1>6, <2>1
    <3>2. PICK f \in fixtures : /\ f.week = w /\ Plays(f, t)
                                /\ \A g \in fixtures : g.week = w /\ Plays(g, t) => g = f
      BY <2>1 DEF Inv, OnceAWeek
    <3> QED BY <1>4, <3>1, <3>2
  <2>2. CASE w = round + 1
    <3>1. \A f \in fixtures \cup two : f.week # w
      BY <1>2, <1>3, <1>6, <2>2 DEF Inv, OnceAWeek
    <3>2. PICK f \in one : Plays(f, t) /\ \A g \in one : Plays(g, t) => g = f
      BY <1>3 DEF PlaysOnce
    <3> QED BY <1>3, <1>4, <2>2, <3>1, <3>2
  <2>3. CASE w = round + 1 + Rounds
    <3>1. \A f \in fixtures \cup one : f.week # w
      <4>1. Rounds > 0
        BY HalfAssumption DEF Rounds, N
      <4> QED BY <1>2, <1>3, <1>6, <2>3, <4>1 DEF Inv, OnceAWeek
    <3>2. PICK f \in two : Plays(f, t) /\ \A g \in two : Plays(g, t) => g = f
      BY <1>3 DEF PlaysOnce
    <3> QED BY <1>3, <1>4, <2>3, <3>1, <3>2
  <2> QED BY <1>6, <2>1, <2>2, <2>3
<1> QED BY <1>5, <1>7, <1>8 DEF Inv, OnceAWeek

\* Before the first round no week is filled.
LEMMA InitInv == Init => Inv
<1> SUFFICES ASSUME Init PROVE Inv
  OBVIOUS
<1>1. 0 \in 0..Rounds /\ Rounds \in Nat
  BY HalfAssumption DEF Rounds, N
<1>2. WeeksFilled(0) = {}
  BY <1>1 DEF WeeksFilled
<1> QED BY <1>1, <1>2 DEF Init, Inv, TypeOK, OnceAWeek

\* For every number of teams and every shuffle, every team plays exactly one
\* match in every week of the schedule, never against itself (generator.go).
THEOREM EveryTeamOnceAWeek == Spec => [](TypeOK /\ OnceAWeek)
<1>1. Init => Inv
  BY InitInv
<1>2. Inv /\ [Next]_vars => Inv'
  <2> SUFFICES ASSUME Inv, [Next]_vars PROVE Inv'
    OBVIOUS
  <2>1. CASE Round
    BY <2>1, RoundKeepsInv
  <2>2. CASE UNCHANGED vars
    BY <2>2 DEF vars, Inv, TypeOK, OnceAWeek
  <2> QED BY <2>1, <2>2 DEF Next, Generated
<1> QED BY <1>1, <1>2, PTL DEF Spec, Inv

(***************************************************************************)
(* Who meets whom in which round.                                          *)
(***************************************************************************)

\* Where the team that stands at position i after r rotations stood at first.
Source(r, i) == IF i = 0 THEN 0 ELSE IF i > r THEN i - r ELSE i - r + (N - 1)

Turned(w, r) == [i \in Indices |-> w[Source(r, i)]]

\* The match of the round in which the team at position p is at home.
Meeting(w, r, p) ==
  Match(IF p < Half THEN r + 1 ELSE r + 1 + Rounds, w[p], w[N - 1 - p])

\* One more rotation.
LEMMA TurnOnce ==
  ASSUME NEW w \in Wheels, NEW r \in 0..Rounds - 1
  PROVE  Rotate(Turned(w, r)) = Turned(w, r + 1)
<1> USE HalfAssumption DEF N, Rounds, Indices
<1>1. \A i \in Indices :
        Source(r + 1, i) = IF i = 0 THEN Source(r, 0)
                           ELSE IF i = 1 THEN Source(r, N - 1) ELSE Source(r, i - 1)
  BY DEF Source
<1>2. \A i \in Indices : i # 0 => i - 1 \in Indices
  OBVIOUS
<1>3. 0 \in Indices /\ N - 1 \in Indices
  OBVIOUS
<1> HIDE DEF N, Rounds, Indices
<1> QED BY <1>1, <1>2, <1>3 DEF Rotate, Turned

\* No rotation at all.
LEMMA TurnNot ==
  ASSUME NEW w \in Wheels PROVE Turned(w, 0) = w
<1>1. \A i \in Indices : Source(0, i) = i
  BY HalfAssumption DEF Source, Indices, N
<1> QED BY <1>1 DEF Turned, Wheels

\* A round has, for every position, the match that its team plays at home.
LEMMA RoundMeetings ==
  ASSUME NEW w, NEW r \in Nat
  PROVE  RoundMatches(w, r) = {Meeting(w, r, p) : p \in Indices}
<1> USE HalfAssumption DEF N, Indices
<1>1. ASSUME NEW i \in 0..Half - 1
      PROVE  /\ i \in Indices /\ N - 1 - i \in Indices
             /\ Meeting(w, r, i) = Match(r + 1, w[i], w[N - 1 - i])
             /\ Meeting(w, r, N - 1 - i) = Match(r + 1 + Rounds, w[N - 1 - i], w[i])
  BY DEF Meeting
<1>2. \A p \in Indices : p \in 0..Half - 1 \/ N - 1 - p \in 0..Half - 1
  OBVIOUS
<1>3. \A p \in Indices : N - 1 - (N - 1 - p) = p
  OBVIOUS
<1> HIDE DEF N, Indices
<1> QED BY <1>1, <1>2, <1>3 DEF RoundMatches

\* Two positions that hold the same two teams in two rounds are the same
\* positions of the same round: n - 1 is odd.
LEMMA MeetAtMostOnce ==
  ASSUME NEW r \in 0..Rounds - 1, NEW s \in 0..Rounds - 1,
         NEW p \in Indices, NEW q \in Indices,
         Source(r, p) = Source(s, q), Source(r, N - 1 - p) = Source(s, N - 1 - q)
  PROVE  r = s /\ p = q
BY HalfAssumption DEF Source, N, Rounds, Indices

\* Any two teams stand opposite each other in some round.
LEMMA MeetAtLeastOnce ==
  ASSUME NEW k \in Indices, NEW l \in Indices, k # l
  PROVE  \E r \in 0..Rounds - 1, p \in Indices :
           Source(r, p) = k /\ Source(r, N - 1 - p) = l
<1> USE HalfAssumption DEF N, Rounds, Indices
<1>1. CASE k = 0
  <2>1. N - 1 - l \in 0..Rounds - 1 /\ 0 \in Indices
        /\ Source(N - 1 - l, 0) = k /\ Source(N - 1 - l, N - 1 - 0) = l
    BY <1>1 DEF Source
  <2> QED BY <2>1
<1>2. CASE l = 0
  <2>1. N - 1 - k \in 0..Rounds - 1 /\ N - 1 \in Indices
        /\ Source(N - 1 - k, N - 1) = k /\ Source(N - 1 - k, N - 1 - (N - 1)) = l
    BY <1>2 DEF Source
  <2> QED BY <2>1
<1>3. ASSUME NEW c \in {1, 2, 3}, NEW r \in 0..Rounds - 1, k > 0, l > 0,
             k + l + 2 * r = c * (N - 1),
             k < N - 1 + l, l < N - 1 + k
      PROVE  \E p \in Indices : Source(r, p) = k /\ Source(r, N - 1 - p) = l
  <2> DEFINE p == IF k + r <= N - 1 THEN k + r ELSE k + r - (N - 1)
  <2>1. p \in Indices /\ Source(r, p) = k /\ Source(r, N - 1 - p) = l
    <3>1. CASE c = 1
      BY <1>3, <3>1 DEF Source
    <3>2. CASE c = 2
      BY <1>3, <3>2 DEF Source
    <3>3. CASE c = 3
      BY <1>3, <3>3 DEF Source
    <3> QED BY <3>1, <3>2, <3>3
  <2> QED BY <2>1
<1>4. CASE k > 0 /\ l > 0
  <2>1. \E c \in {1, 2, 3} : \E r \in 0..Rounds - 1 : k + l + 2 * r = c * (N - 1)
    <3>1. \E h \in Int : k + l = 2 * h \/ k + l = 2 * h + 1
      <4>1. (k + l) \div 2 \in Int
            /\ (k + l = 2 * ((k + l) \div 2) \/ k + l = 2 * ((k + l) \div 2) + 1)
        OBVIOUS
      <4> QED BY <4>1
    <3>2. PICK h \in Int : k + l = 2 * h \/ k + l = 2 * h + 1
      BY <3>1
    <3>3. CASE k + l = 2 * h
      <4>1. N - 1 - h \in 0..Rounds - 1 /\ k + l + 2 * (N - 1 - h) = 2 * (N - 1)
        BY <1>4, <3>3
      <4> QED BY <4>1
    <3>4. CASE k + l = 2 * h + 1 /\ h < Half
      <4>1. Half - 1 - h \in 0..Rounds - 1 /\ k + l + 2 * (Half - 1 - h) = 1 * (N - 1)
        BY <1>4, <3>4
      <4> QED BY <4>1
    <3>5. CASE k + l = 2 * h + 1 /\ h >= Half
      <4>1. 3 * Half - 2 - h \in 0..Rounds - 1 /\ k + l + 2 * (3 * Half - 2 - h) = 3 * (N - 1)
        BY <1>4, <3>5
      <4> QED BY <4>1
    <3> QED BY <3>2, <3>3, <3>4, <3>5
  <2>2. k < N - 1 + l /\ l < N - 1 + k
    BY <1>4
  <2> QED BY <1>3, <1>4, <2>1, <2>2
<1> QED BY <1>1, <1>2, <1>4

(***************************************************************************)
(* The schedule: the meetings of the rounds so far.                        *)
(***************************************************************************)

\* The matches of the first n rounds from the wheel w.
Schedule(w, n) == UNION {RoundMatches(Turned(w, r), r) : r \in 0..n - 1}

\* What the loop has done, in closed form.
Unrolled ==
  /\ round \in 0..Rounds
  /\ \E w \in Wheels : wheel = Turned(w, round) /\ fixtures = Schedule(w, round)

LEMMA InitUnrolled == Init => Unrolled
<1> SUFFICES ASSUME Init PROVE Unrolled
  OBVIOUS
<1>1. wheel = Turned(wheel, 0)
  BY TurnNot DEF Init
<1>2. Schedule(wheel, 0) = {}
  BY DEF Schedule
<1>3. 0 \in 0..Rounds
  BY HalfAssumption DEF Rounds, N
<1> QED BY <1>1, <1>2, <1>3 DEF Init, Unrolled

LEMMA RoundUnrolled == ASSUME Unrolled, Round PROVE Unrolled'
<1>1. PICK w \in Wheels : wheel = Turned(w, round) /\ fixtures = Schedule(w, round)
  BY DEF Unrolled
<1>2. round \in 0..Rounds - 1 /\ Rounds \in Nat
  BY HalfAssumption DEF Unrolled, Round, Rounds, N
<1>3. wheel' = Turned(w, round + 1)
  BY <1>1, <1>2, TurnOnce DEF Round
<1>4. Schedule(w, round + 1) = Schedule(w, round) \cup RoundMatches(Turned(w, round), round)
  <2>1. 0..(round + 1) - 1 = (0..round - 1) \cup {round}
    BY <1>2
  <2> QED BY <2>1 DEF Schedule
<1>5. round' = round + 1 /\ round' \in 0..Rounds
  BY <1>2 DEF Round
<1> QED BY <1>1, <1>3, <1>4, <1>5 DEF Round, Unrolled

\* The loop always is what its closed form says.
THEOREM LoopUnrolled == Spec => []Unrolled
<1>1. Unrolled /\ [Next]_vars => Unrolled'
  <2> SUFFICES ASSUME Unrolled, [Next]_vars PROVE Unrolled'
    OBVIOUS
  <2>1. CASE UNCHANGED vars
    BY <2>1 DEF vars, Unrolled
  <2> QED BY <2>1, RoundUnrolled DEF Next, Generated
<1> QED BY <1>1, InitUnrolled, PTL DEF Spec

\* A match of the schedule is the meeting of some round and position.
LEMMA ScheduledMeeting ==
  ASSUME NEW w \in Wheels, NEW n \in 0..Rounds, NEW f \in Schedule(w, n)
  PROVE  \E r \in 0..n - 1, p \in Indices :
           /\ f = Meeting(Turned(w, r), r, p)
           /\ f.home = w[Source(r, p)] /\ f.away = w[Source(r, N - 1 - p)]
           /\ Source(r, p) \in Indices /\ Source(r, N - 1 - p) \in Indices
<1>1. PICK r \in 0..n - 1 : f \in RoundMatches(Turned(w, r), r)
  BY DEF Schedule
<1>2. r \in Nat /\ r \in 0..Rounds - 1
  BY HalfAssumption DEF Rounds, N
<1>3. PICK p \in Indices : f = Meeting(Turned(w, r), r, p)
  BY <1>1, <1>2, RoundMeetings
<1>4. N - 1 - p \in Indices
  BY HalfAssumption DEF Indices, N
<1>5. Source(r, p) \in Indices /\ Source(r, N - 1 - p) \in Indices
  BY <1>2, <1>4, HalfAssumption DEF Source, Indices, N, Rounds
<1>6. f.home = Turned(w, r)[p] /\ f.away = Turned(w, r)[N - 1 - p]
  BY <1>3 DEF Meeting, Match
<1> QED BY <1>1, <1>3, <1>4, <1>5, <1>6 DEF Turned

\* The rounds append a row for every position, and no two of them are the same.
LEMMA UnrolledRowsDistinct == Unrolled => RowsDistinct
<1> SUFFICES ASSUME Unrolled PROVE RowsDistinct
  OBVIOUS
<1>1. PICK w \in Wheels : fixtures = Schedule(w, round)
  BY DEF Unrolled
<1>2. /\ round \in Nat /\ N \in Nat /\ 0..round - 1 \subseteq 0..Rounds - 1
      /\ 0..Rounds - 1 \subseteq Nat
      /\ \A p \in Indices : N - 1 - p \in Indices
      /\ \A r \in 0..Rounds - 1, p \in Indices : Source(r, p) \in Indices
  BY HalfAssumption DEF Unrolled, Indices, N, Rounds, Source
<1> DEFINE seats  == (0..round - 1) \X Indices
           row(s) == Meeting(Turned(w, s[1]), s[1], s[2])
           rows   == [s \in seats |-> row(s)]
<1>3. \A s \in seats : s[1] \in 0..round - 1 /\ s[2] \in Indices /\ s = <<s[1], s[2]>>
  OBVIOUS
<1>4. fixtures = {row(s) : s \in seats}
  <2>1. \A r \in 0..round - 1 :
          RoundMatches(Turned(w, r), r) = {Meeting(Turned(w, r), r, p) : p \in Indices}
    BY <1>2, RoundMeetings
  <2>2. fixtures = UNION {{Meeting(Turned(w, r), r, p) : p \in Indices} : r \in 0..round - 1}
    BY <1>1, <2>1 DEF Schedule
  <2>3. ASSUME NEW f \in fixtures PROVE \E s \in seats : f = row(s)
    <3>1. PICK r \in 0..round - 1, p \in Indices : f = Meeting(Turned(w, r), r, p)
      BY <2>2
    <3>2. <<r, p>> \in seats /\ f = row(<<r, p>>)
      BY <3>1
    <3> QED BY <3>2
  <2>4. ASSUME NEW s \in seats PROVE row(s) \in fixtures
    BY <1>3, <2>2
  <2> QED BY <2>3, <2>4
<1>5. ASSUME NEW s \in seats, NEW t \in seats, row(s) = row(t) PROVE s = t
  <2>1. \A r \in 0..Rounds - 1, p \in Indices :
          LET m == Meeting(Turned(w, r), r, p)
          IN  m.home = w[Source(r, p)] /\ m.away = w[Source(r, N - 1 - p)]
    BY <1>2 DEF Meeting, Match, Turned
  <2>2. /\ s[1] \in 0..Rounds - 1 /\ s[2] \in Indices
        /\ t[1] \in 0..Rounds - 1 /\ t[2] \in Indices
    BY <1>2, <1>3
  <2>3. /\ w[Source(s[1], s[2])] = w[Source(t[1], t[2])]
        /\ w[Source(s[1], N - 1 - s[2])] = w[Source(t[1], N - 1 - t[2])]
    BY <1>5, <2>1, <2>2
  <2>4. /\ Source(s[1], s[2]) = Source(t[1], t[2])
        /\ Source(s[1], N - 1 - s[2]) = Source(t[1], N - 1 - t[2])
    BY <1>2, <2>2, <2>3 DEF Wheels
  <2>5. s[1] = t[1] /\ s[2] = t[2]
    BY <2>2, <2>4, MeetAtMostOnce
  <2> QED BY <1>3, <2>5
<1>6. IsFiniteSet(seats) /\ Cardinality(seats) = N * round
  <2>1. IsFiniteSet(0..round - 1) /\ Cardinality(0..round - 1) = round
    BY <1>2, FS_Interval
  <2>2. IsFiniteSet(Indices) /\ Cardinality(Indices) = N
    BY <1>2, FS_Interval DEF Indices
  <2>3. /\ IsFiniteSet(seats)
        /\ Cardinality(seats) = Cardinality(0..round - 1) * Cardinality(Indices)
    BY <2>1, <2>2, FS_Product
  <2>4. round * N = N * round
    BY <1>2
  <2> QED BY <2>1, <2>2, <2>3, <2>4
<1> HIDE DEF seats, row
<1>7. rows \in Surjection(seats, fixtures) /\ rows \in Injection(seats, fixtures)
  BY <1>4, <1>5 DEF Surjection, Injection, IsInjective
<1>8. Cardinality(fixtures) = Cardinality(seats)
  BY <1>6, <1>7, FS_Surjection
<1> QED BY <1>6, <1>8 DEF RowsDistinct

\* No pairing with the same home side is scheduled twice.
LEMMA UnrolledPairsOnce == Unrolled => NoPairTwice
<1> SUFFICES ASSUME Unrolled, NEW f \in fixtures, NEW g \in fixtures,
                    f.home = g.home, f.away = g.away
             PROVE  f = g
  BY UnrolledRowsDistinct DEF NoPairTwice
<1>1. PICK w \in Wheels : fixtures = Schedule(w, round)
  BY DEF Unrolled
<1>2. PICK r \in 0..round - 1, p \in Indices :
        /\ f = Meeting(Turned(w, r), r, p)
        /\ f.home = w[Source(r, p)] /\ f.away = w[Source(r, N - 1 - p)]
        /\ Source(r, p) \in Indices /\ Source(r, N - 1 - p) \in Indices
  BY <1>1, ScheduledMeeting DEF Unrolled
<1>3. PICK s \in 0..round - 1, q \in Indices :
        /\ g = Meeting(Turned(w, s), s, q)
        /\ g.home = w[Source(s, q)] /\ g.away = w[Source(s, N - 1 - q)]
        /\ Source(s, q) \in Indices /\ Source(s, N - 1 - q) \in Indices
  BY <1>1, ScheduledMeeting DEF Unrolled
<1>4. Source(r, p) = Source(s, q) /\ Source(r, N - 1 - p) = Source(s, N - 1 - q)
  BY <1>2, <1>3 DEF Wheels
<1>5. r \in 0..Rounds - 1 /\ s \in 0..Rounds - 1
  BY HalfAssumption DEF Unrolled, Rounds, N
<1>6. r = s /\ p = q
  BY <1>4, <1>5, MeetAtMostOnce
<1> QED BY <1>2, <1>3, <1>6

\* When all the rounds are done every pair has met twice.
LEMMA UnrolledPairsTwice == Unrolled => DoubleRoundRobin
<1> SUFFICES ASSUME Unrolled, round = Rounds, NEW a \in Teams, NEW b \in Teams, a # b
             PROVE  \E f, g \in fixtures :
                      /\ f.home = a /\ f.away = b
                      /\ g.home = b /\ g.away = a
                      /\ g.week = f.week + Rounds \/ f.week = g.week + Rounds
  BY DEF DoubleRoundRobin
<1>1. PICK w \in Wheels : fixtures = Schedule(w, Rounds)
  BY DEF Unrolled
<1>2. PICK k \in Indices, l \in Indices : w[k] = a /\ w[l] = b
  BY DEF Wheels
<1>3. PICK r \in 0..Rounds - 1, p \in Indices :
        Source(r, p) = k /\ Source(r, N - 1 - p) = l
  BY <1>2, MeetAtLeastOnce
<1> DEFINE q == N - 1 - p
           f == Meeting(Turned(w, r), r, p)
           g == Meeting(Turned(w, r), r, q)
<1>4. q \in Indices /\ N - 1 - q = p /\ r \in Nat /\ Rounds \in Nat
  BY HalfAssumption DEF Indices, N, Rounds
<1>5. p < Half <=> ~(q < Half)
  BY HalfAssumption DEF Indices, N
<1>6. Turned(w, r)[p] = a /\ Turned(w, r)[q] = b
  BY <1>2, <1>3, <1>4 DEF Turned
<1>7. f \in fixtures /\ g \in fixtures
  <2> HIDE DEF q
  <2>1. f \in RoundMatches(Turned(w, r), r) /\ g \in RoundMatches(Turned(w, r), r)
    BY <1>4, RoundMeetings
  <2> HIDE DEF f, g
  <2> QED BY <1>1, <2>1 DEF Schedule
<1>8. /\ f.home = a /\ f.away = b /\ g.home = b /\ g.away = a
      /\ f.week = IF p < Half THEN r + 1 ELSE r + 1 + Rounds
      /\ g.week = IF q < Half THEN r + 1 ELSE r + 1 + Rounds
  <2> HIDE DEF q
  <2> QED BY <1>4, <1>6 DEF Meeting, Match, q
<1>9. g.week = f.week + Rounds \/ f.week = g.week + Rounds
  <2> HIDE DEF f, g, q
  <2> QED BY <1>4, <1>5, <1>8
<1> QED BY <1>7, <1>8, <1>9

\* For every number of teams and every shuffle no row is generated twice, and no
\* pairing in two weeks (schema.sql, generator.go).
THEOREM NoPairingTwice == Spec => []NoPairTwice
BY LoopUnrolled, UnrolledPairsOnce, PTL

\* For every number of teams and every shuffle the finished schedule is a
\* double round-robin (generator.go).
THEOREM EveryPairMeetsTwice == Spec => []DoubleRoundRobin
BY LoopUnrolled, UnrolledPairsTwice, PTL

\* The wheel never loses a team and no match is outside the season.
THEOREM ScheduleTypeCorrect == Spec => []TypeOK
<1>1. TypeOK /\ OnceAWeek => TypeOK
  OBVIOUS
<1> QED BY <1>1, EveryTeamOnceAWeek, PTL

=============================================================================
