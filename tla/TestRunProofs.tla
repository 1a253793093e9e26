--------------------------- MODULE TestRunProofs ---------------------------
(***************************************************************************)
(* Proofs about TestRun, for every set of configurations, programs and     *)
(* faults, and every capacity of the pipe.                                 *)
(***************************************************************************)
EXTENDS TestRun, InductionOnNat, FiniteSetTheorems, TLAPS

-----------------------------------------------------------------------------
(* The loop of parse_testcase.  FoldLeft of the library is an iteration    *)
(* over sets of positions; by induction it exists, and it goes through the *)
(* sections one by one.                                                    *)

Start == [info |-> <<>>, slot |-> Blank, auto |-> 0, manual |-> 0]

\* g is the iteration of MapThenFoldSet, the library's fold, over the first n sections of c.
Iterates(g, c, n) ==
  g = [set \in SUBSET (1 .. n) |->
         IF set = {} THEN Start ELSE Step(g[set \ {Max(set)}], c[Max(set)])]

LEMMA ParseIsIteration ==
  ASSUME NEW c
  PROVE  parse_testcase(c) =
           LET iter[set \in SUBSET DOMAIN c] ==
                 IF set = {} THEN Start ELSE Step(iter[set \ {Max(set)}], c[Max(set)])
           IN iter[DOMAIN c]
BY DEF parse_testcase, FoldLeft, MapThenFoldSet, Start

LEMMA MaxOfSet ==
  ASSUME NEW n \in Nat, NEW set \in SUBSET (1 .. n), set # {}
  PROVE  Max(set) \in set /\ \A x \in set : x <= Max(set)
<1>1. PICK k \in set : \A l \in set : l <= k
  <2>1. set \subseteq 0 .. n
    OBVIOUS
  <2> QED
    BY <2>1, GreatestNumber
<1>2. \A l \in set : k >= l
  BY <1>1
<1>3. Max(set) \in set /\ \A l \in set : Max(set) >= l
  BY <1>2 DEF Max
<1> QED
  BY <1>3

LEMMA IterationExists ==
  ASSUME NEW c, NEW m \in Nat
  PROVE  \E g : Iterates(g, c, m)
<1> DEFINE S == {n \in 0 .. m : \E g : Iterates(g, c, n)}
<1>1. 0 \in S
  <2> DEFINE g == [set \in {{}} |-> Start]
  <2>1. SUBSET (1 .. 0) = {{}}
    OBVIOUS
  <2>2. g = [set \in SUBSET (1 .. 0) |->
               IF set = {} THEN Start ELSE Step(g[set \ {Max(set)}], c[Max(set)])]
    BY <2>1
  <2>3. Iterates(g, c, 0)
    BY <2>2 DEF Iterates
  <2> HIDE DEF g
  <2> QED
    BY <2>3
<1>2. ASSUME NEW n \in 0 .. m - 1, n \in S PROVE n + 1 \in S
  <2>1. PICK g : Iterates(g, c, n)
    BY <1>2
  <2> DEFINE Larger(set) == n + 1 \in set
             h == [set \in SUBSET (1 .. n + 1) |->
                     IF Larger(set) THEN Step(g[set \ {n + 1}], c[n + 1]) ELSE g[set]]
  <2>2. ASSUME NEW set \in SUBSET (1 .. n + 1)
        PROVE  h[set] = IF set = {} THEN Start ELSE Step(h[set \ {Max(set)}], c[Max(set)])
    <3>1. CASE Larger(set)
      <4>1. n + 1 \in set /\ set # {} /\ Max(set) = n + 1
        <5>1. n + 1 \in Nat /\ set # {}
          BY <3>1
        <5>2. Max(set) \in set /\ \A x \in set : x <= Max(set)
          BY <5>1, <2>2, MaxOfSet
        <5>3. \A x \in set : x \in Nat /\ x <= n + 1
          OBVIOUS
        <5>4. n + 1 <= Max(set) /\ Max(set) <= n + 1 /\ Max(set) \in Nat
          BY <5>2, <5>3, <3>1
        <5> QED
          BY <5>1, <5>4, <3>1
      <4>2. set \ {n + 1} \in SUBSET (1 .. n) /\ set \ {n + 1} \in SUBSET (1 .. n + 1)
            /\ ~Larger(set \ {n + 1})
        OBVIOUS
      <4>3. h[set \ {n + 1}] = g[set \ {n + 1}]
        BY <4>2
      <4>4. h[set] = Step(g[set \ {n + 1}], c[n + 1])
        BY <3>1
      <4> QED
        BY <4>1, <4>3, <4>4
    <3>2. CASE ~Larger(set)
      <4>1. set \in SUBSET (1 .. n)
        BY <3>2
      <4>2. g[set] = IF set = {} THEN Start ELSE Step(g[set \ {Max(set)}], c[Max(set)])
        BY <2>1, <4>1 DEF Iterates
      <4>3. h[set] = g[set]
        BY <3>2
      <4>4. set # {} => h[set \ {Max(set)}] = g[set \ {Max(set)}]
        BY <3>2
      <4> QED
        BY <4>2, <4>3, <4>4
    <3> QED
      BY <3>1, <3>2
  <2>3. Iterates(h, c, n + 1)
    <3> SUFFICES h = [set \in SUBSET (1 .. n + 1) |->
                        IF set = {} THEN Start ELSE Step(h[set \ {Max(set)}], c[Max(set)])]
      BY DEF Iterates
    <3>1. h = [set \in SUBSET (1 .. n + 1) |-> h[set]]
      OBVIOUS
    <3> HIDE DEF h
    <3> QED
      BY <3>1, <2>2
  <2> QED
    BY <2>3
<1> HIDE DEF S
<1>3. m \in S
  BY <1>1, <1>2, InductionUpTo
<1> QED
  BY <1>3 DEF S

\* parse_testcase, section by section: t[n] is what it has after n sections.
Parsing(t, c) ==
  /\ t[0] = Start
  /\ \A n \in 1 .. Len(c) : t[n] = Step(t[n - 1], c[n])
  /\ parse_testcase(c) = t[Len(c)]

LEMMA ParseBySection ==
  ASSUME NEW c \in Seq(Sections)
  PROVE  \E t : Parsing(t, c)
<1> DEFINE m == Len(c)
           Iter == CHOOSE g : Iterates(g, c, m)
           t == [n \in 0 .. m |-> Iter[1 .. n]]
<1>1. m \in Nat /\ DOMAIN c = 1 .. m
  OBVIOUS
<1>2. Iterates(Iter, c, m)
  BY <1>1, IterationExists
<1>3. parse_testcase(c) = Iter[1 .. m]
  BY <1>1, ParseIsIteration DEF Iterates
<1> HIDE DEF Iter, m
<1>4. \A set \in SUBSET (1 .. m) :
        Iter[set] = IF set = {} THEN Start ELSE Step(Iter[set \ {Max(set)}], c[Max(set)])
  <2> DEFINE f == [set \in SUBSET (1 .. m) |->
                     IF set = {} THEN Start ELSE Step(Iter[set \ {Max(set)}], c[Max(set)])]
  <2>1. Iter = f
    BY <1>2 DEF Iterates
  <2>2. \A set \in SUBSET (1 .. m) :
          f[set] = IF set = {} THEN Start ELSE Step(Iter[set \ {Max(set)}], c[Max(set)])
    OBVIOUS
  <2> HIDE DEF f
  <2> QED
    BY <2>1, <2>2
<1>5. t[0] = Start
  <2>1. 1 .. 0 = {} /\ {} \in SUBSET (1 .. m) /\ 0 \in 0 .. m
    BY <1>1
  <2>2. t[0] = Iter[{}]
    BY <2>1
  <2> QED
    BY <1>4, <2>1, <2>2
<1>6. ASSUME NEW n \in 1 .. m PROVE t[n] = Step(t[n - 1], c[n])
  <2> DEFINE set == 1 .. n
  <2>1. set \in SUBSET (1 .. m) /\ set # {} /\ n \in 0 .. m /\ n - 1 \in 0 .. m /\ n \in Nat
    BY <1>1
  <2>2. Max(set) = n
    <3>1. Max(set) \in set /\ \A x \in set : x <= Max(set)
      BY <2>1, MaxOfSet
    <3> QED
      BY <3>1, <2>1
  <2>3. set \ {n} = 1 .. n - 1
    BY <1>1
  <2>4. Iter[set] = Step(Iter[set \ {Max(set)}], c[Max(set)])
    BY <1>4, <2>1
  <2> QED
    BY <2>1, <2>2, <2>3, <2>4
<1>7. t[m] = Iter[1 .. m]
  BY <1>1
<1> QED
  BY <1>3, <1>5, <1>6, <1>7 DEF Parsing, m

-----------------------------------------------------------------------------
(* The table that parse_testcase builds.                                   *)

Parsed == [info : Seq(Entry), slot : Entry, auto : Nat, manual : Nat]

LEMMA BlankType == Blank \in Entry
BY ConfigsAssumption DEF Blank, Entry, AUTO, WAIT

LEMMA FilledType ==
  ASSUME NEW e \in Entry, NEW s \in Sections
  PROVE  Filled(e, s) \in Entry
BY DEF Filled, Fetch, Entry, Sections

\* A round of the loop is one of three things.
Passed(acc, s) == ~Active(s) /\ Step(acc, s) = acc

Listed(acc, s) ==
  /\ Active(s) /\ ~(IsManual(s) /\ s.name = tp)
  /\ Step(acc, s) =
       [info   |-> Append(acc.info, Filled(acc.slot, s)),
        slot   |-> Blank,
        auto   |-> acc.auto + (IF s.category = AUTO THEN 1 ELSE 0),
        manual |-> acc.manual + (IF IsManual(s) THEN 1 ELSE 0)]

LeftInSlot(acc, s) ==
  /\ Active(s) /\ IsManual(s) /\ s.name = tp
  /\ Step(acc, s) =
       [info   |-> acc.info,
        slot   |-> [Filled(acc.slot, s) EXCEPT !.run_type = acc.slot.run_type],
        auto   |-> acc.auto,
        manual |-> acc.manual]

LEMMA Round ==
  ASSUME NEW acc \in Parsed, NEW s
  PROVE  Passed(acc, s) \/ Listed(acc, s) \/ LeftInSlot(acc, s)
<1>1. CASE ~Active(s)
  BY <1>1 DEF Step, Passed
<1>2. CASE Active(s) /\ ~(IsManual(s) /\ s.name = tp)
  BY <1>2 DEF Step, Listed
<1>3. CASE Active(s) /\ IsManual(s) /\ s.name = tp
  <2>1. Step(acc, s) = [acc EXCEPT !.slot = [Filled(acc.slot, s) EXCEPT !.run_type = acc.slot.run_type]]
    BY <1>3 DEF Step, Parsed
  <2> QED
    BY <2>1, <1>3 DEF LeftInSlot, Parsed
<1> QED
  BY <1>1, <1>2, <1>3

LEMMA RoundType ==
  ASSUME NEW acc \in Parsed, NEW s \in Sections
  PROVE  Step(acc, s) \in Parsed
<1>1. acc.slot \in Entry /\ acc.info \in Seq(Entry) /\ acc.auto \in Nat /\ acc.manual \in Nat
  BY DEF Parsed
<1>2. Filled(acc.slot, s) \in Entry
  BY <1>1, FilledType
<1>3. CASE Passed(acc, s)
  BY <1>3 DEF Passed
<1>4. CASE Listed(acc, s)
  <2>1. Append(acc.info, Filled(acc.slot, s)) \in Seq(Entry)
    BY <1>1, <1>2
  <2> QED
    BY <2>1, <1>1, <1>4, BlankType DEF Listed, Parsed
<1>5. CASE LeftInSlot(acc, s)
  <2>1. [Filled(acc.slot, s) EXCEPT !.run_type = acc.slot.run_type] \in Entry
    BY <1>1, <1>2 DEF Entry
  <2> QED
    BY <2>1, <1>1, <1>5 DEF LeftInSlot, Parsed
<1> QED
  BY <1>3, <1>4, <1>5, Round

\* What parse_testcase returns, for every configuration.
LEMMA ParsedType ==
  ASSUME NEW c \in Seq(Sections), NEW t, Parsing(t, c)
  PROVE  /\ \A n \in 0 .. Len(c) : t[n] \in Parsed
         /\ parse_testcase(c) \in Parsed
<1> DEFINE S == {n \in 0 .. Len(c) : t[n] \in Parsed}
<1>1. 0 \in S
  <2>1. Start \in Parsed
    BY BlankType DEF Start, Parsed
  <2> QED
    BY <2>1 DEF Parsing
<1>2. ASSUME NEW n \in 0 .. Len(c) - 1, n \in S PROVE n + 1 \in S
  <2>1. n + 1 \in 1 .. Len(c) /\ (n + 1) - 1 = n /\ c[n + 1] \in Sections /\ n + 1 \in 0 .. Len(c)
    BY <1>2
  <2>2. t[n + 1] = Step(t[n], c[n + 1])
    BY <2>1 DEF Parsing
  <2> QED
    BY <1>2, <2>1, <2>2, RoundType
<1> HIDE DEF S
<1>3. Len(c) \in Nat
  OBVIOUS
<1>4. \A n \in 0 .. Len(c) : n \in S
  BY <1>1, <1>2, <1>3, InductionUpTo
<1> QED
  BY <1>3, <1>4 DEF S, Parsing

LEMMA ParsedTable ==
  ASSUME NEW c \in Configs
  PROVE  parse_testcase(c) \in Parsed
<1>1. c \in Seq(Sections)
  BY ConfigsAssumption
<1> QED
  BY <1>1, ParseBySection, ParsedType

-----------------------------------------------------------------------------
\* The slot holds nothing that shows in the next entry.
Clean(e) == e.binary = NoProgram /\ e.run_type = WAIT

\* The places of the sections listed among the first n.
Among(c, n) == Selected(c) \cap (1 .. n)

\* The entries are those of the sections listed among the first n.
ListsFirst(table, c, n) ==
  \E place \in [DOMAIN table -> 1 .. n] :
    /\ \A i, j \in DOMAIN table : i < j => place[i] < place[j]
    /\ {place[i] : i \in DOMAIN table} = Among(c, n)
    /\ \A i \in DOMAIN table : table[i] = Filled(Blank, c[place[i]])

AutoPlaces(table) == {i \in DOMAIN table : table[i].category = AUTO}
OtherPlaces(table) == {i \in DOMAIN table : table[i].category # AUTO}

Counted(acc) ==
  acc.auto = Cardinality(AutoPlaces(acc.info)) /\ acc.manual = Cardinality(OtherPlaces(acc.info))

LEMMA FilledClean ==
  ASSUME NEW e \in Entry, Clean(e), NEW s \in Sections, s.category # Absent
  PROVE  Filled(e, s) = Filled(Blank, s)
BY DEF Clean, Filled, Fetch, Blank

LEMMA DomainFinite ==
  ASSUME NEW table \in Seq(Entry), NEW T, T \subseteq DOMAIN table
  PROVE  IsFiniteSet(T) /\ Cardinality(T) \in Nat
<1>1. IsFiniteSet(1 .. Len(table)) /\ DOMAIN table = 1 .. Len(table)
  BY FS_Interval
<1>2. IsFiniteSet(T)
  BY <1>1, FS_Subset
<1> QED
  BY <1>2, FS_CardinalityType

LEMMA ListOneMore ==
  ASSUME NEW c \in Seq(Sections), NEW n \in 0 .. Len(c) - 1,
         NEW table \in Seq(Entry), ListsFirst(table, c, n),
         n + 1 \in Selected(c)
  PROVE  ListsFirst(Append(table, Filled(Blank, c[n + 1])), c, n + 1)
<1> DEFINE m == Len(table)
           e == Filled(Blank, c[n + 1])
           more == Append(table, e)
<1>1. PICK place \in [DOMAIN table -> 1 .. n] :
        /\ \A i, j \in DOMAIN table : i < j => place[i] < place[j]
        /\ {place[i] : i \in DOMAIN table} = Among(c, n)
        /\ \A i \in DOMAIN table : table[i] = Filled(Blank, c[place[i]])
  BY DEF ListsFirst
<1>2. /\ m \in Nat /\ n \in Nat /\ DOMAIN table = 1 .. m
      /\ DOMAIN more = 1 .. m + 1 /\ more[m + 1] = e
      /\ \A i \in 1 .. m : more[i] = table[i]
  <2>1. e \in Entry
    BY BlankType, FilledType
  <2> QED
    BY <2>1
<1> DEFINE p == [i \in 1 .. m + 1 |-> IF i = m + 1 THEN n + 1 ELSE place[i]]
<1> HIDE DEF m, e, more
<1>3. p \in [DOMAIN more -> 1 .. n + 1]
  BY <1>2
<1>4. \A i, j \in DOMAIN more : i < j => p[i] < p[j]
  BY <1>1, <1>2
<1>5. {p[i] : i \in DOMAIN more} = Among(c, n + 1)
  <2>1. {p[i] : i \in DOMAIN more} = {place[i] : i \in DOMAIN table} \cup {n + 1}
    <3>1. \A i \in 1 .. m : p[i] = place[i]
      BY <1>2
    <3>2. p[m + 1] = n + 1
      BY <1>2
    <3>3. 1 .. m + 1 = (1 .. m) \cup {m + 1}
      BY <1>2
    <3> HIDE DEF p
    <3>4. ASSUME NEW i \in 1 .. m PROVE p[i] \in {place[k] : k \in DOMAIN table}
      BY <3>1, <1>2
    <3>5. ASSUME NEW i \in DOMAIN table PROVE place[i] \in {p[k] : k \in DOMAIN more}
      BY <3>1, <3>3, <1>2
    <3>6. \A i \in DOMAIN more : i \in 1 .. m \/ i = m + 1
      BY <3>3, <1>2
    <3>7. m + 1 \in DOMAIN more
      BY <3>3, <1>2
    <3> QED
      BY <3>2, <3>4, <3>5, <3>6, <3>7
  <2>2. Among(c, n + 1) = Among(c, n) \cup {n + 1}
    BY <1>2 DEF Among
  <2> QED
    BY <2>1, <2>2, <1>1
<1>6. \A i \in DOMAIN more : more[i] = Filled(Blank, c[p[i]])
  BY <1>1, <1>2 DEF e
<1> HIDE DEF p
<1>7. ListsFirst(more, c, n + 1)
  BY <1>3, <1>4, <1>5, <1>6 DEF ListsFirst
<1> QED
  BY <1>7 DEF more, e

LEMMA ListNoMore ==
  ASSUME NEW c \in Seq(Sections), NEW n \in 0 .. Len(c) - 1,
         NEW table, ListsFirst(table, c, n), n + 1 \notin Selected(c)
  PROVE  ListsFirst(table, c, n + 1)
<1>1. PICK place \in [DOMAIN table -> 1 .. n] :
        /\ \A i, j \in DOMAIN table : i < j => place[i] < place[j]
        /\ {place[i] : i \in DOMAIN table} = Among(c, n)
        /\ \A i \in DOMAIN table : table[i] = Filled(Blank, c[place[i]])
  BY DEF ListsFirst
<1>2. place \in [DOMAIN table -> 1 .. n + 1]
  BY <1>1
<1>3. Among(c, n + 1) = Among(c, n)
  BY DEF Among
<1> QED
  BY <1>1, <1>2, <1>3 DEF ListsFirst

LEMMA CountOneMore ==
  ASSUME NEW table \in Seq(Entry), NEW e \in Entry
  PROVE  LET more == Append(table, e)
         IN /\ Cardinality(AutoPlaces(more)) =
                 Cardinality(AutoPlaces(table)) + (IF e.category = AUTO THEN 1 ELSE 0)
            /\ Cardinality(OtherPlaces(more)) =
                 Cardinality(OtherPlaces(table)) + (IF e.category # AUTO THEN 1 ELSE 0)
<1> DEFINE m == Len(table)
           more == Append(table, e)
<1>1. /\ m \in Nat /\ DOMAIN table = 1 .. m
      /\ DOMAIN more = (1 .. m) \cup {m + 1} /\ more[m + 1] = e /\ m + 1 \notin 1 .. m
      /\ \A i \in 1 .. m : more[i] = table[i]
  OBVIOUS
<1>2. /\ IsFiniteSet(AutoPlaces(table)) /\ Cardinality(AutoPlaces(table)) \in Nat
      /\ IsFiniteSet(OtherPlaces(table)) /\ Cardinality(OtherPlaces(table)) \in Nat
  BY DomainFinite DEF AutoPlaces, OtherPlaces
<1> HIDE DEF m, more
<1>3. /\ AutoPlaces(more) = IF e.category = AUTO THEN AutoPlaces(table) \cup {m + 1} ELSE AutoPlaces(table)
      /\ OtherPlaces(more) = IF e.category # AUTO THEN OtherPlaces(table) \cup {m + 1} ELSE OtherPlaces(table)
      /\ m + 1 \notin AutoPlaces(table) /\ m + 1 \notin OtherPlaces(table)
  BY <1>1 DEF AutoPlaces, OtherPlaces
<1>4. /\ Cardinality(AutoPlaces(more)) =
           Cardinality(AutoPlaces(table)) + (IF e.category = AUTO THEN 1 ELSE 0)
      /\ Cardinality(OtherPlaces(more)) =
           Cardinality(OtherPlaces(table)) + (IF e.category # AUTO THEN 1 ELSE 0)
  <2>1. /\ Cardinality(AutoPlaces(table) \cup {m + 1}) = Cardinality(AutoPlaces(table)) + 1
        /\ Cardinality(OtherPlaces(table) \cup {m + 1}) = Cardinality(OtherPlaces(table)) + 1
    BY <1>2, <1>3, FS_AddElement
  <2> QED
    BY <2>1, <1>2, <1>3
<1> QED
  BY <1>4 DEF more

AllComplete(c) == \A i \in DOMAIN c : Complete(c[i])

\* With a category in every section the table and the counters are what they should be.
TableSoFar(acc, c, n) ==
  acc \in Parsed /\ Clean(acc.slot) /\ ListsFirst(acc.info, c, n) /\ Counted(acc)

LEMMA TableRound ==
  ASSUME NEW c \in Seq(Sections), AllComplete(c), NEW n \in 0 .. Len(c) - 1,
         NEW acc, TableSoFar(acc, c, n)
  PROVE  TableSoFar(Step(acc, c[n + 1]), c, n + 1)
<1> DEFINE s == c[n + 1]
<1>1. /\ s \in Sections /\ n + 1 \in DOMAIN c
      /\ Active(s) => s.category # Absent /\ (s.name = tp => s.program = Absent)
  BY DEF AllComplete, Complete
<1>2. n + 1 \in Selected(c) <=> Active(s) /\ ~(IsManual(s) /\ s.name = tp)
  BY <1>1 DEF Selected
<1>3. Step(acc, s) \in Parsed
  BY <1>1, RoundType DEF TableSoFar
<1>4. acc.slot \in Entry /\ acc.info \in Seq(Entry) /\ acc.auto \in Nat /\ acc.manual \in Nat
  BY DEF TableSoFar, Parsed
<1> HIDE DEF s
<1>5. CASE Passed(acc, s)
  <2>1. ListsFirst(acc.info, c, n + 1)
    BY <1>2, <1>5, ListNoMore DEF Passed, TableSoFar
  <2> QED
    BY <2>1, <1>5 DEF Passed, TableSoFar, s
<1>6. CASE Listed(acc, s)
  <2> DEFINE e == Filled(acc.slot, s)
             more == Append(acc.info, e)
             a == Step(acc, s)
  <2>1. e = Filled(Blank, s) /\ e \in Entry /\ e.category = s.category
    <3>1. e = Filled(Blank, s)
      BY <1>1, <1>4, <1>6, FilledClean DEF Listed, TableSoFar
    <3>2. e \in Entry
      BY <1>1, <1>4, FilledType
    <3>3. e.category = s.category
      BY <1>1, <1>6 DEF Listed, Filled, Fetch
    <3> QED
      BY <3>1, <3>2, <3>3
  <2>2. /\ a.info = more /\ a.slot = Blank
        /\ a.auto = acc.auto + (IF s.category = AUTO THEN 1 ELSE 0)
        /\ a.manual = acc.manual + (IF IsManual(s) THEN 1 ELSE 0)
    BY <1>6 DEF Listed
  <2> HIDE DEF e, a
  <2>3. ListsFirst(more, c, n + 1)
    BY <1>2, <1>4, <1>6, <2>1, ListOneMore DEF Listed, TableSoFar, s
  <2>4. IsManual(s) <=> e.category # AUTO
    BY <1>1, <1>6, <2>1 DEF Listed, IsManual
  <2>5. /\ Cardinality(AutoPlaces(more)) =
                 Cardinality(AutoPlaces(acc.info)) + (IF e.category = AUTO THEN 1 ELSE 0)
        /\ Cardinality(OtherPlaces(more)) =
                 Cardinality(OtherPlaces(acc.info)) + (IF e.category # AUTO THEN 1 ELSE 0)
    BY <1>4, <2>1, CountOneMore
  <2>6. Counted(a)
    BY <2>1, <2>2, <2>4, <2>5 DEF Counted, TableSoFar
  <2>7. Clean(a.slot)
    BY <2>2 DEF Clean, Blank
  <2> QED
    BY <1>3, <2>2, <2>3, <2>6, <2>7 DEF TableSoFar, s, a
<1>7. CASE LeftInSlot(acc, s)
  <2> DEFINE a == Step(acc, s)
  <2>1. /\ a.info = acc.info /\ a.auto = acc.auto /\ a.manual = acc.manual
        /\ a.slot = [Filled(acc.slot, s) EXCEPT !.run_type = acc.slot.run_type]
    BY <1>7 DEF LeftInSlot
  <2> HIDE DEF a
  <2>2. Clean(a.slot)
    BY <1>1, <1>7, <2>1 DEF LeftInSlot, TableSoFar, Clean, Filled, Fetch
  <2>3. ListsFirst(acc.info, c, n + 1)
    BY <1>2, <1>7, ListNoMore DEF LeftInSlot, TableSoFar
  <2>4. Counted(a)
    BY <2>1 DEF Counted, TableSoFar
  <2> QED
    BY <1>3, <2>1, <2>2, <2>3, <2>4 DEF TableSoFar, s, a
<1> QED
  BY <1>5, <1>6, <1>7, Round DEF TableSoFar, s

LEMMA TableIsComplete ==
  ASSUME NEW c \in Configs, AllComplete(c)
  PROVE  Lists(parse_testcase(c).info, c) /\ Counted(parse_testcase(c))
<1>1. c \in Seq(Sections)
  BY ConfigsAssumption
<1>2. PICK t : Parsing(t, c)
  BY <1>1, ParseBySection
<1> DEFINE S == {n \in 0 .. Len(c) : TableSoFar(t[n], c, n)}
<1>3. 0 \in S
  <2>1. Start \in Parsed /\ Clean(Start.slot)
    BY BlankType DEF Start, Parsed, Clean, Blank
  <2>2. ListsFirst(<<>>, c, 0)
    <3> DEFINE p == [i \in {} |-> 0]
    <3>1. DOMAIN <<>> = {} /\ Among(c, 0) = {}
      BY DEF Among
    <3>2. p \in [DOMAIN <<>> -> 1 .. 0]
      BY <3>1
    <3> QED
      BY <3>1, <3>2 DEF ListsFirst
  <2>3. Counted(Start)
    <3>1. AutoPlaces(<<>>) = {} /\ OtherPlaces(<<>>) = {}
      BY DEF AutoPlaces, OtherPlaces
    <3> QED
      BY <3>1, FS_EmptySet DEF Counted, Start
  <2>4. TableSoFar(Start, c, 0)
    BY <2>1, <2>2, <2>3 DEF TableSoFar, Start
  <2> QED
    BY <2>4, <1>1, <1>2 DEF Parsing
<1>4. ASSUME NEW n \in 0 .. Len(c) - 1, n \in S PROVE n + 1 \in S
  <2>1. n + 1 \in 1 .. Len(c) /\ (n + 1) - 1 = n /\ n + 1 \in 0 .. Len(c)
    BY <1>1, <1>4
  <2>2. t[n + 1] = Step(t[n], c[n + 1])
    BY <2>1, <1>2 DEF Parsing
  <2> QED
    BY <1>1, <1>4, <2>1, <2>2, TableRound
<1> HIDE DEF S
<1>5. Len(c) \in Nat
  BY <1>1
<1>6. TableSoFar(parse_testcase(c), c, Len(c))
  <2>1. \A n \in 0 .. Len(c) : n \in S
    BY <1>3, <1>4, <1>5, InductionUpTo
  <2> QED
    BY <2>1, <1>2, <1>5 DEF S, Parsing
<1>7. DOMAIN c = 1 .. Len(c) /\ Among(c, Len(c)) = Selected(c)
  BY <1>1 DEF Among, Selected
<1> QED
  BY <1>6, <1>7 DEF TableSoFar, ListsFirst, Lists

-----------------------------------------------------------------------------
(* Type correctness.  The type alone is not inductive: parse_testcase may  *)
(* replace the table only because nothing refers to it yet.                *)

Unparsed == core = "parse" => info = <<>> /\ launcher = "none"

WaitsForOne == launcher = "wait" => next <= Len(info)

TypeInv == TypeOK /\ Unparsed /\ WaitsForOne

LEMMA InitType == Init => TypeInv
<1> SUFFICES ASSUME Init PROVE TypeInv
  OBVIOUS
<1>1. lcd \in BOOLEAN
  BY TestRunAssumption DEF Init
<1>2. Ids = {}
  BY DEF Init, Ids
<1> QED
  BY <1>1, <1>2 DEF Init, TypeInv, TypeOK, Unparsed, WaitsForOne, AUTO, MANUAL, Results, Lines

\* parse_testcase and the initialisation of the view.
LEMMA ParseType == TypeInv /\ ParseAndInitView => TypeInv'
<1> SUFFICES ASSUME TypeInv, ParseAndInitView PROVE TypeInv'
  OBVIOUS
<1> DEFINE parsed == parse_testcase(config)
           n == Len(parsed.info)
<1>1. parsed.info \in Seq(Entry) /\ parsed.auto \in Nat /\ parsed.manual \in Nat
  BY ParsedTable DEF TypeInv, TypeOK, Parsed
<1>2. /\ core = "parse" /\ info' = parsed.info
      /\ core' \in {"exit", "draw"}
      /\ rows' = Rows(parsed)
      /\ tester' = [i \in 1 .. n |-> "none"]
      /\ sent' = [i \in 1 .. n |-> 0]
      /\ said' = [i \in 1 .. n |-> UNTESTED]
      /\ status' = [i \in (IF lcd THEN {0} ELSE {}) |-> UNTESTED]
      /\ UNCHANGED <<config, lcd, drawn, launcher, next, waits, pipe>>
  BY DEF ParseAndInitView, board, launch
<1> HIDE DEF parsed
<1>3. Ids' = 1 .. n /\ n \in Nat /\ Len(info') = n /\ info' \in Seq(Entry)
  BY <1>1, <1>2 DEF Ids
<1>4. info = <<>> /\ Ids = {}
  BY <1>2 DEF TypeInv, Unparsed, Ids
<1>5. rows' \in [{AUTO, MANUAL} -> Nat]
  BY <1>1, <1>2 DEF Rows, AUTO, MANUAL
<1>6. drawn' = 0 /\ next' = 1
  BY <1>2, <1>4 DEF TypeInv, TypeOK
<1>7. waits' \in Seq(Ids')
  <2>1. waits \in Seq({})
    BY <1>4 DEF TypeInv, TypeOK
  <2> QED
    BY <2>1, <1>2, <1>3
<1>8. pipe' \in Seq(Lines')
  <2>1. pipe \in Seq(Lines) /\ Lines \subseteq Lines'
    BY <1>4 DEF TypeInv, TypeOK, Lines, Results
  <2> QED
    BY <2>1, <1>2
<1>9. /\ tester' \in [Ids' -> {"none", "forked", "running", "ended"}]
      /\ sent' \in [Ids' -> 0 .. MaxReports]
      /\ said' \in [Ids' -> Results]
  BY <1>2, <1>3, TestRunAssumption DEF Results
<1>10. DOMAIN status' \subseteq Ids' \cup {0} /\ \A i \in DOMAIN status' : status'[i] \in Results
  BY <1>2 DEF Results
<1>11. /\ config' \in Configs /\ lcd' \in BOOLEAN
       /\ core' \in {"parse", "draw", "open", "listen", "over", "exit"} /\ core' # "parse"
       /\ launcher' \in {"none", "open", "run", "wait", "gone", "lost"}
       /\ drawn' \in 0 .. Len(info') /\ next' \in 1 .. Len(info') + 1
       /\ launcher' = "none"
  BY <1>2, <1>3, <1>6 DEF TypeInv, TypeOK, Unparsed
<1> QED
  BY <1>3, <1>5, <1>7, <1>8, <1>9, <1>10, <1>11
  DEF TypeInv, TypeOK, Unparsed, WaitsForOne, Results

\* Putting a line into the pipe.
LEMMA WriteType ==
  ASSUME TypeOK, NEW i \in Ids, NEW r \in Results, Write(i, r)
  PROVE  pipe' \in Seq(Lines) /\ said' \in [Ids -> Results]
<1>1. <<i, r>> \in Lines
  BY DEF Lines
<1> QED
  BY <1>1 DEF TypeOK, Write

\* A step of the core that leaves the table alone.
LEMMA CoreType ==
  ASSUME TypeInv, DrawTestcase \/ ForkLauncher \/ OpenPipe \/ Listen \/ Touch
  PROVE  TypeInv'
<1>1. UNCHANGED info /\ Ids' = Ids /\ Lines' = Lines
  BY DEF DrawTestcase, ForkLauncher, OpenPipe, Listen, Touch, view, Ids, Lines
<1>2. /\ DOMAIN status' \subseteq Ids \cup {0}
      /\ \A i \in DOMAIN status' : status'[i] \in Results
  <2>1. CASE DrawTestcase
    <3> DEFINE k == drawn + 1
               more == [j \in DOMAIN status \cup {k} |-> IF j = k THEN UNTESTED ELSE status[j]]
    <3>1. k \in Ids
      BY <2>1 DEF DrawTestcase, TypeInv, TypeOK, Ids
    <3>2. status' = status \/ status' = more
      BY <2>1 DEF DrawTestcase, Inserted
    <3>3. DOMAIN more \subseteq Ids \cup {0} /\ \A i \in DOMAIN more : more[i] \in Results
      BY <3>1 DEF TypeInv, TypeOK, Results
    <3> QED
      BY <3>2, <3>3 DEF TypeInv, TypeOK
  <2>2. CASE ForkLauncher \/ OpenPipe
    BY <2>2 DEF ForkLauncher, OpenPipe, view, TypeInv, TypeOK
  <2>3. CASE Listen
    <3>1. pipe # <<>> => Head(pipe) \in Lines
      BY DEF TypeInv, TypeOK
    <3> QED
      BY <2>3, <3>1 DEF Listen, Updated, TypeInv, TypeOK, Lines
  <2>4. CASE Touch
    BY <2>4 DEF Touch, Updated, TypeInv, TypeOK, Results
  <2> QED
    BY <2>1, <2>2, <2>3, <2>4
<1>3. pipe' \in Seq(Lines)
  <2>1. pipe \in Seq(Lines)
    BY DEF TypeInv, TypeOK
  <2>2. CASE DrawTestcase \/ ForkLauncher \/ OpenPipe \/ Touch
    BY <2>1, <2>2 DEF DrawTestcase, ForkLauncher, OpenPipe, Touch
  <2>3. CASE Listen
    <3>1. pipe # <<>> /\ pipe' = Tail(pipe)
      BY <2>3 DEF Listen
    <3> QED
      BY <2>1, <3>1
  <2> QED
    BY <2>2, <2>3
<1>4. /\ UNCHANGED <<config, lcd, rows, next, waits, tester, sent, said>>
      /\ core' \in {core, "open", "listen", "over"}
      /\ launcher' \in {launcher, "open", "run", "lost"}
  BY DEF DrawTestcase, ForkLauncher, OpenPipe, Listen, Touch, board, view, launch, tests
<1>5. /\ core' = "parse" => core = "parse" /\ launcher' = launcher
      /\ launcher' = "wait" => launcher = "wait"
  BY DEF DrawTestcase, ForkLauncher, OpenPipe, Listen, Touch, launch
<1>6. drawn' \in 0 .. Len(info)
  <2>1. drawn' = drawn \/ (drawn < Len(info) /\ drawn' = drawn + 1)
    BY DEF DrawTestcase, ForkLauncher, OpenPipe, Listen, Touch, view
  <2> QED
    BY <2>1 DEF TypeInv, TypeOK
<1> QED
  BY <1>1, <1>2, <1>3, <1>4, <1>5, <1>6 DEF TypeInv, TypeOK, Unparsed, WaitsForOne

LEMMA LauncherType == ASSUME TypeInv, LauncherStep \/ ForkFails PROVE TypeInv'
<1>1. /\ UNCHANGED <<config, lcd, core, info, rows, drawn, status, sent>>
      /\ Ids' = Ids /\ Lines' = Lines
  BY DEF LauncherStep, NoBinary, RunOneTestcase, ForkFails, WaitCompletion, WaitNoWaitTask,
         CleanUp, board, view, tests, Ids, Lines
<1>2. Ids = 1 .. Len(info) /\ next \in Nat
  BY DEF TypeInv, TypeOK, Ids
<1>3. core # "parse"
  BY <1>2 DEF LauncherStep, NoBinary, RunOneTestcase, ForkFails, WaitCompletion, WaitNoWaitTask,
         CleanUp, TypeInv, Unparsed
<1> SUFFICES /\ pipe' \in Seq(Lines) /\ said' \in [Ids -> Results]
             /\ launcher' \in {"none", "open", "run", "wait", "gone", "lost"}
             /\ next' \in 1 .. Len(info) + 1 /\ waits' \in Seq(Ids)
             /\ tester' \in [Ids -> {"none", "forked", "running", "ended"}]
             /\ launcher' = "wait" => next' <= Len(info)
  BY <1>1, <1>3 DEF TypeInv, TypeOK, Unparsed, WaitsForOne
<1>4. CASE NoBinary
  <2>1. next \in Ids /\ FAIL \in Results
    BY <1>2, <1>4 DEF NoBinary, Results, TypeInv, TypeOK
  <2>2. pipe' \in Seq(Lines) /\ said' \in [Ids -> Results]
    BY <2>1, <1>4, WriteType DEF NoBinary, TypeInv
  <2> QED
    BY <2>1, <2>2, <1>2, <1>4 DEF NoBinary, TypeInv, TypeOK
<1>5. CASE RunOneTestcase
  <2>1. next \in Ids
    BY <1>2, <1>5 DEF RunOneTestcase, TypeInv, TypeOK
  <2>2. <<next>> \o waits \in Seq(Ids)
    BY <2>1 DEF TypeInv, TypeOK
  <2>3. UNCHANGED <<said, pipe>> /\ tester' = [tester EXCEPT ![next] = "forked"]
    BY <1>5 DEF RunOneTestcase
  <2>4. \/ launcher' = "wait" /\ UNCHANGED <<next, waits>>
        \/ launcher' = "run" /\ next' = next + 1 /\ waits' = <<next>> \o waits
    BY <1>5 DEF RunOneTestcase
  <2>5. tester' \in [Ids -> {"none", "forked", "running", "ended"}]
    BY <2>3 DEF TypeInv, TypeOK
  <2>6. next' \in 1 .. Len(info) + 1 /\ (launcher' = "wait" => next' <= Len(info))
    BY <2>1, <2>4, <1>2
  <2> QED
    BY <2>2, <2>3, <2>4, <2>5, <2>6 DEF TypeInv, TypeOK
<1>6. CASE ForkFails
  BY <1>2, <1>6 DEF ForkFails, tests, TypeInv, TypeOK
<1>7. CASE WaitCompletion
  BY <1>2, <1>7 DEF WaitCompletion, tests, TypeInv, TypeOK, WaitsForOne
<1>8. CASE WaitNoWaitTask
  BY <1>2, <1>8 DEF WaitNoWaitTask, tests, TypeInv, TypeOK
<1>9. CASE CleanUp
  <2>1. DONE \in Lines
    BY DEF DONE, Lines, Results
  <2> QED
    BY <2>1, <1>2, <1>9 DEF CleanUp, tests, TypeInv, TypeOK
<1> QED
  BY <1>4, <1>5, <1>6, <1>7, <1>8, <1>9 DEF LauncherStep

TesterAction(i) == TesterStep(i) \/ Report(i, UNTESTED) \/ Crash(i)

LEMMA TesterType == ASSUME TypeInv, NEW i \in Ids, TesterAction(i) PROVE TypeInv'
<1>1. /\ UNCHANGED <<config, lcd, core, info, rows, drawn, status, launcher, next, waits>>
      /\ Ids' = Ids /\ Lines' = Lines
  BY DEF TesterAction, TesterStep, Exec, CannotExec, Exit, Report, Crash, board, view, launch,
         Ids, Lines
<1> SUFFICES /\ pipe' \in Seq(Lines) /\ said' \in [Ids -> Results]
             /\ tester' \in [Ids -> {"none", "forked", "running", "ended"}]
             /\ sent' \in [Ids -> 0 .. MaxReports]
  BY <1>1 DEF TypeInv, TypeOK, Unparsed, WaitsForOne
<1>2. CASE Exec(i) \/ Exit(i) \/ Crash(i)
  BY <1>2 DEF Exec, Exit, Crash, TypeInv, TypeOK
<1>3. CASE CannotExec(i)
  <2>1. FAIL \in Results
    BY DEF Results
  <2>2. pipe' \in Seq(Lines) /\ said' \in [Ids -> Results]
    BY <2>1, <1>3, WriteType DEF CannotExec, TypeInv
  <2> QED
    BY <2>2, <1>3 DEF CannotExec, TypeInv, TypeOK
<1>4. ASSUME NEW r \in Results, Report(i, r)
      PROVE  /\ pipe' \in Seq(Lines) /\ said' \in [Ids -> Results]
             /\ tester' = tester /\ sent' \in [Ids -> 0 .. MaxReports]
  <2>1. pipe' \in Seq(Lines) /\ said' \in [Ids -> Results]
    BY <1>4, WriteType DEF Report, TypeInv
  <2>2. sent[i] \in 0 .. MaxReports /\ sent[i] + 1 \in 0 .. MaxReports
    BY <1>4, TestRunAssumption DEF Report, TypeInv, TypeOK
  <2> QED
    BY <2>1, <2>2, <1>4 DEF Report, TypeInv, TypeOK
<1>5. UNTESTED \in Results /\ OK \in Results /\ FAIL \in Results
  BY DEF Results
<1>6. CASE Report(i, UNTESTED) \/ Report(i, OK) \/ Report(i, FAIL)
  <2>1. PICK r \in Results : Report(i, r)
    BY <1>5, <1>6
  <2> QED
    BY <1>4, <2>1 DEF TypeInv, TypeOK
<1> QED
  BY <1>2, <1>3, <1>6 DEF TesterAction, TesterStep

LEMMA TypeStep == TypeInv /\ [Next]_vars => TypeInv'
<1> SUFFICES ASSUME TypeInv, [Next]_vars PROVE TypeInv'
  OBVIOUS
<1>1. CASE ParseAndInitView
  BY <1>1, ParseType
<1>2. CASE DrawTestcase \/ ForkLauncher \/ OpenPipe \/ Listen \/ Touch
  BY <1>2, CoreType
<1>3. CASE LauncherStep \/ ForkFails
  BY <1>3, LauncherType
<1>4. CASE \E i \in Ids : TesterStep(i) \/ Report(i, UNTESTED) \/ Crash(i)
  BY <1>4, TesterType DEF TesterAction
<1>5. CASE UNCHANGED vars
  BY <1>5 DEF vars, TypeInv, TypeOK, Unparsed, WaitsForOne, Ids, Lines
<1> QED
  BY <1>1, <1>2, <1>3, <1>4, <1>5 DEF Next, CoreStep

\* Every variable of the test run keeps its type.
THEOREM TestRunTypeCorrect == Spec => []TypeOK
<1>1. TypeInv => TypeOK
  BY DEF TypeInv
<1> QED
  BY InitType, TypeStep, <1>1, PTL DEF Spec

-----------------------------------------------------------------------------
(* The table and the items on display.                                     *)

\* The shared table and the windows are those of the configuration.
TableIsParsed ==
  core # "parse" =>
    info = parse_testcase(config).info /\ rows = Rows(parse_testcase(config))

\* The test cases drawn so far are on display, in the windows of their categories.
DrawnFit ==
  /\ DOMAIN status \subseteq 0 .. drawn
  /\ 0 \in DOMAIN status => lcd
  /\ AllComplete(config) =>
       \A i \in 1 .. drawn : info[i].category \in {AUTO, MANUAL} /\ info[i].name # tp
                               => i \in DOMAIN status

DrawnAll == core \notin {"parse", "draw", "exit"} => drawn = Len(info)

FitInv == TypeInv /\ TableIsParsed /\ DrawnFit /\ DrawnAll

LEMMA FitInit == Init => FitInv
BY InitType DEF Init, FitInv, TableIsParsed, DrawnFit, DrawnAll

\* A step that draws nothing.
LEMMA FitKept ==
  ASSUME FitInv, TypeInv', UNCHANGED <<config, lcd, info, rows, drawn>>,
         DOMAIN status' = DOMAIN status, core = "parse" => core' = "parse",
         core' = core \/ drawn = Len(info)
  PROVE  FitInv'
<1>1. TableIsParsed'
  BY DEF FitInv, TableIsParsed, Rows
<1>2. DrawnFit'
  BY DEF FitInv, DrawnFit
<1>3. DrawnAll'
  BY DEF FitInv, DrawnAll
<1> QED
  BY <1>1, <1>2, <1>3 DEF FitInv

LEMMA FitParse == ASSUME FitInv, TypeInv', ParseAndInitView PROVE FitInv'
<1>1. /\ core = "parse" /\ core' \in {"exit", "draw"}
      /\ info' = parse_testcase(config).info /\ rows' = Rows(parse_testcase(config))
      /\ status' = [i \in (IF lcd THEN {0} ELSE {}) |-> UNTESTED]
      /\ UNCHANGED <<config, lcd, drawn>>
  BY DEF ParseAndInitView, board
<1>2. drawn = 0
  BY <1>1 DEF FitInv, TypeInv, TypeOK, Unparsed
<1>3. TableIsParsed' /\ DrawnAll'
  BY <1>1 DEF TableIsParsed, DrawnAll, Rows
<1>4. DrawnFit'
  BY <1>1, <1>2 DEF DrawnFit
<1> QED
  BY <1>3, <1>4 DEF FitInv

\* The items of category c that the window has rows for: the counters count them all,
\* and the built-in item.
Rowed(c) ==
  IF c = AUTO THEN AutoPlaces(info)
  ELSE OtherPlaces(info) \cup (IF lcd THEN {0} ELSE {})

LEMMA RowsForAll ==
  ASSUME FitInv, core # "parse", AllComplete(config), NEW c \in {AUTO, MANUAL}
  PROVE  IsFiniteSet(Rowed(c)) /\ rows[c] = Cardinality(Rowed(c))
<1> DEFINE p == parse_testcase(config)
<1>1. config \in Configs /\ lcd \in BOOLEAN /\ info \in Seq(Entry) /\ DOMAIN info = 1 .. Len(info)
  BY DEF FitInv, TypeInv, TypeOK
<1>2. info = p.info /\ rows = Rows(p) /\ Counted(p)
  BY <1>1, TableIsComplete DEF FitInv, TableIsParsed
<1> HIDE DEF p
<1>3. p.auto = Cardinality(AutoPlaces(info)) /\ p.manual = Cardinality(OtherPlaces(info))
  BY <1>2 DEF Counted
<1>4. /\ IsFiniteSet(AutoPlaces(info)) /\ IsFiniteSet(OtherPlaces(info)) /\ 0 \notin OtherPlaces(info)
      /\ Cardinality(OtherPlaces(info)) \in Nat
  BY <1>1, DomainFinite DEF AutoPlaces, OtherPlaces
<1>5. CASE c = AUTO
  BY <1>2, <1>3, <1>4, <1>5 DEF Rowed, Rows
<1>6. CASE c = MANUAL
  <2>1. rows[c] = Cardinality(OtherPlaces(info)) + (IF lcd THEN 1 ELSE 0)
    BY <1>2, <1>3, <1>6 DEF Rows, AUTO, MANUAL
  <2>2. CASE lcd
    <3>1. Rowed(c) = OtherPlaces(info) \cup {0}
      BY <1>6, <2>2 DEF Rowed, AUTO, MANUAL
    <3> QED
      BY <1>4, <2>1, <2>2, <3>1, FS_AddElement
  <2>3. CASE ~lcd
    <3>1. Rowed(c) = OtherPlaces(info)
      BY <1>6, <2>3 DEF Rowed, AUTO, MANUAL
    <3> QED
      BY <1>4, <2>1, <2>3, <3>1
  <2> QED
    BY <2>2, <2>3
<1> QED
  BY <1>5, <1>6

LEMMA FitDraw == ASSUME FitInv, TypeInv', DrawTestcase PROVE FitInv'
<1> DEFINE k == drawn + 1
           c == info[k].category
           more == [j \in DOMAIN status \cup {k} |-> IF j = k THEN UNTESTED ELSE status[j]]
<1>1. /\ core = "draw" /\ drawn < Len(info) /\ drawn' = k
      /\ status' = IF info[k].name = tp THEN status ELSE Inserted(k)
      /\ UNCHANGED <<config, lcd, core, info, rows>>
  BY DEF DrawTestcase, board
<1>2. /\ drawn \in Nat /\ k \in 1 .. Len(info) /\ DOMAIN info = 1 .. Len(info) /\ Ids = DOMAIN info
      /\ info \in Seq(Entry)
  BY <1>1 DEF FitInv, TypeInv, TypeOK, Ids
<1>3. /\ status' = status \/ status' = more
      /\ DOMAIN more = DOMAIN status \cup {k}
  BY <1>1 DEF Inserted
<1>4. TableIsParsed' /\ DrawnAll'
  BY <1>1 DEF FitInv, TableIsParsed, DrawnAll, Rows
<1>5. DOMAIN status' \subseteq 0 .. k /\ (0 \in DOMAIN status' => lcd)
  BY <1>2, <1>3 DEF FitInv, DrawnFit
<1>6. ASSUME AllComplete(config), c \in {AUTO, MANUAL}, info[k].name # tp
      PROVE  k \in DOMAIN status'
  <2>1. Items(c) \subseteq Rowed(c) \ {k}
    <3> SUFFICES ASSUME NEW i \in DOMAIN status, CategoryOf(i) = c PROVE i \in Rowed(c) /\ i # k
      BY DEF Items
    <3>1. i \in 0 .. drawn /\ i # k
      BY <1>2 DEF FitInv, DrawnFit
    <3>2. CASE i = 0
      BY <3>1, <3>2 DEF FitInv, DrawnFit, CategoryOf, Rowed, AUTO, MANUAL
    <3>3. CASE i # 0
      <4>1. i \in DOMAIN info /\ info[i].category = c
        BY <1>1, <1>2, <3>1, <3>3 DEF CategoryOf
      <4> QED
        BY <3>1, <4>1 DEF Rowed, AutoPlaces, OtherPlaces
    <3> QED
      BY <3>2, <3>3
  <2>2. k \in Rowed(c)
    BY <1>2 DEF Rowed, AutoPlaces, OtherPlaces
  <2>3. IsFiniteSet(Rowed(c)) /\ rows[c] = Cardinality(Rowed(c)) /\ Cardinality(Rowed(c)) \in Nat
    BY <1>1, <1>6, RowsForAll, FS_CardinalityType
  <2>4. /\ IsFiniteSet(Rowed(c) \ {k})
        /\ Cardinality(Rowed(c) \ {k}) = Cardinality(Rowed(c)) - 1
    BY <2>2, <2>3, FS_RemoveElement
  <2>5. Cardinality(Items(c)) <= Cardinality(Rowed(c) \ {k}) /\ Cardinality(Items(c)) \in Nat
    BY <2>1, <2>4, FS_Subset, FS_CardinalityType
  <2>6. Cardinality(Items(c)) < rows[c]
    BY <2>3, <2>4, <2>5
  <2>7. CategoryOf(k) = c
    BY <1>2 DEF CategoryOf
  <2>8. status' = more
    BY <1>1, <1>6, <2>6, <2>7 DEF Inserted
  <2> QED
    BY <1>3, <2>8
<1>7. ASSUME AllComplete(config), NEW i \in 1 .. k,
             info[i].category \in {AUTO, MANUAL}, info[i].name # tp
      PROVE  i \in DOMAIN status'
  <2>1. CASE i = k
    BY <1>6, <1>7, <2>1
  <2>2. CASE i # k
    <3>1. i \in 1 .. drawn
      BY <1>2, <1>7, <2>2
    <3> QED
      BY <1>3, <1>7, <3>1 DEF FitInv, DrawnFit
  <2> QED
    BY <2>1, <2>2
<1> HIDE DEF k
<1>8. DrawnFit'
  BY <1>1, <1>5, <1>7 DEF DrawnFit
<1> QED
  BY <1>4, <1>8 DEF FitInv

LEMMA FitStep == FitInv /\ [Next]_vars => FitInv'
<1> SUFFICES ASSUME FitInv, [Next]_vars PROVE FitInv'
  OBVIOUS
<1>1. TypeInv'
  BY TypeStep DEF FitInv
<1>2. CASE ParseAndInitView
  BY <1>1, <1>2, FitParse
<1>3. CASE DrawTestcase
  BY <1>1, <1>3, FitDraw
<1>4. CASE ForkLauncher \/ OpenPipe \/ Listen \/ Touch
  <2>1. /\ UNCHANGED <<config, lcd, info, rows, drawn>>
        /\ DOMAIN status' = DOMAIN status
        /\ core = "parse" => core' = "parse"
        /\ core' = core \/ drawn = Len(info)
    BY <1>4 DEF ForkLauncher, OpenPipe, Listen, Touch, Updated, board, view, FitInv, DrawnAll
  <2> QED
    BY <1>1, <2>1, FitKept
<1>5. CASE LauncherStep \/ ForkFails
  <2>1. UNCHANGED <<config, lcd, core, info, rows, drawn, status>>
    BY <1>5 DEF LauncherStep, NoBinary, RunOneTestcase, ForkFails, WaitCompletion, WaitNoWaitTask,
       CleanUp, board, view
  <2> QED
    BY <1>1, <2>1, FitKept
<1>6. CASE \E i \in Ids : TesterAction(i)
  <2>1. UNCHANGED <<config, lcd, core, info, rows, drawn, status>>
    BY <1>6 DEF TesterAction, TesterStep, Exec, CannotExec, Exit, Report, Crash, board, view
  <2> QED
    BY <1>1, <2>1, FitKept
<1>7. CASE UNCHANGED vars
  BY <1>1, <1>7, FitKept DEF vars
<1> QED
  BY <1>2, <1>3, <1>4, <1>5, <1>6, <1>7 DEF Next, CoreStep, TesterAction

\* The table of a configuration with a category in every section lists the sections that
\* are active, in their order, without the touch panel: what the touch panel leaves in
\* the slot does not show in the entry after it.
THEOREM TableLists == Spec => []TableIsSelection
<1>1. FitInv => TableIsSelection
  <2> SUFFICES ASSUME FitInv, core # "parse", AllComplete(config) PROVE Lists(info, config)
    BY DEF TableIsSelection, AllComplete
  <2>1. config \in Configs
    BY DEF FitInv, TypeInv, TypeOK
  <2> QED
    BY <2>1, TableIsComplete DEF FitInv, TableIsParsed
<1> QED
  BY FitInit, FitStep, <1>1, PTL DEF Spec

\* Every test case of a known category has found a place in its window.
THEOREM ItemsFit == Spec => []EveryItemFits
<1>1. FitInv => EveryItemFits
  <2> SUFFICES ASSUME FitInv, core \notin {"parse", "draw", "exit"}, AllComplete(config),
                      NEW i \in Ids, info[i].category \in {AUTO, MANUAL}, info[i].name # tp
               PROVE  i \in DOMAIN status
    BY DEF EveryItemFits, AllComplete
  <2>1. i \in 1 .. drawn
    BY DEF FitInv, TypeInv, TypeOK, DrawnAll, Ids
  <2> QED
    BY <2>1 DEF FitInv, DrawnFit
<1> QED
  BY FitInit, FitStep, <1>1, PTL DEF Spec
-----------------------------------------------------------------------------
(* Who is running.                                                         *)

Finished(i) == tester[i] \in {"none", "ended"}

\* Until the launcher is at work nothing runs and nothing has been said.
Quiet ==
  launcher \in {"none", "open", "lost"} =>
    waits = <<>> /\ pipe = <<>> /\ \A i \in Ids : tester[i] = "none" /\ said[i] = UNTESTED

\* The launcher is forked after the items are drawn.
ForkedLate == core = "draw" => launcher = "none"

\* The programs that may still run are the one that is waited for and those on the list.
StartedInOrder ==
  \A i \in Ids :
    /\ tester[i] # "none" => i < next \/ (i = next /\ launcher = "wait")
    /\ i < next => Finished(i) \/ \E k \in DOMAIN waits : waits[k] = i

\* Only programs that are not waited for at once are on the list.
ListedNotWaited == \A k \in DOMAIN waits : ~Waited(waits[k])

\* The launcher ends with all test cases behind it and an empty list.
LauncherIsThrough == launcher = "gone" => next = Len(info) + 1 /\ waits = <<>>

OrderInv ==
  TypeInv /\ Quiet /\ ForkedLate /\ StartedInOrder /\ ListedNotWaited /\ LauncherIsThrough

LEMMA OrderInit == Init => OrderInv
BY InitType DEF Init, OrderInv, Quiet, ForkedLate, StartedInOrder, ListedNotWaited,
   LauncherIsThrough, Ids

\* The order depends on the table, the launcher and the programs alone.
LEMMA OrderKept ==
  ASSUME OrderInv, TypeInv', Quiet', ForkedLate',
         UNCHANGED <<info, next, waits, tester>>,
         launcher' = launcher \/ (launcher \in {"none", "open"} /\ launcher' # "gone")
  PROVE  OrderInv'
<1>1. Ids' = Ids /\ (\A i \in Ids : Finished(i)' = Finished(i) /\ Waited(i)' = Waited(i))
  BY DEF Ids, Finished, Waited
<1>2. \A k \in DOMAIN waits : waits[k] \in Ids
  BY DEF OrderInv, TypeInv, TypeOK
<1>3. launcher' = "gone" => launcher = "gone"
  OBVIOUS
<1>4. launcher = "wait" => launcher' = "wait"
  OBVIOUS
<1> QED
  BY <1>1, <1>2, <1>3, <1>4
  DEF OrderInv, StartedInOrder, ListedNotWaited, LauncherIsThrough, Finished

LEMMA OrderParse == ASSUME OrderInv, TypeInv', ParseAndInitView PROVE OrderInv'
<1> DEFINE n == Len(parse_testcase(config).info)
<1>1. launcher' = "none" /\ waits' = <<>> /\ pipe' = <<>>
  BY DEF ParseAndInitView, launch, OrderInv, Quiet, TypeInv, Unparsed
<1>2. Ids' = 1 .. n /\ (\A i \in 1 .. n : tester'[i] = "none" /\ said'[i] = UNTESTED)
  <2>1. /\ info' = parse_testcase(config).info
        /\ tester' = [i \in 1 .. n |-> "none"]
        /\ said' = [i \in 1 .. n |-> UNTESTED]
    BY DEF ParseAndInitView
  <2>2. parse_testcase(config).info \in Seq(Entry)
    BY ParsedTable DEF OrderInv, TypeInv, TypeOK, Parsed
  <2> QED
    BY <2>1, <2>2 DEF Ids
<1> QED
  BY <1>1, <1>2
  DEF OrderInv, Quiet, ForkedLate, StartedInOrder, ListedNotWaited, LauncherIsThrough, Finished

LEMMA OrderCore ==
  ASSUME OrderInv, TypeInv', DrawTestcase \/ ForkLauncher \/ OpenPipe \/ Listen \/ Touch
  PROVE  OrderInv'
<1>1. UNCHANGED <<info, next, waits, tester, said>> /\ Ids' = Ids
  BY DEF DrawTestcase, ForkLauncher, OpenPipe, Listen, Touch, view, launch, tests, Ids
<1>2. CASE DrawTestcase \/ Touch \/ Listen
  <2>1. /\ UNCHANGED launcher /\ (pipe = <<>> => pipe' = <<>>)
        /\ core' = "draw" => core = "draw"
    BY <1>2 DEF DrawTestcase, Touch, Listen, launch
  <2>2. Quiet' /\ ForkedLate'
    BY <1>1, <2>1 DEF OrderInv, Quiet, ForkedLate
  <2> QED
    BY <1>1, <2>1, <2>2, OrderKept
<1>3. CASE ForkLauncher \/ OpenPipe
  <2>1. /\ launcher' \in {"open", "run", "lost"} /\ pipe' = pipe
        /\ launcher \in {"none", "open"} /\ core' # "draw"
    BY <1>3 DEF ForkLauncher, OpenPipe, OrderInv, ForkedLate
  <2>2. Quiet' /\ ForkedLate'
    BY <1>1, <2>1 DEF OrderInv, Quiet, ForkedLate
  <2> QED
    BY <1>1, <2>1, <2>2, OrderKept
<1> QED
  BY <1>2, <1>3

LEMMA OrderLauncher == ASSUME OrderInv, TypeInv', LauncherStep \/ ForkFails PROVE OrderInv'
<1>1. /\ UNCHANGED <<info, core>> /\ Ids' = Ids /\ Ids = 1 .. Len(info) /\ next \in Nat
      /\ \A i \in Ids : Waited(i)' = Waited(i)
  <2>1. UNCHANGED <<info, core>>
    BY DEF LauncherStep, NoBinary, RunOneTestcase, ForkFails, WaitCompletion, WaitNoWaitTask,
           CleanUp, view
  <2> QED
    BY <2>1 DEF Ids, Waited, OrderInv, TypeInv, TypeOK
<1>2. launcher \in {"run", "wait"} /\ launcher' \in {"run", "wait", "gone"}
  BY DEF LauncherStep, NoBinary, RunOneTestcase, ForkFails, WaitCompletion, WaitNoWaitTask,
         CleanUp
<1>3. Quiet' /\ ForkedLate'
  BY <1>1, <1>2 DEF OrderInv, Quiet, ForkedLate
<1>4. waits \in Seq(Ids) /\ tester \in [Ids -> {"none", "forked", "running", "ended"}]
  BY DEF OrderInv, TypeInv, TypeOK
<1> SUFFICES StartedInOrder' /\ ListedNotWaited' /\ LauncherIsThrough'
  BY <1>3 DEF OrderInv
<1>5. CASE NoBinary \/ ForkFails
  <2> next \in Ids
    BY <1>1, <1>5 DEF NoBinary, ForkFails, OrderInv, TypeInv, TypeOK
  <2>1. /\ launcher = "run" /\ next' = next + 1
        /\ UNCHANGED <<launcher, waits, tester>>
    BY <1>5 DEF NoBinary, ForkFails, tests
  <2>2. tester[next] = "none"
    BY <2>1, <1>1, <1>4 DEF OrderInv, StartedInOrder
  <2>3. StartedInOrder'
    BY <1>1, <2>1, <2>2 DEF OrderInv, StartedInOrder, Finished
  <2> QED
    BY <1>1, <1>4, <2>1, <2>3 DEF OrderInv, ListedNotWaited, LauncherIsThrough
<1>6. CASE RunOneTestcase
  <2> next \in Ids
    BY <1>1, <1>6 DEF RunOneTestcase, OrderInv, TypeInv, TypeOK
  <2>1. /\ launcher = "run" /\ launcher' # "gone"
        /\ tester' = [tester EXCEPT ![next] = "forked"]
    BY <1>6 DEF RunOneTestcase
  <2>2. CASE Waited(next)
    <3>1. launcher' = "wait" /\ UNCHANGED <<next, waits>>
      BY <1>6, <2>2 DEF RunOneTestcase
    <3>2. StartedInOrder'
      BY <1>1, <1>4, <2>1, <3>1 DEF OrderInv, StartedInOrder, Finished
    <3> QED
      BY <1>1, <1>4, <2>1, <3>1, <3>2 DEF OrderInv, ListedNotWaited, LauncherIsThrough
  <2>3. CASE ~Waited(next)
    <3> DEFINE w == <<next>> \o waits
    <3>1. waits' = w /\ next' = next + 1 /\ launcher' = launcher
      BY <1>6, <2>3 DEF RunOneTestcase
    <3>2. /\ w \in Seq(Ids) /\ 1 \in DOMAIN w /\ w[1] = next
          /\ \A k \in DOMAIN waits : k + 1 \in DOMAIN w /\ w[k + 1] = waits[k]
          /\ \A k \in DOMAIN w : k = 1 \/ (k - 1 \in DOMAIN waits /\ w[k] = waits[k - 1])
      BY <1>4, <2>1
    <3> HIDE DEF w
    <3>3. \A i \in Ids : tester'[i] # "none" => i < next'
      BY <1>1, <1>4, <2>1, <3>1 DEF OrderInv, StartedInOrder
    <3>4. ASSUME NEW i \in Ids, i < next'
          PROVE  Finished(i)' \/ \E k \in DOMAIN waits' : waits'[k] = i
      <4>1. CASE i = next
        BY <4>1, <3>1, <3>2
      <4>2. CASE i # next
        <5>1. i < next /\ tester'[i] = tester[i]
          BY <1>1, <1>4, <2>1, <3>1, <3>4, <4>2
        <5>2. Finished(i) => Finished(i)'
          BY <5>1 DEF Finished
        <5> QED
          BY <5>1, <5>2, <3>1, <3>2 DEF OrderInv, StartedInOrder
      <4> QED
        BY <4>1, <4>2
    <3>5. StartedInOrder'
      BY <1>1, <3>3, <3>4 DEF StartedInOrder
    <3>6. ListedNotWaited'
      <4>1. ASSUME NEW k \in DOMAIN w PROVE w[k] \in Ids /\ ~Waited(w[k])
        BY <1>4, <2>3, <3>2 DEF OrderInv, ListedNotWaited
      <4> QED
        BY <4>1, <1>1, <3>1 DEF ListedNotWaited
    <3> QED
      BY <2>1, <3>5, <3>6 DEF LauncherIsThrough
  <2> QED
    BY <2>2, <2>3
<1>7. CASE WaitCompletion
  <2>1. /\ launcher = "wait" /\ launcher' = "run" /\ next' = next + 1
        /\ tester[next] = "ended" /\ UNCHANGED <<waits, tester>>
    BY <1>7 DEF WaitCompletion, tests
  <2>2. StartedInOrder'
    BY <1>1, <2>1 DEF OrderInv, StartedInOrder, Finished
  <2> QED
    BY <1>1, <1>4, <2>1, <2>2 DEF OrderInv, ListedNotWaited, LauncherIsThrough
<1>8. CASE WaitNoWaitTask
  <2> DEFINE w == Tail(waits)
  <2>1. /\ launcher = "run" /\ waits # <<>> /\ tester[Head(waits)] = "ended"
        /\ waits' = w /\ UNCHANGED <<launcher, next, tester>>
    BY <1>8 DEF WaitNoWaitTask, tests
  <2>2. /\ \A k \in DOMAIN waits : k = 1 \/ (k - 1 \in DOMAIN w /\ w[k - 1] = waits[k])
        /\ \A k \in DOMAIN w : k + 1 \in DOMAIN waits /\ w[k] = waits[k + 1]
        /\ Head(waits) = waits[1]
    BY <1>4, <2>1
  <2> HIDE DEF w
  <2>3. ASSUME NEW i \in Ids, i < next
        PROVE  Finished(i)' \/ \E k \in DOMAIN w : w[k] = i
    <3>1. CASE Finished(i)
      BY <3>1, <2>1 DEF Finished
    <3>2. CASE ~Finished(i)
      <4>1. PICK k \in DOMAIN waits : waits[k] = i
        BY <2>3, <3>2 DEF OrderInv, StartedInOrder
      <4>2. k # 1
        BY <4>1, <3>2, <2>1, <2>2 DEF Finished
      <4> QED
        BY <4>1, <4>2, <2>2
    <3> QED
      BY <3>1, <3>2
  <2>4. StartedInOrder'
    BY <1>1, <2>1, <2>3 DEF OrderInv, StartedInOrder, Finished
  <2>5. ListedNotWaited'
    BY <1>1, <1>4, <2>1, <2>2 DEF OrderInv, ListedNotWaited
  <2> QED
    BY <2>1, <2>4, <2>5 DEF LauncherIsThrough
<1>9. CASE CleanUp
  <2>1. /\ launcher = "run" /\ next > Len(info) /\ waits = <<>> /\ launcher' = "gone"
        /\ UNCHANGED <<next, waits, tester>>
    BY <1>9 DEF CleanUp, tests
  <2>2. next = Len(info) + 1
    BY <1>1, <2>1 DEF OrderInv, TypeInv, TypeOK
  <2>3. StartedInOrder'
    BY <1>1, <2>1, <2>2 DEF OrderInv, StartedInOrder, Finished
  <2> QED
    BY <1>1, <2>1, <2>2, <2>3 DEF ListedNotWaited, LauncherIsThrough
<1> QED
  BY <1>5, <1>6, <1>7, <1>8, <1>9 DEF LauncherStep

LEMMA OrderTester == ASSUME OrderInv, TypeInv', NEW i \in Ids, TesterAction(i) PROVE OrderInv'
<1>1. UNCHANGED <<info, core, launcher, next, waits>> /\ Ids' = Ids
  BY DEF TesterAction, TesterStep, Exec, CannotExec, Exit, Report, Crash, view, launch, Ids
<1>2. tester[i] \in {"forked", "running"}
  BY DEF TesterAction, TesterStep, Exec, CannotExec, Exit, Report, Crash
<1>3. tester' = tester \/ \E t \in {"running", "ended"} : tester' = [tester EXCEPT ![i] = t]
  BY DEF TesterAction, TesterStep, Exec, CannotExec, Exit, Report, Crash
<1>4. tester \in [Ids -> {"none", "forked", "running", "ended"}]
  BY DEF OrderInv, TypeInv, TypeOK
<1>5. /\ \A j \in Ids : tester'[j] # "none" => tester[j] # "none"
      /\ \A j \in Ids : Finished(j) => Finished(j)'
  BY <1>2, <1>3, <1>4 DEF Finished
<1>6. launcher \notin {"none", "open", "lost"}
  BY <1>2 DEF OrderInv, Quiet
<1>7. Quiet' /\ ForkedLate'
  BY <1>1, <1>6 DEF OrderInv, Quiet, ForkedLate
<1>8. StartedInOrder'
  BY <1>1, <1>5 DEF OrderInv, StartedInOrder
<1>9. ListedNotWaited' /\ LauncherIsThrough'
  BY <1>1 DEF OrderInv, ListedNotWaited, LauncherIsThrough, Waited
<1> QED
  BY <1>7, <1>8, <1>9 DEF OrderInv

LEMMA OrderStep == OrderInv /\ [Next]_vars => OrderInv'
<1> SUFFICES ASSUME OrderInv, [Next]_vars PROVE OrderInv'
  OBVIOUS
<1>1. TypeInv'
  BY TypeStep DEF OrderInv
<1>2. CASE ParseAndInitView
  BY <1>1, <1>2, OrderParse
<1>3. CASE DrawTestcase \/ ForkLauncher \/ OpenPipe \/ Listen \/ Touch
  BY <1>1, <1>3, OrderCore
<1>4. CASE LauncherStep \/ ForkFails
  BY <1>1, <1>4, OrderLauncher
<1>5. CASE \E i \in Ids : TesterStep(i) \/ Report(i, UNTESTED) \/ Crash(i)
  BY <1>1, <1>5, OrderTester DEF TesterAction
<1>6. CASE UNCHANGED vars
  <2>1. Quiet' /\ ForkedLate'
    BY <1>6 DEF vars, OrderInv, Quiet, ForkedLate, Ids
  <2> QED
    BY <1>1, <1>6, <2>1, OrderKept DEF vars
<1> QED
  BY <1>2, <1>3, <1>4, <1>5, <1>6 DEF Next, CoreStep

\* A test case that the launcher waits for has ended before a later one is started.
THEOREM WaitedAlone == Spec => []WaitedTestsRunAlone
<1>1. OrderInv => WaitedTestsRunAlone
  <2> SUFFICES ASSUME OrderInv, NEW i \in Ids, NEW j \in Ids, i < j, tester[j] # "none", Waited(i)
               PROVE  tester[i] \in {"none", "ended"}
    BY DEF WaitedTestsRunAlone, Waited
  <2>1. i \in Nat /\ j \in Nat /\ next \in Nat
    BY DEF OrderInv, TypeInv, TypeOK, Ids
  <2>2. i < next
    BY <2>1 DEF OrderInv, StartedInOrder
  <2>3. \A k \in DOMAIN waits : waits[k] # i
    BY DEF OrderInv, ListedNotWaited
  <2> QED
    BY <2>2, <2>3 DEF OrderInv, StartedInOrder, Finished
<1> QED
  BY OrderInit, OrderStep, <1>1, PTL DEF Spec
-----------------------------------------------------------------------------
(* What is on its way.                                                     *)

About(k, i) == pipe[k][1] = i

\* The completion message is the last one in the pipe.
DoneIsLast == \A k \in DOMAIN pipe : About(k, 0) => k = Len(pipe) /\ launcher = "gone"

OverIsOver == core = "over" => pipe = <<>> /\ launcher = "gone"

\* The last line in the pipe about a test case is the last result written about it.
LastLineIsSaid ==
  \A i \in Ids, k \in DOMAIN pipe :
    About(k, i) /\ (\A l \in DOMAIN pipe : l > k => ~About(l, i)) => pipe[k][2] = said[i]

\* An item with no line about it in the pipe shows the last result.
ShownWhenHeard ==
  \A i \in DOMAIN status \ {0} :
    (\A k \in DOMAIN pipe : ~About(k, i)) => status[i] = said[i]

RunInv == OrderInv /\ DoneIsLast /\ OverIsOver /\ LastLineIsSaid /\ ShownWhenHeard

LEMMA ChannelInit == Init => RunInv
BY OrderInit DEF Init, RunInv, DoneIsLast, OverIsOver, LastLineIsSaid, ShownWhenHeard, Ids

\* A step without a line, that touches no item but the built-in one.
LEMMA ChannelKept ==
  ASSUME RunInv, OrderInv', UNCHANGED <<info, said, pipe>>,
         launcher = "gone" => launcher' = "gone",
         core' = "over" => core = "over",
         DOMAIN status' = DOMAIN status,
         \A i \in DOMAIN status \ {0} : status'[i] = status[i]
  PROVE  RunInv'
<1>1. Ids' = Ids /\ (\A k \in DOMAIN pipe : \A i \in Ids \cup {0} : About(k, i)' = About(k, i))
  BY DEF Ids, About
<1>2. DOMAIN status \subseteq Ids \cup {0}
  BY DEF RunInv, OrderInv, TypeInv, TypeOK
<1>3. DoneIsLast' /\ OverIsOver'
  BY <1>1 DEF RunInv, DoneIsLast, OverIsOver
<1>4. LastLineIsSaid'
  BY <1>1 DEF RunInv, LastLineIsSaid
<1>5. ShownWhenHeard'
  BY <1>1, <1>2 DEF RunInv, ShownWhenHeard
<1> QED
  BY <1>3, <1>4, <1>5 DEF RunInv

\* A step before anything is said.
LEMMA ChannelQuiet ==
  ASSUME OrderInv', Quiet', launcher' = "none", core' # "over",
         \A i \in DOMAIN status' \ {0} : status'[i] = UNTESTED
  PROVE  RunInv'
<1>1. pipe' = <<>> /\ \A i \in Ids' : said'[i] = UNTESTED
  BY DEF Quiet
<1>2. DOMAIN status' \subseteq Ids' \cup {0}
  BY DEF OrderInv, TypeInv, TypeOK
<1> QED
  BY <1>1, <1>2 DEF RunInv, DoneIsLast, OverIsOver, LastLineIsSaid, ShownWhenHeard

\* A result is written while the launcher is still at work.
LEMMA ChannelWrite ==
  ASSUME RunInv, OrderInv', NEW i \in Ids, NEW r \in Results, Write(i, r),
         UNCHANGED <<info, core, status, launcher>>, launcher # "gone"
  PROVE  RunInv'
<1> DEFINE n == Len(pipe)
           p == Append(pipe, <<i, r>>)
<1>1. /\ pipe \in Seq(Lines) /\ said \in [Ids -> Results] /\ i # 0
      /\ DOMAIN status \subseteq Ids \cup {0}
  <2>1. TypeOK
    BY DEF RunInv, OrderInv, TypeInv
  <2>2. Ids = 1 .. Len(info) /\ Len(info) \in Nat
    BY <2>1 DEF TypeOK, Ids
  <2> QED
    BY <2>1, <2>2 DEF TypeOK
<1>2. pipe' = p /\ said' = [said EXCEPT ![i] = r] /\ Ids' = Ids
  BY DEF Write, Ids
<1>3. /\ n \in Nat /\ DOMAIN pipe = 1 .. n /\ DOMAIN p = 1 .. n + 1
      /\ p[n + 1] = <<i, r>> /\ \A k \in 1 .. n : p[k] = pipe[k]
  BY <1>1
<1> HIDE DEF n, p
<1>4. \A k \in DOMAIN pipe : ~About(k, 0)
  BY DEF RunInv, DoneIsLast
<1>5. DoneIsLast'
  BY <1>1, <1>2, <1>3, <1>4 DEF DoneIsLast, About
<1>6. OverIsOver'
  BY DEF RunInv, OverIsOver
<1>7. ASSUME NEW j \in Ids, NEW k \in 1 .. n + 1, p[k][1] = j,
             \A l \in 1 .. n + 1 : l > k => p[l][1] # j
      PROVE  p[k][2] = said'[j]
  <2>1. CASE j = i
    <3>1. k = n + 1
      BY <1>3, <1>7, <2>1
    <3> QED
      BY <1>1, <1>2, <1>3, <2>1, <3>1
  <2>2. CASE j # i
    <3>1. k \in 1 .. n /\ said'[j] = said[j]
      BY <1>1, <1>2, <1>3, <1>7, <2>2
    <3>2. About(k, j) /\ \A l \in DOMAIN pipe : l > k => ~About(l, j)
      BY <1>3, <1>7, <3>1 DEF About
    <3> QED
      BY <1>3, <3>1, <3>2 DEF RunInv, LastLineIsSaid
  <2> QED
    BY <2>1, <2>2
<1>8. LastLineIsSaid'
  BY <1>2, <1>3, <1>7 DEF LastLineIsSaid, About
<1>9. ASSUME NEW j \in DOMAIN status \ {0}, \A k \in 1 .. n + 1 : p[k][1] # j
      PROVE  status[j] = said'[j]
  <2>1. j # i /\ j \in Ids
    BY <1>1, <1>3, <1>9
  <2>2. \A k \in DOMAIN pipe : ~About(k, j)
    BY <1>3, <1>9 DEF About
  <2> QED
    BY <1>1, <1>2, <2>1, <2>2 DEF RunInv, ShownWhenHeard
<1>10. ShownWhenHeard'
  BY <1>2, <1>3, <1>9 DEF ShownWhenHeard, About
<1> QED
  BY <1>5, <1>6, <1>8, <1>10 DEF RunInv

\* The completion message is written.
LEMMA ChannelDone == ASSUME RunInv, OrderInv', CleanUp PROVE RunInv'
<1> DEFINE n == Len(pipe)
           p == Append(pipe, DONE)
<1>1. /\ pipe \in Seq(Lines) /\ DOMAIN status \subseteq Ids \cup {0}
      /\ \A j \in Ids : j # 0
  BY DEF RunInv, OrderInv, TypeInv, TypeOK, Ids
<1>2. /\ pipe' = p /\ launcher' = "gone" /\ launcher # "gone"
      /\ UNCHANGED <<core, status, said>> /\ Ids' = Ids
  BY DEF CleanUp, view, tests, Ids
<1>3. /\ n \in Nat /\ DOMAIN pipe = 1 .. n /\ DOMAIN p = 1 .. n + 1 /\ Len(p) = n + 1
      /\ p[n + 1] = DONE /\ \A k \in 1 .. n : p[k] = pipe[k]
  BY <1>1
<1>4. DONE[1] = 0
  BY DEF DONE
<1> HIDE DEF n, p
<1>5. \A k \in DOMAIN pipe : ~About(k, 0)
  BY <1>2 DEF RunInv, DoneIsLast
<1>6. DoneIsLast'
  BY <1>2, <1>3, <1>5 DEF DoneIsLast, About
<1>7. OverIsOver'
  BY <1>2 DEF RunInv, OverIsOver
<1>8. ASSUME NEW j \in Ids, NEW k \in 1 .. n + 1, p[k][1] = j,
             \A l \in 1 .. n + 1 : l > k => p[l][1] # j
      PROVE  p[k][2] = said[j]
  <2>1. k \in 1 .. n
    BY <1>1, <1>3, <1>4, <1>8
  <2>2. About(k, j) /\ \A l \in DOMAIN pipe : l > k => ~About(l, j)
    BY <1>3, <1>8, <2>1 DEF About
  <2> QED
    BY <1>3, <2>1, <2>2 DEF RunInv, LastLineIsSaid
<1>9. LastLineIsSaid'
  BY <1>2, <1>3, <1>8 DEF LastLineIsSaid, About
<1>10. ShownWhenHeard'
  <2>1. \A j \in DOMAIN status \ {0} :
          (\A k \in DOMAIN p : p[k][1] # j) => (\A k \in DOMAIN pipe : ~About(k, j))
    BY <1>3 DEF About
  <2> QED
    BY <1>2, <2>1 DEF RunInv, ShownWhenHeard, About
<1> QED
  BY <1>6, <1>7, <1>9, <1>10 DEF RunInv

\* The core reads a line.
LEMMA ChannelListen == ASSUME RunInv, OrderInv', Listen PROVE RunInv'
<1> DEFINE n == Len(pipe)
           p == Tail(pipe)
<1>1. /\ pipe \in Seq(Lines) /\ said \in [Ids -> Results]
      /\ DOMAIN status \subseteq Ids \cup {0}
      /\ \A j \in Ids : j # 0
  BY DEF RunInv, OrderInv, TypeInv, TypeOK, Ids
<1>2. /\ pipe # <<>> /\ pipe' = p /\ core = "listen"
      /\ UNCHANGED <<info, launcher, said>> /\ Ids' = Ids
      /\ IF Head(pipe) = DONE THEN core' = "over" /\ UNCHANGED status
         ELSE status' = Updated(Head(pipe)[1], Head(pipe)[2]) /\ UNCHANGED core
  BY DEF Listen, launch, tests, Ids
<1>3. /\ n \in Nat \ {0} /\ DOMAIN pipe = 1 .. n /\ DOMAIN p = 1 .. n - 1 /\ Len(p) = n - 1
      /\ Head(pipe) = pipe[1] /\ \A k \in 1 .. n - 1 : p[k] = pipe[k + 1]
  BY <1>1, <1>2
<1>4. DONE[1] = 0
  BY DEF DONE
<1>5. n = 1 => p = <<>>
  BY <1>1, <1>2
<1> HIDE DEF n, p
<1>6. DoneIsLast'
  BY <1>2, <1>3 DEF RunInv, DoneIsLast, About
<1>7. OverIsOver'
  <2>1. CASE Head(pipe) = DONE
    <3>1. About(1, 0)
      BY <2>1, <1>3, <1>4 DEF About
    <3>2. n = 1 /\ launcher = "gone"
      BY <3>1, <1>3 DEF RunInv, DoneIsLast, n
    <3> QED
      BY <3>2, <1>2, <1>5 DEF OverIsOver
  <2>2. CASE Head(pipe) # DONE
    BY <2>2, <1>2 DEF OverIsOver
  <2> QED
    BY <2>1, <2>2
<1>8. LastLineIsSaid'
  <2>1. ASSUME NEW j \in Ids, NEW k \in 1 .. n - 1, p[k][1] = j,
               \A l \in 1 .. n - 1 : l > k => p[l][1] # j
        PROVE  p[k][2] = said[j]
    <3>1. k + 1 \in DOMAIN pipe /\ About(k + 1, j)
      BY <1>3, <2>1 DEF About
    <3>2. ASSUME NEW l \in DOMAIN pipe, l > k + 1 PROVE ~About(l, j)
      <4>1. l - 1 \in 1 .. n - 1 /\ l - 1 > k /\ p[l - 1] = pipe[l]
        BY <1>3, <2>1, <3>2
      <4> QED
        BY <4>1, <2>1 DEF About
    <3>3. p[k] = pipe[k + 1]
      BY <1>3
    <3> QED
      BY <3>1, <3>2, <3>3 DEF RunInv, LastLineIsSaid
  <2>2. DOMAIN p = 1 .. n - 1
    BY <1>3
  <2> QED
    BY <1>2, <2>1, <2>2 DEF LastLineIsSaid, About
<1>9. /\ DOMAIN status' = DOMAIN status
      /\ \A j \in DOMAIN status \ {0} :
           status'[j] = IF pipe[1][1] = j THEN pipe[1][2] ELSE status[j]
  <2>1. CASE Head(pipe) = DONE
    BY <2>1, <1>2, <1>3, <1>4
  <2>2. CASE Head(pipe) # DONE
    BY <2>2, <1>2, <1>3 DEF Updated
  <2> QED
    BY <2>1, <2>2
<1>10. ShownWhenHeard'
  <2>1. ASSUME NEW j \in DOMAIN status \ {0}, \A k \in 1 .. n - 1 : p[k][1] # j
        PROVE  status'[j] = said[j]
    <3>1. ASSUME NEW l \in DOMAIN pipe, l > 1 PROVE ~About(l, j)
      <4>1. l - 1 \in 1 .. n - 1 /\ p[l - 1] = pipe[l]
        BY <1>3, <3>1
      <4> QED
        BY <4>1, <2>1 DEF About
    <3>2. CASE pipe[1][1] = j
      BY <3>1, <3>2, <1>1, <1>3, <1>9 DEF RunInv, LastLineIsSaid, About
    <3>3. CASE pipe[1][1] # j
      <4>1. \A k \in DOMAIN pipe : ~About(k, j)
        BY <3>1, <3>3, <1>3 DEF About
      <4> QED
        BY <4>1, <3>3, <1>9 DEF RunInv, ShownWhenHeard
    <3> QED
      BY <3>2, <3>3
  <2>2. DOMAIN p = 1 .. n - 1
    BY <1>3
  <2> QED
    BY <1>2, <1>9, <2>1, <2>2 DEF ShownWhenHeard, About
<1> QED
  BY <1>6, <1>7, <1>8, <1>10 DEF RunInv

LEMMA ChannelCore ==
  ASSUME RunInv, OrderInv',
         ParseAndInitView \/ DrawTestcase \/ ForkLauncher \/ OpenPipe \/ Touch
  PROVE  RunInv'
<1>1. CASE ParseAndInitView
  <2>1. /\ core = "parse" /\ core' # "over" /\ launcher' = launcher
        /\ status' = [i \in (IF lcd THEN {0} ELSE {}) |-> UNTESTED]
    BY <1>1 DEF ParseAndInitView, launch
  <2>2. launcher' = "none"
    BY <2>1 DEF RunInv, OrderInv, TypeInv, Unparsed
  <2>3. DOMAIN status' \ {0} = {}
    BY <2>1
  <2> QED
    BY <2>1, <2>2, <2>3, ChannelQuiet DEF OrderInv
<1>2. CASE DrawTestcase
  <2> DEFINE k == drawn + 1
             more == [j \in DOMAIN status \cup {k} |-> IF j = k THEN UNTESTED ELSE status[j]]
  <2>1. core = "draw" /\ core' = "draw" /\ launcher' = launcher
    BY <1>2 DEF DrawTestcase, launch
  <2>2. launcher = "none"
    BY <2>1 DEF RunInv, OrderInv, ForkedLate
  <2>3. \A i \in DOMAIN status \ {0} : status[i] = UNTESTED
    <3>1. pipe = <<>> /\ \A i \in Ids : said[i] = UNTESTED
      BY <2>2 DEF RunInv, OrderInv, Quiet
    <3>2. DOMAIN status \subseteq Ids \cup {0}
      BY DEF RunInv, OrderInv, TypeInv, TypeOK
    <3> QED
      BY <3>1, <3>2 DEF RunInv, ShownWhenHeard
  <2>4. status' = status \/ status' = more
    BY <1>2 DEF DrawTestcase, Inserted
  <2>5. \A i \in DOMAIN status' \ {0} : status'[i] = UNTESTED
    BY <2>3, <2>4
  <2> QED
    BY <2>1, <2>2, <2>5, ChannelQuiet DEF OrderInv
<1>3. CASE ForkLauncher \/ OpenPipe
  <2>1. /\ UNCHANGED <<info, status, said, pipe>> /\ core' # "over"
        /\ launcher = "open" \/ core = "draw"
    BY <1>3 DEF ForkLauncher, OpenPipe, view, tests
  <2>2. launcher # "gone"
    BY <2>1 DEF RunInv, OrderInv, ForkedLate
  <2> QED
    BY <2>1, <2>2, ChannelKept
<1>4. CASE Touch
  <2>1. UNCHANGED <<info, core, launcher, said, pipe>> /\ status' = Updated(0, OK)
    BY <1>4 DEF Touch, launch, tests
  <2>2. DOMAIN status' = DOMAIN status /\ \A i \in DOMAIN status \ {0} : status'[i] = status[i]
    BY <2>1 DEF Updated
  <2> QED
    BY <2>1, <2>2, ChannelKept
<1> QED
  BY <1>1, <1>2, <1>3, <1>4

LEMMA ChannelLauncher ==
  ASSUME RunInv, OrderInv', LauncherStep \/ ForkFails
  PROVE  RunInv'
<1>1. CASE NoBinary
  <2>1. /\ launcher # "gone" /\ UNCHANGED <<info, core, status, launcher>>
        /\ next <= Len(info) /\ Write(next, FAIL)
    BY <1>1 DEF NoBinary, view
  <2>2. next \in Ids /\ FAIL \in Results
    BY <2>1 DEF RunInv, OrderInv, TypeInv, TypeOK, Ids, Results
  <2> QED
    BY <2>1, <2>2, ChannelWrite
<1>2. CASE CleanUp
  BY <1>2, ChannelDone
<1>3. CASE RunOneTestcase \/ ForkFails \/ WaitCompletion \/ WaitNoWaitTask
  <2>1. UNCHANGED <<info, core, status, said, pipe>> /\ launcher # "gone"
    BY <1>3 DEF RunOneTestcase, ForkFails, WaitCompletion, WaitNoWaitTask, view, tests
  <2> QED
    BY <2>1, ChannelKept
<1> QED
  BY <1>1, <1>2, <1>3 DEF LauncherStep

LEMMA ChannelTester ==
  ASSUME RunInv, OrderInv', NEW i \in Ids, TesterAction(i)
  PROVE  RunInv'
<1>1. UNCHANGED <<info, core, status, launcher>>
  BY DEF TesterAction, TesterStep, Exec, CannotExec, Exit, Report, Crash, view, launch
<1>2. launcher # "gone"
  <2>1. tester[i] \in {"forked", "running"}
    BY DEF TesterAction, TesterStep, Exec, CannotExec, Exit, Report, Crash
  <2>2. launcher = "gone" => i < next
    BY DEF RunInv, OrderInv, LauncherIsThrough, TypeInv, TypeOK, Ids
  <2> QED
    BY <2>1, <2>2 DEF RunInv, OrderInv, LauncherIsThrough, StartedInOrder, Finished
<1>3. CASE Exec(i) \/ Exit(i) \/ Crash(i)
  <2>1. UNCHANGED <<said, pipe>>
    BY <1>3 DEF Exec, Exit, Crash
  <2> QED
    BY <1>1, <2>1, ChannelKept
<1>4. CASE CannotExec(i) \/ Report(i, UNTESTED) \/ Report(i, OK) \/ Report(i, FAIL)
  <2>1. PICK r \in Results : Write(i, r)
    BY <1>4 DEF CannotExec, Report, Results
  <2> QED
    BY <1>1, <1>2, <2>1, ChannelWrite
<1> QED
  BY <1>3, <1>4 DEF TesterAction, TesterStep

LEMMA RunStep == RunInv /\ [Next]_vars => RunInv'
<1> SUFFICES ASSUME RunInv, [Next]_vars PROVE RunInv'
  OBVIOUS
<1>1. OrderInv'
  BY OrderStep DEF RunInv
<1>2. CASE ParseAndInitView \/ DrawTestcase \/ ForkLauncher \/ OpenPipe \/ Touch
  BY <1>1, <1>2, ChannelCore
<1>3. CASE Listen
  BY <1>1, <1>3, ChannelListen
<1>4. CASE LauncherStep \/ ForkFails
  BY <1>1, <1>4, ChannelLauncher
<1>5. CASE \E i \in Ids : TesterStep(i) \/ Report(i, UNTESTED) \/ Crash(i)
  BY <1>1, <1>5, ChannelTester DEF TesterAction
<1>6. CASE UNCHANGED vars
  BY <1>1, <1>6, ChannelKept DEF vars
<1> QED
  BY <1>2, <1>3, <1>4, <1>5, <1>6 DEF Next, CoreStep

\* When the core stops listening all programs have ended, nothing is left in the pipe,
\* and each item shows the last result that was written about its test case.
THEOREM NothingMissed == Spec => []NothingMissedAtTheEnd
<1>1. RunInv => NothingMissedAtTheEnd
  <2> SUFFICES ASSUME RunInv, core = "over" PROVE NothingMissedAtTheEnd
    BY DEF NothingMissedAtTheEnd
  <2>1. pipe = <<>> /\ launcher = "gone"
    BY DEF RunInv, OverIsOver
  <2>2. \A i \in Ids : i < next
    BY <2>1 DEF RunInv, OrderInv, LauncherIsThrough, TypeInv, TypeOK, Ids
  <2>3. waits = <<>>
    BY <2>1 DEF RunInv, OrderInv, LauncherIsThrough
  <2> QED
    BY <2>1, <2>2, <2>3
    DEF RunInv, OrderInv, StartedInOrder, Finished, ShownWhenHeard, NothingMissedAtTheEnd
<1> QED
  BY ChannelInit, RunStep, <1>1, PTL DEF Spec
=============================================================================
