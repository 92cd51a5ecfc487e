-------------------------- MODULE IRQThreadsProofs --------------------------
(***************************************************************************)
(* Proofs about IRQThreads, for any crates, chambers and threshold.        *)
(***************************************************************************)
EXTENDS IRQThreads, FiniteSetTheorems, WellFoundedInduction, TLAPS

\* The element that is added first.
Chosen(s) == CHOOSE x \in s : TRUE

\* g adds up the values of f over sets of crates.
IsSum(g, f) ==
  g = [s \in SUBSET Crates |->
         IF s = {} THEN 0 ELSE f[Chosen(s)] + g[s \ {Chosen(s)}]]

-----------------------------------------------------------------------------
\* Induction, as a set of sets of crates that is closed.
LEMMA CratesByInduction ==
  ASSUME NEW G, {} \in G,
         \A T \in SUBSET Crates :
            T # {} /\ T \ {Chosen(T)} \in G => T \in G
  PROVE  \A T \in SUBSET Crates : T \in G
<1> DEFINE Bad == {T \in SUBSET Crates : T \notin G}
<1>1. SUFFICES ASSUME Bad # {} PROVE FALSE
  OBVIOUS
<1>2. Bad \subseteq FiniteSubsetsOf(Crates)
  BY IRQThreadsAssumption, FS_FiniteSubsetsOfFinite
<1>3. PICK T \in Bad : \A U \in Bad : ~(<<U, T>> \in StrictSubsetOrdering(Crates))
  <2> HIDE DEF Bad
  <2> QED
    BY <1>1, <1>2, WFMin, FS_StrictSubsetOrderingWellFounded
<1>4. T \in SUBSET Crates /\ T # {} /\ T \notin G
  OBVIOUS
<1>5. Chosen(T) \in T
  BY <1>4 DEF Chosen
<1> DEFINE U == T \ {Chosen(T)}
<1>6. U \in SUBSET Crates /\ U \subseteq T /\ U # T
  BY <1>4, <1>5
<1>7. U \in G
  <2>1. <<U, T>> \in StrictSubsetOrdering(Crates)
    BY <1>4, <1>6 DEF StrictSubsetOrdering
  <2>2. U \notin Bad
    BY <1>3, <2>1
  <2> HIDE DEF U
  <2> QED
    BY <1>6, <2>2
<1> QED
  BY <1>4, <1>7

\* Induction on natural numbers, as a set that is closed.
LEMMA NumbersByInduction ==
  ASSUME NEW A, 0 \in A, \A n \in Nat : n \in A => n + 1 \in A
  PROVE  \A n \in Nat : n \in A
<1> DEFINE Segments == {1..x : x \in {n \in Nat : n \notin A}}
<1>1. SUFFICES ASSUME Segments # {} PROVE FALSE
  OBVIOUS
<1>2. Segments \subseteq FiniteSubsetsOf(Nat)
  <2>1. \A x \in Nat : 1..x \in SUBSET Nat /\ IsFiniteSet(1..x)
    BY FS_Interval
  <2> QED
    BY <2>1 DEF FiniteSubsetsOf
<1>3. PICK T \in Segments : \A U \in Segments : ~(<<U, T>> \in StrictSubsetOrdering(Nat))
  <2> HIDE DEF Segments
  <2> QED
    BY <1>1, <1>2, WFMin, FS_StrictSubsetOrderingWellFounded
<1>4. PICK x \in Nat : x \notin A /\ T = 1..x
  OBVIOUS
<1>5. x # 0 /\ x - 1 \in Nat
  BY <1>4
<1>6. x - 1 \notin A
  BY <1>4, <1>5
<1>7. 1..(x - 1) \in Segments
  BY <1>5, <1>6
<1>8. <<1..(x - 1), 1..x>> \in StrictSubsetOrdering(Nat)
  <2>1. 1..(x - 1) \subseteq 1..x /\ x \in 1..x /\ x \notin 1..(x - 1)
    BY <1>5
  <2> QED
    BY <2>1 DEF StrictSubsetOrdering
<1> QED
  BY <1>3, <1>4, <1>7, <1>8

\* The recursion by which Sum is defined has a solution.
LEMMA SumExists ==
  ASSUME NEW f
  PROVE  \E g : IsSum(g, f)
<1> DEFINE D(n) == {s \in SUBSET Crates : Cardinality(s) <= n}
           Solves(g, n) == g = [s \in D(n) |-> IF s = {} THEN 0 ELSE f[Chosen(s)] + g[s \ {Chosen(s)}]]
           A == {n \in Nat : \E g : Solves(g, n)}
<1>1. \A s \in SUBSET Crates : IsFiniteSet(s) /\ Cardinality(s) \in Nat
  BY IRQThreadsAssumption, FS_Subset, FS_CardinalityType
<1>2. \A s \in SUBSET Crates : s # {} => 
         Cardinality(s \ {Chosen(s)}) = Cardinality(s) - 1
  <2> TAKE s \in SUBSET Crates
  <2> HAVE s # {}
  <2>1. Chosen(s) \in s
    BY DEF Chosen
  <2> QED
    BY <1>1, <2>1, FS_RemoveElement
<1>3. 0 \in A
  <2> DEFINE g == [s \in D(0) |-> 0]
  <2>1. \A s \in D(0) : s = {}
    BY <1>1, FS_EmptySet
  <2>2. Solves(g, 0)
    BY <2>1
  <2> QED
    BY <2>2
<1>4. ASSUME NEW n \in Nat, n \in A PROVE n + 1 \in A
  <2>1. PICK g : Solves(g, n)
    BY <1>4
  <2> DEFINE h == [s \in D(n + 1) |-> IF s = {} THEN 0 ELSE f[Chosen(s)] + g[s \ {Chosen(s)}]]
  <2>2. \A s \in D(n) : h[s] = g[s]
    <3>1. \A s \in D(n) : s \in D(n + 1)
      BY <1>1
    <3>2. \A s \in D(n) : h[s] = IF s = {} THEN 0 ELSE f[Chosen(s)] + g[s \ {Chosen(s)}]
      BY <3>1
    <3>3. \A s \in D(n) : g[s] = IF s = {} THEN 0 ELSE f[Chosen(s)] + g[s \ {Chosen(s)}]
      BY <2>1
    <3> QED
      BY <3>2, <3>3
  <2>3. \A s \in D(n + 1) : s # {} => s \ {Chosen(s)} \in D(n)
    BY <1>1, <1>2
  <2>4. Solves(h, n + 1)
    <3>1. h = [s \in D(n + 1) |-> IF s = {} THEN 0 ELSE f[Chosen(s)] + g[s \ {Chosen(s)}]]
      OBVIOUS
    <3> HIDE DEF D, h
    <3>2. \A s \in D(n + 1) : s # {} => h[s \ {Chosen(s)}] = g[s \ {Chosen(s)}]
      BY <2>2, <2>3
    <3>3. \A s \in D(n + 1) : (IF s = {} THEN 0 ELSE f[Chosen(s)] + g[s \ {Chosen(s)}])
                              = IF s = {} THEN 0 ELSE f[Chosen(s)] + h[s \ {Chosen(s)}]
      BY <3>2
    <3> QED
      BY <3>1, <3>3
  <2> HIDE DEF Solves, h
  <2>5. \E u : Solves(u, n + 1)
    BY <2>4
  <2> QED
    BY <2>5
<1>5. Cardinality(Crates) \in A
  <2> HIDE DEF A
  <2>1. \A n \in Nat : n \in A
    BY <1>3, <1>4, NumbersByInduction
  <2> QED
    BY <1>1, <2>1
<1>6. PICK g : Solves(g, Cardinality(Crates))
  BY <1>5
<1>7. D(Cardinality(Crates)) = SUBSET Crates
  BY IRQThreadsAssumption, FS_Subset
<1> QED
  BY <1>6, <1>7 DEF IsSum

\* What adding up the values of a function comes to, crate by crate.
LEMMA SumIs ==
  ASSUME NEW f
  PROVE  \E g : /\ Sum(f) = g[Crates]
                /\ g[{}] = 0
                /\ \A T \in SUBSET Crates : T # {} =>
                     Chosen(T) \in T /\ g[T] = f[Chosen(T)] + g[T \ {Chosen(T)}]
<1> DEFINE it == CHOOSE g : IsSum(g, f)
<1>1. IsSum(it, f)
  BY SumExists
<1>2. Sum(f) = it[Crates]
  BY DEF Sum, MapThenSumSet, MapThenFoldSet, IsSum, Chosen
<1> HIDE DEF it
<1>3. it[{}] = 0
  BY <1>1 DEF IsSum
<1>4. ASSUME NEW T \in SUBSET Crates, T # {}
      PROVE  Chosen(T) \in T /\ it[T] = f[Chosen(T)] + it[T \ {Chosen(T)}]
  <2>1. Chosen(T) \in T
    BY <1>4 DEF Chosen
  <2> QED
    BY <1>1, <1>4, <2>1 DEF IsSum
<1> QED
  BY <1>2, <1>3, <1>4

\* A sum of smaller numbers is smaller.
LEMMA SumMonotone ==
  ASSUME NEW f, NEW h, \A c \in Crates : f[c] \in Int /\ h[c] \in Int /\ f[c] <= h[c]
  PROVE  Sum(f) \in Int /\ Sum(h) \in Int /\ Sum(f) <= Sum(h)
<1>1. PICK g : /\ Sum(f) = g[Crates]
               /\ g[{}] = 0
               /\ \A T \in SUBSET Crates : T # {} =>
                    Chosen(T) \in T /\ g[T] = f[Chosen(T)] + g[T \ {Chosen(T)}]
  BY SumIs
<1>2. PICK k : /\ Sum(h) = k[Crates]
               /\ k[{}] = 0
               /\ \A T \in SUBSET Crates : T # {} =>
                    Chosen(T) \in T /\ k[T] = h[Chosen(T)] + k[T \ {Chosen(T)}]
  BY SumIs
<1> DEFINE G == {T \in SUBSET Crates : g[T] \in Int /\ k[T] \in Int /\ g[T] <= k[T]}
<1>3. {} \in G
  BY <1>1, <1>2
<1>4. ASSUME NEW T \in SUBSET Crates, T # {}, T \ {Chosen(T)} \in G
      PROVE  T \in G
  <2> DEFINE U == T \ {Chosen(T)}
  <2>0. U \in G
    BY <1>4
  <2> HIDE DEF G
  <2>1. Chosen(T) \in T /\ g[T] = f[Chosen(T)] + g[U]
    BY <1>1, <1>4
  <2>2. k[T] = h[Chosen(T)] + k[U]
    BY <1>2, <1>4
  <2> HIDE DEF U
  <2> USE DEF G
  <2> QED
    BY <2>0, <2>1, <2>2
<1>5. Crates \in G
  <2> HIDE DEF G
  <2> QED
    BY <1>3, <1>4, CratesByInduction
<1> QED
  BY <1>1, <1>2, <1>5

\* The difference of two sums is the sum of the differences.
LEMMA SumDifference ==
  ASSUME NEW f, NEW h, \A c \in Crates : f[c] \in Int /\ h[c] \in Int
  PROVE  Sum(f) - Sum(h) = Sum([c \in Crates |-> f[c] - h[c]])
<1> DEFINE d == [c \in Crates |-> f[c] - h[c]]
<1>0. \A c \in Crates : d[c] = f[c] - h[c]
  OBVIOUS
<1> HIDE DEF d
<1>1. PICK g : /\ Sum(f) = g[Crates]
               /\ g[{}] = 0
               /\ \A T \in SUBSET Crates : T # {} =>
                    Chosen(T) \in T /\ g[T] = f[Chosen(T)] + g[T \ {Chosen(T)}]
  BY SumIs
<1>2. PICK k : /\ Sum(h) = k[Crates]
               /\ k[{}] = 0
               /\ \A T \in SUBSET Crates : T # {} =>
                    Chosen(T) \in T /\ k[T] = h[Chosen(T)] + k[T \ {Chosen(T)}]
  BY SumIs
<1>3. PICK l : /\ Sum(d) = l[Crates]
               /\ l[{}] = 0
               /\ \A T \in SUBSET Crates : T # {} =>
                    Chosen(T) \in T /\ l[T] = d[Chosen(T)] + l[T \ {Chosen(T)}]
  BY SumIs
<1> DEFINE G == {T \in SUBSET Crates : /\ g[T] \in Int /\ k[T] \in Int
                                       /\ l[T] = g[T] - k[T]}
<1>4. {} \in G
  BY <1>1, <1>2, <1>3
<1>5. ASSUME NEW T \in SUBSET Crates, T # {}, T \ {Chosen(T)} \in G
      PROVE  T \in G
  <2> DEFINE U == T \ {Chosen(T)}
  <2>0. U \in G
    BY <1>5
  <2> HIDE DEF G
  <2>1. Chosen(T) \in T /\ g[T] = f[Chosen(T)] + g[U]
    BY <1>1, <1>5
  <2>2. k[T] = h[Chosen(T)] + k[U]
    BY <1>2, <1>5
  <2>3. l[T] = d[Chosen(T)] + l[U]
    BY <1>3, <1>5
  <2> HIDE DEF U
  <2> USE DEF G
  <2> QED
    BY <1>0, <2>0, <2>1, <2>2, <2>3
<1>6. Crates \in G
  <2> HIDE DEF G
  <2> QED
    BY <1>4, <1>5, CratesByInduction
<1> QED
  BY <1>1, <1>2, <1>3, <1>6 DEF d

\* A sum of natural numbers is at least each of them.
LEMMA SumElement ==
  ASSUME NEW f, \A c \in Crates : f[c] \in Nat, NEW c \in Crates
  PROVE  Sum(f) \in Nat /\ f[c] <= Sum(f)
<1>1. PICK g : /\ Sum(f) = g[Crates]
               /\ g[{}] = 0
               /\ \A T \in SUBSET Crates : T # {} =>
                    Chosen(T) \in T /\ g[T] = f[Chosen(T)] + g[T \ {Chosen(T)}]
  BY SumIs
<1> DEFINE G == {T \in SUBSET Crates : g[T] \in Nat /\ (c \in T => f[c] <= g[T])}
<1>2. {} \in G
  BY <1>1
<1>3. ASSUME NEW T \in SUBSET Crates, T # {}, T \ {Chosen(T)} \in G
      PROVE  T \in G
  <2> DEFINE U == T \ {Chosen(T)}
  <2>0. U \in G
    BY <1>3
  <2> HIDE DEF G
  <2>1. Chosen(T) \in T /\ g[T] = f[Chosen(T)] + g[U]
    BY <1>1, <1>3
  <2>2. c \in T => c \in U \/ c = Chosen(T)
    OBVIOUS
  <2> HIDE DEF U
  <2> USE DEF G
  <2> QED
    BY <2>0, <2>1, <2>2
<1>4. Crates \in G
  <2> HIDE DEF G
  <2> QED
    BY <1>2, <1>3, CratesByInduction
<1> QED
  BY <1>1, <1>4

\* A sum of numbers that are at most m is at most m for each crate.
LEMMA SumBound ==
  ASSUME NEW m \in Nat, NEW f, \A c \in Crates : f[c] \in 0..m
  PROVE  Sum(f) <= m * Cardinality(Crates)
<1>1. PICK g : /\ Sum(f) = g[Crates]
               /\ g[{}] = 0
               /\ \A T \in SUBSET Crates : T # {} =>
                    Chosen(T) \in T /\ g[T] = f[Chosen(T)] + g[T \ {Chosen(T)}]
  BY SumIs
<1> DEFINE G == {T \in SUBSET Crates : g[T] \in Nat /\ g[T] <= m * Cardinality(T)}
<1>2. {} \in G
  BY <1>1, FS_EmptySet
<1>3. ASSUME NEW T \in SUBSET Crates, T # {}, T \ {Chosen(T)} \in G
      PROVE  T \in G
  <2> DEFINE U == T \ {Chosen(T)}
  <2>0. U \in G
    BY <1>3
  <2> HIDE DEF G
  <2>1. Chosen(T) \in T /\ g[T] = f[Chosen(T)] + g[U]
    BY <1>1, <1>3
  <2>2. IsFiniteSet(T) /\ Cardinality(T) \in Nat
    BY IRQThreadsAssumption, FS_Subset, FS_CardinalityType
  <2>3. Cardinality(U) = Cardinality(T) - 1
    BY <2>1, <2>2, FS_RemoveElement DEF Chosen
  <2>4. m * (Cardinality(T) - 1) = m * Cardinality(T) - m
    BY <2>2
  <2>5. m * Cardinality(T) \in Nat
    BY <2>2
  <2> HIDE DEF U
  <2> USE DEF G
  <2> QED
    BY <2>0, <2>1, <2>3, <2>4, <2>5
<1>4. Crates \in G
  <2> HIDE DEF G
  <2> QED
    BY <1>2, <1>3, CratesByInduction
<1> QED
  BY <1>1, <1>4

-----------------------------------------------------------------------------
\* There are no threads between two runs, and endThreads cancels and joins one at
\* a time.
Managed ==
  /\ mgr = "idle" => \A c \in Crates : pc[c] = "none"
  /\ \A c \in toStart : pc[c] = "none"
  /\ mgr \in {"ending", "joining"} =>
       \A c \in Crates \ toEnd : pc[c] = "none" \/ cancelled[c]
  /\ \A c \in Crates : cancelled[c] => mgr \in {"joining", "crashed"}
  /\ \A c, d \in Crates : cancelled[c] /\ cancelled[d] => c = d

Told == {"locking", "waiting", "waking", "inner", "polling", "rechecking", "reading",
         "noting", "deciding", "leaving"}

\* What a thread has told the others is what it last noted, and what it ignores
\* is in SECOND_ERR and among that.
Counted ==
  \A c \in Crates :
    /\ pc[c] \in Told =>
         /\ errorCount[c] = Cardinality(last[c])
         /\ ignErrCnt[c] <= Cardinality(secondErr[c] \cap last[c])
    /\ pc[c] \in {"noting", "counting"} =>
         nIgnFibers[c] <= Cardinality(secondErr[c] \cap combined[c])
    /\ pc[c] = "counting" => last[c] = combined[c]
    /\ ignErrCnt[c] <= errorCount[c]

\* Without a pending interrupt, a thread has noted all chambers in error but
\* those it has forgotten.
Noted ==
  \A c \in Crates : ~irq[c] =>
    /\ pc[c] \in (Told \ {"reading", "noting"}) \cup {"counting"} =>
         errors[c] \subseteq last[c] \cup forgotten[c]
    /\ pc[c] = "noting" => errors[c] \subseteq combined[c]

\* Only chambers are counted that have been in error since the thread began anew.
Caused ==
  \A c \in Crates :
    /\ errors[c] \subseteq failedSince[c]
    /\ pc[c] \in {"noting", "counting"} => combined[c] \subseteq failedSince[c]
    /\ errorCount[c] <= Cardinality(failedSince[c])

\* A thread that is about to release the FMMs, or to begin anew, makes up for its
\* errors.
Bound(c) ==
  \/ pc[c] \in {"none", "clearing", "exited"}
  \/ pc[c] = "deciding" /\ totalErrors[c] >= Threshold
  \/ pc[c] \in {"deciding", "leaving"} /\ doReset[c]

\* The others' errors do not reach the threshold before the FMMs are released.
Below ==
  ~requested => Sum([c \in Crates |-> IF Bound(c) THEN 0 ELSE errorCount[c] - ignErrCnt[c]])
                  < Threshold

IInv == TypeOK /\ Managed /\ Counted /\ Noted /\ Caused /\ Below

\* TypeOK, one variable at a time.
ControlTypes ==
  /\ mgr \in {"idle", "starting", "running", "ending", "joining", "crashed"}
  /\ toStart \subseteq Crates /\ toEnd \subseteq Crates /\ nRuns \in Nat
  /\ pc \in [Crates -> Labels] /\ cancelled \in [Crates -> BOOLEAN]
  /\ resetCount \in 0 .. Cardinality(Crates) - 1 /\ mutexLost \in BOOLEAN

DataTypes ==
  /\ combined \in [Crates -> SUBSET Chambers]
  /\ last \in [Crates -> SUBSET Chambers]
  /\ currErr \in [Crates -> SUBSET Chambers]
  /\ firstErr \in [Crates -> SUBSET Chambers]
  /\ secondErr \in [Crates -> SUBSET Chambers]
  /\ errors \in [Crates -> SUBSET Chambers]
  /\ failedSince \in [Crates -> SUBSET Chambers]
  /\ forgotten \in [Crates -> SUBSET Chambers]
  /\ errorCount \in [Crates -> 0 .. Cardinality(Chambers)]
  /\ ignErrCnt \in [Crates -> 0 .. Cardinality(Chambers)]
  /\ nIgnFibers \in [Crates -> 0 .. Cardinality(Chambers)]
  /\ totalErrors \in [Crates -> 0 .. Cardinality(Chambers) * Cardinality(Crates)]
  /\ doReset \in [Crates -> BOOLEAN]
  /\ l1a \in [Crates -> {"none", "read", "reset"}]
  /\ requested \in BOOLEAN /\ irq \in [Crates -> BOOLEAN]
  /\ nFailures \in Nat /\ nResyncs \in Nat

LEMMA TypesAre == TypeOK <=> ControlTypes /\ DataTypes
  BY DEF TypeOK, ControlTypes, DataTypes

\* Sets of chambers and of crates are finite.
LEMMA Sizes ==
  /\ Cardinality(Crates) \in Nat \ {0}
  /\ \A S \in SUBSET Chambers : /\ IsFiniteSet(S)
                                /\ Cardinality(S) \in 0 .. Cardinality(Chambers)
  /\ Cardinality({}) = 0
  /\ \A S \in SUBSET Chambers : \A T \in SUBSET S : Cardinality(T) <= Cardinality(S)
<1>1. Cardinality(Crates) \in Nat \ {0}
  BY IRQThreadsAssumption, FS_CardinalityType, FS_EmptySet
<1>2. IsFiniteSet(Chambers)
  <2>1. Chambers \in SUBSET Nat /\ \A f \in Chambers : f <= 14
    BY IRQThreadsAssumption
  <2> QED
    BY <2>1, FS_BoundedSetOfNaturals
<1>3. \A S \in SUBSET Chambers : IsFiniteSet(S) /\ Cardinality(S) <= Cardinality(Chambers)
  BY <1>2, FS_Subset
<1>4. \A S \in SUBSET Chambers : Cardinality(S) \in Nat
  BY <1>3, FS_CardinalityType
<1>5. \A S \in SUBSET Chambers : \A T \in SUBSET S : Cardinality(T) <= Cardinality(S)
  BY <1>3, FS_Subset
<1>6. Cardinality(Chambers) \in Nat
  BY <1>4
<1> QED
  BY <1>1, <1>3, <1>4, <1>5, <1>6, FS_EmptySet

-----------------------------------------------------------------------------
\* The steps, by what they change.

Outside == {"none", "clearing", "exited"}
Waits == {"locking", "waiting", "waking", "inner", "polling", "rechecking"}

\* Threads go on waiting, or begin anew, or end.
Idly ==
  /\ \A d \in Crates : \/ pc'[d] = pc[d]
                       \/ pc'[d] \in Outside
                       \/ pc[d] \in Waits /\ pc'[d] \in Waits
  /\ UNCHANGED <<localVars, countVars, errVars, hardware, historyVars>>

LEMMA IdleManagerSteps ==
  ASSUME ControlTypes, NEW c \in Crates,
         StartFails \/ End \/ Cancel(c) \/ CreateThread(c) \/ ClearFails(c)
  PROVE  Idly
<1> USE DEF ControlTypes, Idly, Goto
<1>1. CASE StartFails
  BY <1>1 DEF StartFails
<1>2. CASE End
  BY <1>2 DEF End
<1>3. CASE Cancel(c)
  BY <1>3 DEF Cancel
<1>4. CASE CreateThread(c)
  BY <1>4 DEF CreateThread, Outside
<1>5. CASE ClearFails(c)
  BY <1>5 DEF ClearFails
<1> QED
  BY <1>1, <1>2, <1>3, <1>4, <1>5

LEMMA IdleThreadSteps ==
  ASSUME ControlTypes, NEW c \in Crates,
         \/ TestCancel(c) \/ Arrive(c) \/ Leave(c) \/ CancelledInWait(c) \/ Look(c)
         \/ AllClear(c) \/ Recheck(c) \/ SpuriousWakeup(c) \/ VMEFails(c)
  PROVE  Idly
<1> USE DEF ControlTypes, Idly, Goto, Outside, Waits, barrier
<1>1. CASE TestCancel(c)
  BY <1>1 DEF TestCancel
<1>2. CASE Arrive(c)
  BY <1>2 DEF Arrive, GoOn, Wait
<1>3. CASE Leave(c)
  BY <1>3 DEF Leave
<1>4. CASE CancelledInWait(c)
  BY <1>4 DEF CancelledInWait
<1>5. CASE Look(c)
  BY <1>5 DEF Look
<1>6. CASE AllClear(c)
  BY <1>6 DEF AllClear
<1>7. CASE Recheck(c)
  BY <1>7 DEF Recheck
<1>8. CASE SpuriousWakeup(c)
  BY <1>8 DEF SpuriousWakeup
<1>9. CASE VMEFails(c)
  BY <1>9 DEF VMEFails
<1> QED
  BY <1>1, <1>2, <1>3, <1>4, <1>5, <1>6, <1>7, <1>8, <1>9

\* Every step, then, is one of these.
LEMMA StepIs ==
  ASSUME ControlTypes, [Next]_vars
  PROVE  \/ Idly \/ Start \/ Resync
         \/ \E c \in Crates :
              \/ Join(c) \/ Clear(c) \/ ReadIRQ(c) \/ ReadStatus(c) \/ Note(c)
              \/ Count(c) \/ Decide(c) \/ AfterIRQ(c)
              \/ \E f \in Chambers : ChamberFails(c, f)
<1>1. CASE UNCHANGED vars
  BY <1>1 DEF vars, Idly
<1>2. \E c \in Crates : TRUE
  BY IRQThreadsAssumption
<1>3. CASE StartFails \/ End
  BY <1>2, <1>3, IdleManagerSteps
<1>4. ASSUME NEW c \in Crates, Cancel(c) \/ CreateThread(c) \/ ClearFails(c) PROVE Idly
  BY <1>4, IdleManagerSteps
<1>5. ASSUME NEW c \in Crates,
             \/ TestCancel(c) \/ Arrive(c) \/ Leave(c) \/ CancelledInWait(c) \/ Look(c)
             \/ AllClear(c) \/ Recheck(c) \/ SpuriousWakeup(c) \/ VMEFails(c)
      PROVE  Idly
  BY <1>5, IdleThreadSteps
<1> QED
  BY <1>1, <1>3, <1>4, <1>5 DEF Next, EndThreads, Thread, Disturbance

-----------------------------------------------------------------------------
\* The variables keep their types.

LEMMA ControlTypesKept ==
  ASSUME ControlTypes, [Next]_vars
  PROVE  ControlTypes'
<1> USE Sizes DEF ControlTypes, Goto, Labels, mgrVars, barrier
<1>1. CASE UNCHANGED vars
  BY <1>1 DEF vars
<1>2. CASE Start
  <2>1. /\ mgr' = "starting" /\ nRuns' = nRuns + 1 /\ toStart' = Crates
        /\ UNCHANGED <<toEnd, pc, cancelled>>
    BY <1>2 DEF Start
  <2>2. (resetCount' = resetCount /\ mutexLost' = mutexLost)
        \/ (resetCount' = 0 /\ mutexLost' = FALSE)
    <3>1. CASE KeepData
      BY <1>2, <3>1 DEF Start
    <3>2. CASE ~KeepData
      BY <1>2, <3>2 DEF Start
    <3> QED
      BY <3>1, <3>2
  <2>3. resetCount' \in 0 .. Cardinality(Crates) - 1
    BY <2>2
  <2>4. mutexLost' \in BOOLEAN
    BY <2>2, Zenon
  <2> QED
    BY <2>1, <2>3, <2>4
<1>3. CASE StartFails
  BY <1>3 DEF StartFails
<1>4. CASE End
  BY <1>4 DEF End
<1>5. CASE Resync
  BY <1>5 DEF Resync
<1>6. ASSUME NEW c \in Crates, Cancel(c) PROVE ControlTypes'
  BY <1>6 DEF Cancel
<1>7. ASSUME NEW c \in Crates, Join(c) PROVE ControlTypes'
  BY <1>7 DEF Join
<1>8. ASSUME NEW c \in Crates, CreateThread(c) PROVE ControlTypes'
  BY <1>8 DEF CreateThread
<1>9. ASSUME NEW c \in Crates, NEW f \in Chambers, ChamberFails(c, f) PROVE ControlTypes'
  BY <1>9 DEF ChamberFails
<1>10. ASSUME NEW c \in Crates, Thread(c) PROVE ControlTypes'
  <2>1. CASE TestCancel(c)
    BY <2>1 DEF TestCancel
  <2>2. CASE Clear(c)
    BY <2>2 DEF Clear
  <2>3. CASE Arrive(c)
    <3>1. pc' \in [Crates -> Labels]
      BY <2>3 DEF Arrive, GoOn, Wait
    <3>2. resetCount' \in 0 .. Cardinality(Crates) - 1
      BY <2>3 DEF Arrive, GoOn, Wait
    <3> QED
      BY <2>3, <3>1, <3>2 DEF Arrive
  <2>4. CASE Leave(c)
    BY <2>4 DEF Leave
  <2>5. CASE CancelledInWait(c)
    BY <2>5 DEF CancelledInWait
  <2>6. CASE Look(c)
    BY <2>6 DEF Look
  <2>7. CASE ReadIRQ(c)
    BY <2>7 DEF ReadIRQ
  <2>8. CASE ReadStatus(c)
    BY <2>8 DEF ReadStatus, Again
  <2>9. CASE Note(c)
    BY <2>9 DEF Note
  <2>10. CASE Count(c)
    BY <2>10 DEF Count, CountOf
  <2>11. CASE Decide(c)
    BY <2>11 DEF Decide
  <2>12. CASE AfterIRQ(c)
    BY <2>12 DEF AfterIRQ, Again
  <2>13. CASE AllClear(c)
    BY <2>13 DEF AllClear
  <2>14. CASE Recheck(c)
    BY <2>14 DEF Recheck
  <2> QED
    BY <1>10, <2>1, <2>2, <2>3, <2>4, <2>5, <2>6, <2>7, <2>8, <2>9, <2>10, <2>11,
       <2>12, <2>13, <2>14 DEF Thread
<1>11. ASSUME NEW c \in Crates, Disturbance(c) PROVE ControlTypes'
  <2>1. CASE ClearFails(c)
    BY <2>1 DEF ClearFails
  <2>2. CASE SpuriousWakeup(c)
    BY <2>2 DEF SpuriousWakeup
  <2>3. CASE VMEFails(c)
    BY <2>3 DEF VMEFails
  <2> QED
    BY <1>11, <2>1, <2>2, <2>3 DEF Disturbance
<1> HIDE DEF ControlTypes
<1> QED
  BY <1>1, <1>2, <1>3, <1>4, <1>5, <1>6, <1>7, <1>8, <1>9, <1>10, <1>11
     DEF Next, EndThreads

\* What a thread counts is no more than there are chambers.
LEMMA TotalType ==
  ASSUME NEW count \in [Crates -> 0 .. Cardinality(Chambers)],
         NEW ignored \in [Crates -> 0 .. Cardinality(Chambers)]
  PROVE  Total(count, ignored) \in 0 .. Cardinality(Chambers) * Cardinality(Crates)
<1>1. Sum(count) \in Nat /\ Sum(ignored) \in Nat
  BY Sizes, SumElement, IRQThreadsAssumption
<1>2. Sum(count) <= Cardinality(Chambers) * Cardinality(Crates)
  BY Sizes, SumBound
<1>3. Total(count, ignored) =
        IF Sum(count) >= Sum(ignored) THEN Sum(count) - Sum(ignored) ELSE 0
  BY <1>1 DEF Total, Max
<1> QED
  BY <1>1, <1>2, <1>3, Sizes

\* A thread ignores only what it counts.
LEMMA IgnoredIsCounted ==
  ASSUME DataTypes, Counted, NEW c \in Crates, pc[c] \in {"noting", "counting"}
  PROVE  nIgnFibers[c] <= Cardinality(combined[c])
<1>1. nIgnFibers[c] <= Cardinality(secondErr[c] \cap combined[c])
  BY DEF Counted
<1>2. combined[c] \in SUBSET Chambers
  BY DEF DataTypes
<1>3. /\ Cardinality(secondErr[c] \cap combined[c]) <= Cardinality(combined[c])
      /\ Cardinality(secondErr[c] \cap combined[c]) \in Nat
      /\ Cardinality(combined[c]) \in Nat
  BY <1>2, Sizes
<1>4. nIgnFibers[c] \in Nat
  BY Sizes DEF DataTypes
<1> QED
  BY <1>1, <1>3, <1>4

LEMMA DataTypesKept ==
  ASSUME ControlTypes, DataTypes, Counted, [Next]_vars
  PROVE  DataTypes'
<1> USE Sizes DEF DataTypes, localVars, countVars, errVars, hardware, historyVars, ForAll
<1>1. CASE Idly
  BY <1>1 DEF Idly
<1>2. CASE Start
  <2>1. CASE KeepData
    BY <1>2, <2>1 DEF Start
  <2>2. CASE ~KeepData
    <3>1. requested' = FALSE
      BY <1>2, <2>2 DEF Start
    <3>2. requested' \in BOOLEAN
      BY <3>1, Zenon
    <3> QED
      BY <1>2, <2>2, <3>2 DEF Start
  <2> QED
    BY <2>1, <2>2
<1>3. CASE Resync
  BY <1>3 DEF Resync
<1>4. ASSUME NEW c \in Crates, Join(c) PROVE DataTypes'
  BY <1>4 DEF Join, ClearLocals
<1>5. ASSUME NEW c \in Crates, Clear(c) PROVE DataTypes'
  BY <1>5 DEF Clear, ClearLocals, NoteClearing
<1>6. ASSUME NEW c \in Crates, ReadIRQ(c) PROVE DataTypes'
  BY <1>6 DEF ReadIRQ
<1>7. ASSUME NEW c \in Crates, ReadStatus(c) PROVE DataTypes'
  BY <1>7 DEF ReadStatus
<1>8. ASSUME NEW c \in Crates, Note(c) PROVE DataTypes'
  BY <1>8 DEF Note
<1>9. ASSUME NEW c \in Crates, Count(c) PROVE DataTypes'
  <2>1. errorCount' \in [Crates -> 0 .. Cardinality(Chambers)]
    BY <1>9 DEF Count, CountOf
  <2>2. ignErrCnt' \in [Crates -> 0 .. Cardinality(Chambers)]
    BY <1>9 DEF Count, CountOf
  <2>3. totalErrors' \in [Crates -> 0 .. Cardinality(Chambers) * Cardinality(Crates)]
    <3> DEFINE m == Cardinality(Chambers) * Cardinality(Crates)
    <3>1. Total(errorCount', ignErrCnt') \in 0 .. m
      BY <2>1, <2>2, TotalType
    <3>2. Cardinality(combined[c]) - nIgnFibers[c] \in 0 .. m
      <4>1. nIgnFibers[c] <= Cardinality(combined[c])
        BY <1>9, IgnoredIsCounted DEF Count
      <4>2. Cardinality(combined[c]) <= m
        <5>1. Sum(errorCount') <= m
          BY <2>1, SumBound
        <5>2. errorCount'[c] <= Sum(errorCount') /\ Sum(errorCount') \in Nat
          BY <2>1, SumElement
        <5>3. errorCount'[c] = Cardinality(combined[c])
          BY <1>9 DEF Count, CountOf
        <5> QED
          BY <5>1, <5>2, <5>3
      <4> QED
        BY <4>1, <4>2
    <3>3. totalErrors' = [totalErrors EXCEPT ![c] =
            IF doReset[c] THEN Cardinality(combined[c]) - nIgnFibers[c]
                          ELSE Total(errorCount', ignErrCnt')]
      BY <1>9 DEF Count, CountOf
    <3> HIDE DEF m
    <3>4. totalErrors' \in [Crates -> 0 .. m]
      BY <3>1, <3>2, <3>3 DEF m
    <3> QED
      BY <3>4 DEF m
  <2>4. requested' = (requested /\ Total(errorCount', ignErrCnt') >= Threshold)
    BY <1>9 DEF Count, CountOf
  <2>5. requested' \in BOOLEAN
    BY <2>4, Zenon
  <2> QED
    BY <1>9, <2>1, <2>2, <2>3, <2>5 DEF Count, CountOf
<1>10. ASSUME NEW c \in Crates, Decide(c) PROVE DataTypes'
  <2>1. CASE totalErrors[c] >= Threshold
    <3>1. requested' = TRUE
      BY <1>10, <2>1 DEF Decide, Release
    <3>2. requested' \in BOOLEAN
      BY <3>1, Zenon
    <3> QED
      BY <1>10, <2>1, <3>2 DEF Decide, Release
  <2>2. CASE ~(totalErrors[c] >= Threshold)
    BY <1>10, <2>2 DEF Decide
  <2> QED
    BY <2>1, <2>2
<1>11. ASSUME NEW c \in Crates, AfterIRQ(c) PROVE DataTypes'
  BY <1>11 DEF AfterIRQ
<1>12. ASSUME NEW c \in Crates, NEW f \in Chambers, ChamberFails(c, f) PROVE DataTypes'
  BY <1>12 DEF ChamberFails
<1> HIDE DEF DataTypes
<1> QED
  BY <1>1, <1>2, <1>3, <1>4, <1>5, <1>6, <1>7, <1>8, <1>9, <1>10, <1>11, <1>12, StepIs

LEMMA TypeKept ==
  ASSUME TypeOK, Counted, [Next]_vars
  PROVE  TypeOK'
<1>1. ControlTypes /\ DataTypes
  BY TypesAre
<1>2. ControlTypes' /\ DataTypes'
  BY <1>1, ControlTypesKept, DataTypesKept
<1> QED
  BY <1>2, TypesAre DEF TypeOK, ControlTypes, DataTypes

-----------------------------------------------------------------------------
\* The manager and its threads.

LEMMA ManagedKept ==
  ASSUME ControlTypes, Managed, [Next]_vars
  PROVE  Managed'
<1> DEFINE OfThreads == /\ UNCHANGED <<mgrVars, cancelled>>
                        /\ \A d \in Crates : pc[d] = "none" => pc'[d] = "none"
<1> USE DEF ControlTypes, Goto
<1>1. ASSUME OfThreads PROVE Managed'
  BY <1>1 DEF Managed, mgrVars
<1>2. CASE UNCHANGED vars
  <2>1. OfThreads
    BY <1>2 DEF vars
  <2> QED
    BY <1>1, <2>1
<1>3. CASE Start
  BY <1>3 DEF Start, Managed
<1>4. CASE StartFails
  BY <1>4 DEF StartFails, Managed
<1>5. CASE End
  BY <1>5 DEF End, Managed
<1>6. CASE Resync
  <2>1. OfThreads
    BY <1>6 DEF Resync
  <2> QED
    BY <1>1, <2>1
<1>7. ASSUME NEW c \in Crates, Cancel(c) PROVE Managed'
  BY <1>7 DEF Cancel, Managed
<1>8. ASSUME NEW c \in Crates, Join(c) PROVE Managed'
  <2>1. /\ mgr = "joining" /\ cancelled[c]
        /\ pc' = [pc EXCEPT ![c] = "none"]
        /\ cancelled' = [cancelled EXCEPT ![c] = FALSE]
        /\ mgr' = (IF toEnd = {} THEN "idle" ELSE "ending")
        /\ toStart' = toStart /\ toEnd' = toEnd
    BY <1>8 DEF Join
  <2>2. \A d \in Crates : ~cancelled'[d]
    BY <2>1 DEF Managed
  <2>3. \A d \in Crates \ toEnd : pc'[d] = "none"
    BY <2>1 DEF Managed
  <2>4. \A d \in toStart' : pc'[d] = "none"
    BY <2>1 DEF Managed
  <2>5. mgr' = "idle" => toEnd = {}
    BY <2>1
  <2> QED
    BY <2>1, <2>2, <2>3, <2>4, <2>5 DEF Managed
<1>9. ASSUME NEW c \in Crates, CreateThread(c) PROVE Managed'
  BY <1>9 DEF CreateThread, Managed
<1>10. ASSUME NEW c \in Crates, NEW f \in Chambers, ChamberFails(c, f) PROVE Managed'
  <2>1. OfThreads
    BY <1>10 DEF ChamberFails
  <2> QED
    BY <1>1, <2>1
<1>11. ASSUME NEW c \in Crates, Thread(c) PROVE Managed'
  <2> SUFFICES OfThreads
    BY <1>1
  <2>1. CASE TestCancel(c)
    BY <2>1 DEF TestCancel
  <2>2. CASE Clear(c)
    BY <2>2 DEF Clear
  <2>3. CASE Arrive(c)
    BY <2>3 DEF Arrive, GoOn, Wait
  <2>4. CASE Leave(c)
    BY <2>4 DEF Leave
  <2>5. CASE CancelledInWait(c)
    BY <2>5 DEF CancelledInWait
  <2>6. CASE Look(c)
    BY <2>6 DEF Look
  <2>7. CASE ReadIRQ(c)
    BY <2>7 DEF ReadIRQ
  <2>8. CASE ReadStatus(c)
    BY <2>8 DEF ReadStatus, Again
  <2>9. CASE Note(c)
    BY <2>9 DEF Note
  <2>10. CASE Count(c)
    BY <2>10 DEF Count, CountOf
  <2>11. CASE Decide(c)
    BY <2>11 DEF Decide
  <2>12. CASE AfterIRQ(c)
    BY <2>12 DEF AfterIRQ, Again
  <2>13. CASE AllClear(c)
    BY <2>13 DEF AllClear
  <2>14. CASE Recheck(c)
    BY <2>14 DEF Recheck
  <2> HIDE DEF OfThreads
  <2> QED
    BY <1>11, <2>1, <2>2, <2>3, <2>4, <2>5, <2>6, <2>7, <2>8, <2>9, <2>10, <2>11,
       <2>12, <2>13, <2>14 DEF Thread
<1>12. ASSUME NEW c \in Crates, Disturbance(c) PROVE Managed'
  <2>1. CASE ClearFails(c)
    BY <2>1 DEF ClearFails, Managed
  <2>2. CASE SpuriousWakeup(c)
    <3>1. OfThreads
      BY <2>2 DEF SpuriousWakeup
    <3> QED
      BY <1>1, <3>1
  <2>3. CASE VMEFails(c)
    <3>1. OfThreads
      BY <2>3 DEF VMEFails
    <3> QED
      BY <1>1, <3>1
  <2> QED
    BY <1>12, <2>1, <2>2, <2>3 DEF Disturbance
<1> HIDE DEF OfThreads
<1> QED
  BY <1>2, <1>3, <1>4, <1>5, <1>6, <1>7, <1>8, <1>9, <1>10, <1>11, <1>12
     DEF Next, EndThreads

-----------------------------------------------------------------------------
\* What the threads have told each other.

LEMMA CountedKept ==
  ASSUME ControlTypes, DataTypes, Managed, Counted, [Next]_vars
  PROVE  Counted'
<1> USE Sizes DEF Goto, Told
<1>1. CASE Idly
  BY <1>1 DEF Counted, Idly, Outside, Waits, localVars, countVars, errVars
<1>2. CASE Start
  <2>1. \A d \in Crates : pc'[d] = "none"
    BY <1>2 DEF Start, Managed
  <2>2. \A d \in Crates : ignErrCnt'[d] <= errorCount'[d]
    <3>1. CASE KeepData
      BY <1>2, <3>1 DEF Start, countVars, Counted
    <3>2. CASE ~KeepData
      BY <1>2, <3>2 DEF Start, ForAll
    <3> QED
      BY <3>1, <3>2
  <2> QED
    BY <2>1, <2>2 DEF Counted
<1>3. CASE Resync
  BY <1>3 DEF Resync, Counted, countVars, errVars
<1>4. ASSUME NEW c \in Crates, Join(c) PROVE Counted'
  BY <1>4 DEF Join, ClearLocals, Counted, countVars, errVars, ControlTypes, DataTypes
<1>5. ASSUME NEW c \in Crates, Clear(c) PROVE Counted'
  <2>1. ASSUME NEW d \in Crates, d # c PROVE
          /\ UNCHANGED <<pc[d], errorCount[d], ignErrCnt[d], last[d], nIgnFibers[d],
                         combined[d]>>
          /\ secondErr' = secondErr
    BY <1>5, <2>1 DEF Clear, ClearLocals, ControlTypes, DataTypes
  <2>2. /\ pc'[c] = "locking" /\ errorCount'[c] = 0 /\ ignErrCnt'[c] = 0 /\ last'[c] = {}
    BY <1>5 DEF Clear, ClearLocals, ControlTypes, DataTypes
  <2>3. secondErr'[c] \cap last'[c] = {}
    BY <2>2
  <2>4. Cardinality(secondErr'[c] \cap last'[c]) = 0 /\ Cardinality(last'[c]) = 0
    BY <2>2, <2>3
  <2>5. pc'[c] \notin {"noting", "counting"}
    BY <2>2
  <2>6. /\ errorCount'[c] = Cardinality(last'[c])
        /\ ignErrCnt'[c] <= Cardinality(secondErr'[c] \cap last'[c])
        /\ ignErrCnt'[c] <= errorCount'[c]
    BY <2>2, <2>4
  <2>7. ASSUME NEW d \in Crates, d # c
        PROVE  /\ pc'[d] \in Told =>
                    /\ errorCount'[d] = Cardinality(last'[d])
                    /\ ignErrCnt'[d] <= Cardinality(secondErr'[d] \cap last'[d])
               /\ pc'[d] \in {"noting", "counting"} =>
                    nIgnFibers'[d] <= Cardinality(secondErr'[d] \cap combined'[d])
               /\ pc'[d] = "counting" => last'[d] = combined'[d]
               /\ ignErrCnt'[d] <= errorCount'[d]
    BY <2>1, <2>7 DEF Counted
  <2> QED
    BY <2>5, <2>6, <2>7 DEF Counted
<1>6. ASSUME NEW c \in Crates, ReadIRQ(c) PROVE Counted'
  BY <1>6 DEF ReadIRQ, Counted, localVars, countVars, errVars, ControlTypes
<1>7. ASSUME NEW c \in Crates, ReadStatus(c) PROVE Counted'
  <2>1. ASSUME NEW d \in Crates, d # c
        PROVE  UNCHANGED <<pc[d], nIgnFibers[d], combined[d]>>
    BY <1>7, <2>1 DEF ReadStatus, Again, ControlTypes, DataTypes
  <2>2. /\ pc[c] \in Told /\ pc'[c] # "counting"
        /\ combined'[c] = errors[c]
        /\ nIgnFibers'[c] = Cardinality(secondErr[c] \cap errors[c])
    BY <1>7 DEF ReadStatus, Again, ControlTypes, DataTypes
  <2>3. UNCHANGED <<last, secondErr, errorCount, ignErrCnt>>
    BY <1>7 DEF ReadStatus, countVars, errVars
  <2>4. Cardinality(secondErr[c] \cap errors[c]) \in Nat
    BY DEF DataTypes
  <2>5. nIgnFibers'[c] <= Cardinality(secondErr'[c] \cap combined'[c])
    BY <2>2, <2>3, <2>4
  <2> QED
    BY <2>1, <2>2, <2>3, <2>5 DEF Counted
<1>8. ASSUME NEW c \in Crates, Note(c) PROVE Counted'
  BY <1>8 DEF Note, Counted, countVars, ControlTypes, DataTypes
<1>9. ASSUME NEW c \in Crates, Count(c) PROVE Counted'
  <2>1. pc[c] = "counting" /\ last[c] = combined[c]
    BY <1>9 DEF Count, Counted
  <2>2. ASSUME NEW d \in Crates, d # c PROVE
          UNCHANGED <<pc[d], errorCount[d], ignErrCnt[d]>>
    BY <1>9, <2>2 DEF Count, CountOf, ControlTypes, DataTypes
  <2>3. /\ pc'[c] = "deciding" /\ errorCount'[c] = Cardinality(combined[c])
        /\ ignErrCnt'[c] = nIgnFibers[c]
    BY <1>9 DEF Count, CountOf, ControlTypes, DataTypes
  <2>4. UNCHANGED <<last, secondErr, nIgnFibers, combined>>
    BY <1>9 DEF Count, CountOf, errVars
  <2>5. nIgnFibers[c] <= Cardinality(combined[c])
    BY <2>1, IgnoredIsCounted
  <2> QED
    BY <2>1, <2>2, <2>3, <2>4, <2>5 DEF Counted
<1>10. ASSUME NEW c \in Crates, Decide(c) PROVE Counted'
  <2>1. \A d \in Crates : secondErr[d] \subseteq secondErr'[d]
                          /\ secondErr'[d] \in SUBSET Chambers
    <3>1. CASE totalErrors[c] >= Threshold
      BY <1>10, <3>1 DEF Decide, Release, DataTypes
    <3>2. CASE ~(totalErrors[c] >= Threshold)
      BY <1>10, <3>2 DEF Decide, errVars, DataTypes
    <3> QED
      BY <3>1, <3>2
  <2>2. \A d \in Crates : /\ pc'[d] \in Told => pc[d] \in Told
                          /\ pc'[d] \in {"noting", "counting"} => pc'[d] = pc[d]
    BY <1>10 DEF Decide, ControlTypes
  <2>3. UNCHANGED <<errorCount, ignErrCnt, last, nIgnFibers, combined>>
    BY <1>10 DEF Decide, countVars
  <2>4. ASSUME NEW d \in Crates, NEW S \in SUBSET Chambers, NEW n \in Nat,
               n <= Cardinality(secondErr[d] \cap S)
        PROVE  n <= Cardinality(secondErr'[d] \cap S)
    <3>1. /\ secondErr[d] \cap S \in SUBSET (secondErr'[d] \cap S)
          /\ secondErr'[d] \cap S \in SUBSET Chambers
      BY <2>1
    <3>2. Cardinality(secondErr[d] \cap S) <= Cardinality(secondErr'[d] \cap S)
      BY <3>1
    <3>3. /\ Cardinality(secondErr[d] \cap S) \in Nat
          /\ Cardinality(secondErr'[d] \cap S) \in Nat
      BY <3>1
    <3> QED
      BY <2>4, <3>2, <3>3
  <2>5. \A d \in Crates : /\ last[d] \in SUBSET Chambers /\ combined[d] \in SUBSET Chambers
                          /\ ignErrCnt[d] \in Nat /\ nIgnFibers[d] \in Nat
    BY DEF DataTypes
  <2> QED
    BY <2>2, <2>3, <2>4, <2>5 DEF Counted
<1>11. ASSUME NEW c \in Crates, AfterIRQ(c) PROVE Counted'
  BY <1>11 DEF AfterIRQ, Again, Counted, countVars, errVars, ControlTypes
<1>12. ASSUME NEW c \in Crates, NEW f \in Chambers, ChamberFails(c, f) PROVE Counted'
  BY <1>12 DEF ChamberFails, Counted, localVars, countVars, errVars
<1> QED
  BY <1>1, <1>2, <1>3, <1>4, <1>5, <1>6, <1>7, <1>8, <1>9, <1>10, <1>11, <1>12, StepIs

LEMMA NotedKept ==
  ASSUME ControlTypes, DataTypes, Managed, Noted, [Next]_vars
  PROVE  Noted'
<1> USE DEF Goto, Told
<1>1. CASE Idly
  BY <1>1 DEF Noted, Idly, Outside, Waits, localVars, hardware, historyVars
<1>2. CASE Start
  BY <1>2 DEF Start, Managed, Noted
<1>3. CASE Resync
  BY <1>3 DEF Resync, Noted, historyVars, ForAll
<1>4. ASSUME NEW c \in Crates, Join(c) PROVE Noted'
  BY <1>4 DEF Join, ClearLocals, Noted, hardware, historyVars, ControlTypes, DataTypes
<1>5. ASSUME NEW c \in Crates, Clear(c) PROVE Noted'
  BY <1>5 DEF Clear, ClearLocals, NoteClearing, Noted, hardware, ControlTypes, DataTypes
<1>6. ASSUME NEW c \in Crates, ReadIRQ(c) PROVE Noted'
  BY <1>6 DEF ReadIRQ, Noted, localVars, historyVars, ControlTypes, DataTypes
<1>7. ASSUME NEW c \in Crates, ReadStatus(c) PROVE Noted'
  BY <1>7 DEF ReadStatus, Again, Noted, hardware, historyVars, ControlTypes, DataTypes
<1>8. ASSUME NEW c \in Crates, Note(c) PROVE Noted'
  BY <1>8 DEF Note, Noted, hardware, ControlTypes, DataTypes
<1>9. ASSUME NEW c \in Crates, Count(c) PROVE Noted'
  BY <1>9 DEF Count, CountOf, Noted, hardware, ControlTypes, DataTypes
<1>10. ASSUME NEW c \in Crates, Decide(c) PROVE Noted'
  BY <1>10 DEF Decide, Noted, hardware, ControlTypes, DataTypes
<1>11. ASSUME NEW c \in Crates, AfterIRQ(c) PROVE Noted'
  BY <1>11 DEF AfterIRQ, Again, Noted, hardware, historyVars, ControlTypes
<1>12. ASSUME NEW c \in Crates, NEW f \in Chambers, ChamberFails(c, f) PROVE Noted'
  BY <1>12 DEF ChamberFails, Noted, localVars, DataTypes
<1> QED
  BY <1>1, <1>2, <1>3, <1>4, <1>5, <1>6, <1>7, <1>8, <1>9, <1>10, <1>11, <1>12, StepIs

LEMMA CausedKept ==
  ASSUME ControlTypes, DataTypes, Managed, Caused, [Next]_vars
  PROVE  Caused'
<1> USE Sizes DEF Goto
<1>1. CASE Idly
  BY <1>1 DEF Caused, Idly, Outside, Waits, localVars, countVars, hardware, historyVars
<1>2. CASE Start
  <2>1. \A d \in Crates : pc'[d] = "none" /\ errors'[d] = {}
    BY <1>2 DEF Start, Managed, ForAll
  <2>2. \A d \in Crates : errorCount'[d] <= Cardinality(failedSince'[d])
    <3>1. CASE KeepData
      BY <1>2, <3>1 DEF Start, countVars, historyVars, Caused
    <3>2. CASE ~KeepData
      BY <1>2, <3>2 DEF Start, ForAll
    <3> QED
      BY <3>1, <3>2
  <2> QED
    BY <2>1, <2>2 DEF Caused
<1>3. CASE Resync
  BY <1>3 DEF Resync, Caused, countVars, historyVars, ForAll
<1>4. ASSUME NEW c \in Crates, Join(c) PROVE Caused'
  BY <1>4 DEF Join, ClearLocals, Caused, countVars, hardware, historyVars, ControlTypes,
              DataTypes
<1>5. ASSUME NEW c \in Crates, Clear(c) PROVE Caused'
  <2>1. ASSUME NEW d \in Crates, d # c PROVE
          UNCHANGED <<pc[d], errorCount[d], combined[d], errors[d], failedSince[d]>>
    BY <1>5, <2>1 DEF Clear, ClearLocals, NoteClearing, hardware, ControlTypes, DataTypes
  <2>2. /\ pc'[c] = "locking" /\ errorCount'[c] = 0
        /\ errors'[c] = errors[c] /\ failedSince'[c] = errors[c]
    BY <1>5 DEF Clear, ClearLocals, NoteClearing, hardware, ControlTypes, DataTypes
  <2>3. Cardinality(errors[c]) \in Nat
    BY DEF DataTypes
  <2> QED
    BY <2>1, <2>2, <2>3 DEF Caused
<1>6. ASSUME NEW c \in Crates, ReadIRQ(c) PROVE Caused'
  BY <1>6 DEF ReadIRQ, Caused, localVars, countVars, historyVars, ControlTypes
<1>7. ASSUME NEW c \in Crates, ReadStatus(c) PROVE Caused'
  BY <1>7 DEF ReadStatus, Again, Caused, countVars, hardware, historyVars, ControlTypes,
              DataTypes
<1>8. ASSUME NEW c \in Crates, Note(c) PROVE Caused'
  BY <1>8 DEF Note, Caused, countVars, hardware, ControlTypes, DataTypes
<1>9. ASSUME NEW c \in Crates, Count(c) PROVE Caused'
  <2>1. combined[c] \subseteq failedSince[c]
    BY <1>9 DEF Count, Caused
  <2>2. Cardinality(combined[c]) <= Cardinality(failedSince[c])
    BY <2>1 DEF DataTypes
  <2>3. ASSUME NEW d \in Crates, d # c PROVE UNCHANGED <<pc[d], errorCount[d]>>
    BY <1>9, <2>3 DEF Count, CountOf, ControlTypes, DataTypes
  <2>4. pc'[c] = "deciding" /\ errorCount'[c] = Cardinality(combined[c])
    BY <1>9 DEF Count, CountOf, ControlTypes, DataTypes
  <2>5. UNCHANGED <<combined, errors, failedSince>>
    BY <1>9 DEF Count, CountOf, hardware
  <2> QED
    BY <2>2, <2>3, <2>4, <2>5 DEF Caused
<1>10. ASSUME NEW c \in Crates, Decide(c) PROVE Caused'
  BY <1>10 DEF Decide, Caused, countVars, hardware, ControlTypes
<1>11. ASSUME NEW c \in Crates, AfterIRQ(c) PROVE Caused'
  BY <1>11 DEF AfterIRQ, Again, Caused, countVars, hardware, historyVars, ControlTypes
<1>12. ASSUME NEW c \in Crates, NEW f \in Chambers, ChamberFails(c, f) PROVE Caused'
  <2>1. /\ errors' = [errors EXCEPT ![c] = @ \cup {f}]
        /\ failedSince' = [failedSince EXCEPT ![c] = @ \cup {f}]
        /\ UNCHANGED <<pc, combined, errorCount>>
    BY <1>12 DEF ChamberFails, localVars, countVars
  <2>2. \A d \in Crates : /\ failedSince[d] \in SUBSET failedSince'[d]
                          /\ failedSince'[d] \in SUBSET Chambers
    BY <2>1 DEF DataTypes
  <2>3. \A d \in Crates : Cardinality(failedSince[d]) <= Cardinality(failedSince'[d])
    BY <2>2
  <2>4. \A d \in Crates : /\ Cardinality(failedSince[d]) \in Nat
                          /\ Cardinality(failedSince'[d]) \in Nat /\ errorCount[d] \in Nat
    BY <2>2 DEF DataTypes
  <2>5. ASSUME NEW d \in Crates PROVE errorCount'[d] <= Cardinality(failedSince'[d])
    <3>1. errorCount'[d] = errorCount[d] /\ errorCount[d] <= Cardinality(failedSince[d])
      BY <2>1 DEF Caused
    <3> QED
      BY <3>1, <2>3, <2>4
  <2>6. \A d \in Crates : errors'[d] \subseteq failedSince'[d]
    BY <2>1 DEF Caused, DataTypes
  <2> QED
    BY <2>1, <2>2, <2>5, <2>6 DEF Caused
<1> QED
  BY <1>1, <1>2, <1>3, <1>4, <1>5, <1>6, <1>7, <1>8, <1>9, <1>10, <1>11, <1>12, StepIs

-----------------------------------------------------------------------------
\* The errors that no thread makes up for, and the threshold.

Own(c) == IF Bound(c) THEN 0 ELSE errorCount[c] - ignErrCnt[c]

\* When all errors are below the threshold, so are some of them.
LEMMA SomeBelow ==
  ASSUME NEW count \in [Crates -> 0 .. Cardinality(Chambers)],
         NEW ignored \in [Crates -> 0 .. Cardinality(Chambers)],
         Total(count, ignored) < Threshold,
         NEW f, \A c \in Crates : f[c] \in Int /\ f[c] <= count[c] - ignored[c]
  PROVE  Sum(f) < Threshold
<1> DEFINE d == [c \in Crates |-> count[c] - ignored[c]]
<1>1. \A c \in Crates : count[c] \in Nat /\ ignored[c] \in Nat
  BY Sizes
<1>2. \A c \in Crates : f[c] \in Int /\ d[c] \in Int /\ f[c] <= d[c]
  BY <1>1
<1>3. Sum(count) - Sum(ignored) = Sum(d)
  BY <1>1, SumDifference
<1> HIDE DEF d
<1>4. Sum(f) \in Int /\ Sum(d) \in Int /\ Sum(f) <= Sum(d)
  BY <1>2, SumMonotone
<1>5. Sum(count) \in Nat /\ Sum(ignored) \in Nat
  BY <1>1, SumElement, IRQThreadsAssumption
<1>6. Sum(count) - Sum(ignored) <= Total(count, ignored)
  BY <1>5 DEF Total, Max
<1>7. Total(count, ignored) \in Int
  BY <1>5 DEF Total, Max
<1> QED
  BY <1>3, <1>4, <1>5, <1>6, <1>7, IRQThreadsAssumption

\* What a thread has to make up for is no more than it has told.
LEMMA OwnIs ==
  ASSUME DataTypes, Counted
  PROVE  \A c \in Crates : Own(c) \in Nat /\ Own(c) <= errorCount[c] - ignErrCnt[c]
<1>1. \A c \in Crates : errorCount[c] \in Nat /\ ignErrCnt[c] \in Nat
  BY Sizes DEF DataTypes
<1>2. \A c \in Crates : ignErrCnt[c] <= errorCount[c]
  BY DEF Counted
<1> QED
  BY <1>1, <1>2 DEF Own

\* As long as no thread has more to make up for, it stays below.
LEMMA BelowKept ==
  ASSUME DataTypes, Counted, Below,
         \A d \in Crates : Own(d)' \in Nat /\ Own(d)' <= Own(d),
         requested => requested'
  PROVE  Below'
<1>1. \A d \in Crates : Own(d) \in Nat
  BY OwnIs
<1> DEFINE f == [d \in Crates |-> Own(d)']
           h == [d \in Crates |-> Own(d)]
<1>2. \A d \in Crates : f[d] \in Int /\ h[d] \in Int /\ f[d] <= h[d]
  BY <1>1
<1>3. h = [d \in Crates |-> IF Bound(d) THEN 0 ELSE errorCount[d] - ignErrCnt[d]]
  BY DEF Own
<1>4. f = [d \in Crates |-> IF Bound(d) THEN 0 ELSE errorCount[d] - ignErrCnt[d]]'
  BY DEF Own
<1> HIDE DEF f, h
<1>5. Sum(f) \in Int /\ Sum(h) \in Int /\ Sum(f) <= Sum(h)
  BY <1>2, SumMonotone
<1>6. ~requested => Sum(h) < Threshold
  BY <1>3 DEF Below
<1>7. ~requested' => Sum(f) < Threshold
  BY <1>5, <1>6, IRQThreadsAssumption
<1> QED
  BY <1>4, <1>7 DEF Below

\* It is below after a step that looks at all the counts.
LEMMA BelowAnew ==
  ASSUME DataTypes', Counted',
         ~requested' => Total(errorCount', ignErrCnt') < Threshold \/ Below'
  PROVE  Below'
<1>1. \A c \in Crates : /\ Own(c)' \in Nat
                        /\ Own(c)' <= errorCount'[c] - ignErrCnt'[c]
  <2>1. \A c \in Crates : errorCount'[c] \in Nat /\ ignErrCnt'[c] \in Nat
    BY Sizes DEF DataTypes
  <2>2. \A c \in Crates : ignErrCnt'[c] <= errorCount'[c]
    BY DEF Counted
  <2> QED
    BY <2>1, <2>2 DEF Own
<1> DEFINE f == [d \in Crates |-> Own(d)']
<1>2. f = [d \in Crates |-> IF Bound(d) THEN 0 ELSE errorCount[d] - ignErrCnt[d]]'
  BY DEF Own
<1>3. \A c \in Crates : f[c] \in Int /\ f[c] <= errorCount'[c] - ignErrCnt'[c]
  BY <1>1
<1> HIDE DEF f
<1>4. /\ errorCount' \in [Crates -> 0 .. Cardinality(Chambers)]
      /\ ignErrCnt' \in [Crates -> 0 .. Cardinality(Chambers)]
  BY DEF DataTypes
<1>5. CASE Total(errorCount', ignErrCnt') < Threshold
  <2>1. Sum(f) < Threshold
    BY <1>3, <1>4, <1>5, SomeBelow
  <2> QED
    BY <1>2, <2>1 DEF Below
<1>6. CASE requested'
  BY <1>6 DEF Below
<1> QED
  BY <1>5, <1>6

LEMMA BelowStep ==
  ASSUME ControlTypes, DataTypes, DataTypes', Managed, Counted, Counted', Below, [Next]_vars
  PROVE  Below'
<1> USE DEF Goto
<1>0. \A d \in Crates : Own(d) \in Nat
  BY OwnIs
<1>1. CASE Idly
  <2>1. \A d \in Crates : Own(d)' \in Nat /\ Own(d)' <= Own(d)
    BY <1>0, <1>1 DEF Idly, Own, Bound, Outside, Waits, localVars, countVars
  <2>2. requested => requested'
    BY <1>1 DEF Idly, historyVars
  <2> QED
    BY <2>1, <2>2, BelowKept
<1>2. CASE Start
  <2>1. \A d \in Crates : Own(d)' \in Nat /\ Own(d)' <= Own(d)
    <3>1. \A d \in Crates : pc'[d] = "none"
      BY <1>2 DEF Start, Managed
    <3> QED
      BY <1>0, <3>1 DEF Own, Bound
  <2>2. CASE KeepData
    <3>1. requested => requested'
      BY <1>2, <2>2 DEF Start, historyVars
    <3> QED
      BY <2>1, <3>1, BelowKept
  <2>3. CASE ~KeepData
    <3>1. errorCount' = ForAll(0) /\ ignErrCnt' = ForAll(0)
      BY <1>2, <2>3 DEF Start
    <3>2. Total(errorCount', ignErrCnt') < Threshold
      <4>1. Sum(ForAll(0)) \in Int
        <5>1. \A c \in Crates : ForAll(0)[c] = 0
          BY DEF ForAll
        <5> QED
          BY <5>1, SumMonotone
      <4>2. Sum(ForAll(0)) - Sum(ForAll(0)) = 0
        BY <4>1
      <4>3. Total(ForAll(0), ForAll(0)) = 0
        BY <4>2 DEF Total, Max
      <4> QED
        BY <3>1, <4>3, IRQThreadsAssumption
    <3> QED
      BY <3>2, BelowAnew
  <2> QED
    BY <2>2, <2>3
<1>3. CASE Resync
  <2>1. \A d \in Crates : Own(d)' \in Nat /\ Own(d)' <= Own(d)
    BY <1>0, <1>3 DEF Resync, Own, Bound, countVars
  <2>2. requested => requested'
    BY <1>3 DEF Resync, historyVars
  <2> QED
    BY <2>1, <2>2, BelowKept
<1>4. ASSUME NEW c \in Crates, Join(c) PROVE Below'
  <2>1. \A d \in Crates : Own(d)' \in Nat /\ Own(d)' <= Own(d)
    BY <1>0, <1>4 DEF Join, ClearLocals, Own, Bound, countVars, ControlTypes, DataTypes
  <2>2. requested => requested'
    BY <1>4 DEF Join, historyVars
  <2> QED
    BY <2>1, <2>2, BelowKept
<1>5. ASSUME NEW c \in Crates, Clear(c) PROVE Below'
  <2>1. \A d \in Crates : Own(d)' \in Nat /\ Own(d)' <= Own(d)
    <3>1. ASSUME NEW d \in Crates, d # c
          PROVE  UNCHANGED <<pc[d], totalErrors[d], doReset[d], errorCount[d], ignErrCnt[d]>>
      BY <1>5, <3>1 DEF Clear, ClearLocals, ControlTypes, DataTypes
    <3>2. ASSUME NEW d \in Crates, d # c PROVE Own(d)' = Own(d)
      BY <3>1, <3>2 DEF Own, Bound
    <3>3. errorCount'[c] = 0 /\ ignErrCnt'[c] = 0
      BY <1>5 DEF Clear, DataTypes
    <3>4. Own(c)' = 0
      BY <3>3 DEF Own
    <3> QED
      BY <1>0, <3>2, <3>4
  <2>2. requested' = (requested /\ Total(errorCount', ignErrCnt') >= Threshold)
    BY <1>5 DEF Clear, NoteClearing
  <2>3. Total(errorCount', ignErrCnt') \in Int
    BY Sizes, TotalType DEF DataTypes
  <2>4. CASE requested
    <3>1. ~requested' => ~(Total(errorCount', ignErrCnt') >= Threshold)
      BY <2>2, <2>4, Zenon
    <3>2. ~requested' => Total(errorCount', ignErrCnt') < Threshold
      BY <2>3, <3>1, IRQThreadsAssumption
    <3> QED
      BY <3>2, BelowAnew
  <2>5. CASE ~requested
    BY <2>1, <2>5, BelowKept
  <2> QED
    BY <2>4, <2>5
<1>6. ASSUME NEW c \in Crates, ReadIRQ(c) PROVE Below'
  <2>1. \A d \in Crates : Own(d)' \in Nat /\ Own(d)' <= Own(d)
    BY <1>0, <1>6 DEF ReadIRQ, Own, Bound, localVars, countVars, ControlTypes
  <2>2. requested => requested'
    BY <1>6 DEF ReadIRQ, historyVars
  <2> QED
    BY <2>1, <2>2, BelowKept
<1>7. ASSUME NEW c \in Crates, ReadStatus(c) PROVE Below'
  <2>1. \A d \in Crates : Own(d)' \in Nat /\ Own(d)' <= Own(d)
    BY <1>0, <1>7 DEF ReadStatus, Again, Own, Bound, countVars, ControlTypes, DataTypes
  <2>2. requested => requested'
    BY <1>7 DEF ReadStatus, historyVars
  <2> QED
    BY <2>1, <2>2, BelowKept
<1>8. ASSUME NEW c \in Crates, Note(c) PROVE Below'
  <2>1. \A d \in Crates : Own(d)' \in Nat /\ Own(d)' <= Own(d)
    BY <1>0, <1>8 DEF Note, Own, Bound, countVars, ControlTypes
  <2>2. requested => requested'
    BY <1>8 DEF Note
  <2> QED
    BY <2>1, <2>2, BelowKept
<1>9. ASSUME NEW c \in Crates, Count(c) PROVE Below'
  <2>1. requested' = (requested /\ Total(errorCount', ignErrCnt') >= Threshold)
    BY <1>9 DEF Count, CountOf
  <2>2. Total(errorCount', ignErrCnt') \in Int
    BY Sizes, TotalType DEF DataTypes
  <2>3. CASE Total(errorCount', ignErrCnt') < Threshold
    BY <2>3, BelowAnew
  <2>4. CASE Total(errorCount', ignErrCnt') >= Threshold
    <3>1. requested => requested'
      BY <2>1, <2>4, Zenon
    <3>2. Bound(c)'
      <4>1. pc'[c] = "deciding" /\ doReset'[c] = doReset[c]
        BY <1>9 DEF Count, CountOf, ControlTypes
      <4>2. ~doReset[c] => totalErrors'[c] = Total(errorCount', ignErrCnt')
        BY <1>9 DEF Count, CountOf, DataTypes
      <4> QED
        BY <2>4, <4>1, <4>2 DEF Bound
    <3>3. ASSUME NEW d \in Crates, d # c
          PROVE  UNCHANGED <<pc[d], totalErrors[d], doReset[d], errorCount[d], ignErrCnt[d]>>
      BY <1>9, <3>3 DEF Count, CountOf, ControlTypes, DataTypes
    <3>4. ASSUME NEW d \in Crates, d # c PROVE Own(d)' = Own(d)
      BY <3>3, <3>4 DEF Own, Bound
    <3>5. Own(c)' = 0
      BY <3>2 DEF Own
    <3>6. \A d \in Crates : Own(d)' \in Nat /\ Own(d)' <= Own(d)
      BY <1>0, <3>4, <3>5
    <3> QED
      BY <3>1, <3>6, BelowKept
  <2> QED
    BY <2>2, <2>3, <2>4, IRQThreadsAssumption
<1>10. ASSUME NEW c \in Crates, Decide(c) PROVE Below'
  <2>1. CASE totalErrors[c] >= Threshold
    <3>1. requested' = TRUE
      BY <1>10, <2>1 DEF Decide, Release
    <3> QED
      BY <3>1 DEF Below
  <2>2. CASE ~(totalErrors[c] >= Threshold)
    <3>1. requested' = requested
      BY <1>10, <2>2 DEF Decide
    <3>2. \A d \in Crates : Own(d)' \in Nat /\ Own(d)' <= Own(d)
      BY <1>0, <1>10, <2>2 DEF Decide, Own, Bound, countVars, ControlTypes, DataTypes
    <3> QED
      BY <3>1, <3>2, BelowKept
  <2> QED
    BY <2>1, <2>2
<1>11. ASSUME NEW c \in Crates, AfterIRQ(c) PROVE Below'
  <2>1. \A d \in Crates : Own(d)' \in Nat /\ Own(d)' <= Own(d)
    BY <1>0, <1>11 DEF AfterIRQ, Again, Own, Bound, countVars, ControlTypes, DataTypes
  <2>2. requested => requested'
    BY <1>11 DEF AfterIRQ, historyVars
  <2> QED
    BY <2>1, <2>2, BelowKept
<1>12. ASSUME NEW c \in Crates, NEW f \in Chambers, ChamberFails(c, f) PROVE Below'
  <2>1. \A d \in Crates : Own(d)' \in Nat /\ Own(d)' <= Own(d)
    BY <1>0, <1>12 DEF ChamberFails, Own, Bound, localVars, countVars
  <2>2. requested => requested'
    BY <1>12 DEF ChamberFails
  <2> QED
    BY <2>1, <2>2, BelowKept
<1> QED
  BY <1>1, <1>2, <1>3, <1>4, <1>5, <1>6, <1>7, <1>8, <1>9, <1>10, <1>11, <1>12, StepIs

-----------------------------------------------------------------------------
\* The invariant.

LEMMA IInvInit ==
  ASSUME Init
  PROVE  IInv
<1> USE Sizes DEF Init, ForAll
<1>1. ControlTypes
  <2>1. resetCount \in 0 .. Cardinality(Crates) - 1
    OBVIOUS
  <2>2. mutexLost \in BOOLEAN
    BY Zenon
  <2> QED
    BY <2>1, <2>2 DEF ControlTypes, Labels
<1>2. DataTypes
  <2>1. requested \in BOOLEAN
    BY Zenon
  <2> QED
    BY <2>1 DEF DataTypes
<1>3. Managed
  BY DEF Managed
<1>4. Counted
  BY DEF Counted, Told
<1>5. Noted
  BY DEF Noted, Told
<1>6. Caused
  BY DEF Caused
<1>7. Below
  <2> DEFINE f == [c \in Crates |-> IF Bound(c) THEN 0 ELSE errorCount[c] - ignErrCnt[c]]
  <2>1. \A c \in Crates : f[c] = 0
    BY DEF Bound
  <2>2. errorCount \in [Crates -> 0 .. Cardinality(Chambers)]
    BY <1>2 DEF DataTypes
  <2>3. Sum(errorCount) \in Int
    <3>1. \A c \in Crates : errorCount[c] = 0
      OBVIOUS
    <3> QED
      BY <3>1, SumMonotone
  <2>4. Total(errorCount, errorCount) = 0
    <3>1. Sum(errorCount) - Sum(errorCount) = 0
      BY <2>3
    <3> QED
      BY <3>1 DEF Total, Max
  <2>5. \A c \in Crates : f[c] \in Int /\ f[c] <= errorCount[c] - errorCount[c]
    BY <2>1
  <2> HIDE DEF f
  <2>6. Sum(f) < Threshold
    BY <2>2, <2>4, <2>5, SomeBelow, IRQThreadsAssumption
  <2> QED
    BY <2>6 DEF Below, f
<1> QED
  BY <1>1, <1>2, <1>3, <1>4, <1>5, <1>6, <1>7, TypesAre DEF IInv

LEMMA IInvNext ==
  ASSUME IInv, [Next]_vars
  PROVE  IInv'
<1>1. /\ ControlTypes /\ DataTypes /\ TypeOK
      /\ Managed /\ Counted /\ Noted /\ Caused /\ Below
  BY TypesAre DEF IInv
<1>2. TypeOK'
  BY <1>1, TypeKept
<1>3. DataTypes'
  BY <1>1, DataTypesKept
<1>4. Managed'
  BY <1>1, ManagedKept
<1>5. Counted'
  BY <1>1, CountedKept
<1>6. Noted'
  BY <1>1, NotedKept
<1>7. Caused'
  BY <1>1, CausedKept
<1>8. Below'
  BY <1>1, <1>3, <1>5, BelowStep
<1> QED
  BY <1>2, <1>4, <1>5, <1>6, <1>7, <1>8 DEF IInv

LEMMA IInvAlways == Spec => []IInv
<1>1. Init => IInv
  BY IInvInit
<1>2. IInv /\ [Next]_vars => IInv'
  BY IInvNext
<1> QED
  BY <1>1, <1>2, PTL DEF Spec

\* The threads' variables keep their types; above all, resetCount never reaches the
\* number of crates: the thread that would make it so opens the barrier.
THEOREM Types == Spec => []TypeOK
<1>1. IInv => TypeOK
  BY DEF IInv
<1> QED
  BY <1>1, IInvAlways, PTL

\* A thread with nothing to do has told the others of all its chambers in error but
\* those it may leave out, and with all such threads' counts below the threshold so
\* are the chambers.
LEMMA NotMissedFollows ==
  ASSUME IInv
  PROVE  NotMissed
<1>1. DataTypes /\ Counted /\ Noted /\ Below
  BY TypesAre DEF IInv
<1> DEFINE Left == {c \in Crates : pc[c] # "exited"}
           Chargeable(c) == IF c \in Left THEN errors[c] \ (forgotten[c] \cup secondErr[c])
                                          ELSE {}
           f == [c \in Crates |-> Cardinality(Chargeable(c))]
           h == [c \in Crates |-> IF Bound(c) THEN 0 ELSE errorCount[c] - ignErrCnt[c]]
<1>2. SUFFICES ASSUME \A c \in Left : Quiet(c), Sum(f) >= Threshold
               PROVE  requested
  BY DEF NotMissed
<1>3. ASSUME NEW c \in Crates PROVE f[c] \in Int /\ h[c] \in Int /\ f[c] <= h[c]
  <2>1. errorCount[c] \in Nat /\ ignErrCnt[c] \in Nat /\ ignErrCnt[c] <= errorCount[c]
    <3>1. errorCount[c] \in Nat /\ ignErrCnt[c] \in Nat
      BY <1>1, Sizes DEF DataTypes
    <3>2. ignErrCnt[c] <= errorCount[c]
      BY <1>1 DEF Counted
    <3> QED
      BY <3>1, <3>2
  <2>2. CASE c \notin Left
    <3>1. Chargeable(c) = {}
      BY <2>2
    <3>2. f[c] = 0
      BY <3>1, Sizes
    <3> QED
      BY <2>1, <3>2
  <2>3. CASE c \in Left
    <3>1. pc[c] \in {"inner", "polling"} /\ ~irq[c]
      BY <1>2, <2>3 DEF Quiet
    <3>2. /\ errorCount[c] = Cardinality(last[c])
          /\ ignErrCnt[c] <= Cardinality(secondErr[c] \cap last[c])
          /\ errors[c] \subseteq last[c] \cup forgotten[c]
      BY <1>1, <3>1 DEF Counted, Noted, Told
    <3>3. Chargeable(c) \subseteq last[c] \ secondErr[c]
      BY <3>2
    <3>4. last[c] \in SUBSET Chambers
      BY <1>1 DEF DataTypes
    <3>5. IsFiniteSet(last[c]) /\ Cardinality(last[c]) \in Nat
      BY <3>4, Sizes
    <3>6. Cardinality(last[c] \ secondErr[c])
            = Cardinality(last[c]) - Cardinality(last[c] \cap secondErr[c])
      BY <3>5, FS_Difference
    <3>7. /\ Cardinality(Chargeable(c)) <= Cardinality(last[c] \ secondErr[c])
          /\ Cardinality(Chargeable(c)) \in Nat
      <4>1. /\ last[c] \ secondErr[c] \in SUBSET Chambers
            /\ Chargeable(c) \in SUBSET (last[c] \ secondErr[c])
            /\ Chargeable(c) \in SUBSET Chambers
        BY <3>3, <3>4
      <4> HIDE DEF Chargeable
      <4> QED
        BY <4>1, Sizes
    <3>8. last[c] \cap secondErr[c] = secondErr[c] \cap last[c]
      OBVIOUS
    <3>9. Cardinality(last[c] \cap secondErr[c]) \in Nat
      BY <3>4, Sizes
    <3>10. ~Bound(c)
      BY <3>1 DEF Bound
    <3>11. f[c] = Cardinality(Chargeable(c)) /\ h[c] = errorCount[c] - ignErrCnt[c]
      BY <3>10
    <3>12. ignErrCnt[c] <= Cardinality(last[c] \cap secondErr[c])
      BY <3>2, <3>8
    <3> DEFINE n == Cardinality(Chargeable(c))
               m == Cardinality(last[c] \ secondErr[c])
               k == Cardinality(last[c] \cap secondErr[c])
    <3>13. n \in Nat /\ n <= m /\ m = errorCount[c] - k /\ k \in Nat /\ ignErrCnt[c] <= k
      BY <3>2, <3>6, <3>7, <3>9, <3>12
    <3>14. f[c] = n
      BY <3>11
    <3> HIDE DEF f, h, n, m, k
    <3> QED
      BY <2>1, <3>11, <3>13, <3>14
  <2> QED
    BY <2>2, <2>3
<1> HIDE DEF f, h
<1>4. Sum(f) \in Int /\ Sum(h) \in Int /\ Sum(f) <= Sum(h)
  BY <1>3, SumMonotone
<1>5. ~requested => Sum(h) < Threshold
  BY <1>1 DEF Below, h
<1> QED
  BY <1>2, <1>4, <1>5, IRQThreadsAssumption

\* When the threads that are left have nothing to do, and the chambers in error reach
\* fmmErrorThreshold, the FMMs have been released: whatever the threads read of each
\* other's counts while they change, one of them sees the sum.
THEOREM NoneMissed == Spec => []NotMissed
<1>1. IInv => NotMissed
  BY NotMissedFollows
<1> QED
  BY <1>1, IInvAlways, PTL

\* A thread that finds the threshold reached finds it among chambers in error.
LEMMA CauseFollows ==
  ASSUME IInv, IInv', Next, NEW c \in Crates,
         pc[c] = "counting", pc'[c] = "deciding", totalErrors'[c] >= Threshold
  PROVE  Sum([d \in Crates |-> Cardinality(failedSince[d])]) >= Threshold
<1>1. ControlTypes /\ DataTypes /\ Counted /\ Caused
  BY TypesAre DEF IInv
<1>2. Count(c)
  <2>1. [Next]_vars
    OBVIOUS
  <2>2. ~Idly /\ ~Start /\ ~Resync
    BY DEF Idly, Outside, Waits, Start, Resync
  <2>3. ASSUME NEW d \in Crates,
               \/ Join(d) \/ Clear(d) \/ ReadIRQ(d) \/ ReadStatus(d) \/ Note(d)
               \/ Decide(d) \/ AfterIRQ(d) \/ \E f \in Chambers : ChamberFails(d, f)
        PROVE  FALSE
    BY <1>1, <2>3 DEF Join, Clear, ReadIRQ, ReadStatus, Again, Note, Decide, AfterIRQ,
                      ChamberFails, Goto, ControlTypes
  <2>4. ASSUME NEW d \in Crates, Count(d) PROVE d = c
    BY <1>1, <2>4 DEF Count, CountOf, Goto, ControlTypes
  <2> QED
    BY <1>1, <2>1, <2>2, <2>3, <2>4, StepIs
<1> DEFINE f == [d \in Crates |-> Cardinality(failedSince[d])]
<1>3. ControlTypes' /\ DataTypes' /\ Caused'
  BY TypesAre DEF IInv, TypeOK, ControlTypes, DataTypes
<1>4. failedSince' = failedSince
  BY <1>2 DEF Count, CountOf
<1>5. \A d \in Crates : errorCount'[d] \in Nat /\ f[d] \in Nat /\ errorCount'[d] <= f[d]
  BY <1>1, <1>3, <1>4, Sizes DEF DataTypes, Caused
<1>6. Sum(errorCount') \in Int /\ Sum(f) \in Int /\ Sum(errorCount') <= Sum(f)
  <2> HIDE DEF f
  <2> QED
    BY <1>5, SumMonotone
<1>7. CASE doReset[c]
  <2>1. totalErrors'[c] = Cardinality(combined[c]) - nIgnFibers[c]
    BY <1>1, <1>2, <1>7 DEF Count, CountOf, DataTypes
  <2>2. nIgnFibers[c] \in Nat
    BY <1>1, Sizes DEF DataTypes
  <2>3. errorCount'[c] = Cardinality(combined[c])
    BY <1>1, <1>2 DEF Count, CountOf, DataTypes
  <2>4. errorCount'[c] <= Sum(errorCount')
    BY <1>5, SumElement
  <2> HIDE DEF f
  <2>5. Sum(f) >= Threshold
    BY <1>5, <1>6, <2>1, <2>2, <2>3, <2>4, IRQThreadsAssumption
  <2> QED
    BY <2>5 DEF f
<1>8. CASE ~doReset[c]
  <2>1. totalErrors'[c] = Total(errorCount', ignErrCnt')
    BY <1>1, <1>2, <1>8 DEF Count, CountOf, DataTypes
  <2>2. Sum(errorCount') \in Nat /\ Sum(ignErrCnt') \in Nat
    <3>1. \A d \in Crates : errorCount'[d] \in Nat /\ ignErrCnt'[d] \in Nat
      BY <1>3, Sizes DEF DataTypes
    <3> QED
      BY <3>1, SumElement
  <2>3. Total(errorCount', ignErrCnt') <= Sum(errorCount')
    BY <2>2 DEF Total, Max
  <2>4. Total(errorCount', ignErrCnt') \in Int
    BY <2>2 DEF Total, Max
  <2> HIDE DEF f
  <2>5. Sum(f) >= Threshold
    BY <1>6, <2>1, <2>2, <2>3, <2>4, IRQThreadsAssumption
  <2> QED
    BY <2>5 DEF f
<1> QED
  BY <1>7, <1>8

\* No thread releases the FMMs for less than fmmErrorThreshold chambers that have been
\* in error since their crates last began anew.
THEOREM NoneForNothing == Spec => ReleasedForCause
<1>1. IInv /\ IInv' /\ [Next]_vars =>
        [\A c \in Crates :
           pc[c] = "counting" /\ pc'[c] = "deciding" /\ totalErrors'[c] >= Threshold
           => Sum([d \in Crates |-> Cardinality(failedSince[d])]) >= Threshold]_vars
  BY CauseFollows
<1> QED
  BY <1>1, IInvAlways, PTL DEF Spec, ReleasedForCause
=============================================================================
