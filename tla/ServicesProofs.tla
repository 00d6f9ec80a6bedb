--------------------------- MODULE ServicesProofs ---------------------------
(***************************************************************************)
(* What runs beside the counter: theorems about the jobs' runs (Jobs), the *)
(* statements to everyone (Statements) and what is disposed of             *)
(* (Retention), for any number of containers, rows and interruptions.      *)
(***************************************************************************)
EXTENDS Jobs, Statements, Retention, Sums, FiniteSetTheorems, TLAPS

-----------------------------------------------------------------------------
(* The first n of a set of ids: what a chunk is                            *)

Before(W, x) == {y \in W : y < x}
FirstOf(W, n) == {x \in W : Cardinality(Before(W, x)) < n}

\* Of two ids of the set, the one before has fewer before it.
LEMMA FewerBefore ==
    ASSUME NEW W, \A w \in W : w \in Nat, NEW x \in W
    PROVE  /\ IsFiniteSet(Before(W, x)) /\ Cardinality(Before(W, x)) \in Nat
           /\ \A y \in W : x < y => Cardinality(Before(W, x)) < Cardinality(Before(W, y))
<1>1. ASSUME NEW y \in W
      PROVE  IsFiniteSet(Before(W, y)) /\ Cardinality(Before(W, y)) \in Nat
  <2>1. \A z \in Before(W, y) : z <= y
    BY DEF Before
  <2>2. IsFiniteSet(Before(W, y))
    <3>1. Before(W, y) \in SUBSET Nat
      BY DEF Before
    <3> QED BY <2>1, <3>1, FS_BoundedSetOfNaturals
  <2> QED BY <2>2, FS_CardinalityType
<1>2. ASSUME NEW y \in W, x < y
      PROVE  Cardinality(Before(W, x)) < Cardinality(Before(W, y))
  <2> DEFINE T == Before(W, x) \cup {x}
  <2>1. x \notin Before(W, x) /\ T \subseteq Before(W, y)
    BY <1>2 DEF Before
  <2>2. Cardinality(T) = Cardinality(Before(W, x)) + 1
    BY <1>1, <2>1, FS_AddElement
  <2> HIDE DEF T
  <2>3. Cardinality(T) <= Cardinality(Before(W, y))
    BY <1>1, <2>1, FS_Subset
  <2> QED BY <1>1, <2>2, <2>3
<1> QED BY <1>1, <1>2

\* A chunk has a last row, and holds every row up to it; it is empty only
\* when nothing is left.
LEMMA ChunkOfFirst ==
    ASSUME NEW W, \A w \in W : w \in Nat, NEW n \in Nat \ {0}
    PROVE  /\ W # {} => FirstOf(W, n) # {}
           /\ \A last \in FirstOf(W, n), x \in W : x <= last => x \in FirstOf(W, n)
           /\ FirstOf(W, n) # {} => /\ Max(FirstOf(W, n)) \in FirstOf(W, n)
                                    /\ \A x \in FirstOf(W, n) : x <= Max(FirstOf(W, n))
<1>1. ASSUME W # {} PROVE FirstOf(W, n) # {}
  <2>1. PICK x \in W : \A y \in W : x <= y
    <3>1. W \subseteq Nat
      OBVIOUS
    <3> QED BY <1>1, <3>1, LeastNumber
  <2>2. Before(W, x) = {}
    BY <2>1 DEF Before
  <2>3. Cardinality(Before(W, x)) = 0
    BY <2>2, FS_EmptySet
  <2> QED BY <2>3 DEF FirstOf
<1>2. ASSUME NEW last \in FirstOf(W, n), NEW x \in W, x <= last PROVE x \in FirstOf(W, n)
  <2>1. last \in W /\ Cardinality(Before(W, last)) < n
    BY DEF FirstOf
  <2>2. x = last \/ x < last
    BY <1>2, <2>1
  <2> QED BY <2>1, <2>2, FewerBefore DEF FirstOf
<1>3. ASSUME FirstOf(W, n) # {}
      PROVE  Max(FirstOf(W, n)) \in FirstOf(W, n) /\ \A x \in FirstOf(W, n) : x <= Max(FirstOf(W, n))
  <2> DEFINE F == FirstOf(W, n)
             K == {k \in Nat : \A x \in F : Cardinality(Before(W, x)) <= k}
  <2>1. F \subseteq W /\ \A x \in F : Cardinality(Before(W, x)) \in Nat /\ Cardinality(Before(W, x)) < n
    BY FewerBefore DEF FirstOf
  <2> HIDE DEF F
  <2>2. n \in K
    BY <2>1
  <2>3. PICK k \in K : \A j \in K : k <= j
    <3>1. K \subseteq Nat /\ K # {}
      BY <2>2
    <3> HIDE DEF K
    <3> QED BY <3>1, LeastNumber
  <2>4. PICK last \in F : Cardinality(Before(W, last)) = k
    <3>1. CASE k = 0
      <4>1. PICK x : x \in F
        BY <1>3 DEF F
      <4> QED BY <2>1, <3>1, <4>1
    <3>2. CASE k # 0
      <4>1. k - 1 \in Nat /\ k - 1 \notin K
        BY <2>3, <3>2
      <4>2. PICK x \in F : ~(Cardinality(Before(W, x)) <= k - 1)
        BY <4>1
      <4> QED BY <2>1, <3>2, <4>1, <4>2
    <3> QED BY <3>1, <3>2
  <2>5. \A x \in F : x <= last
    <3> SUFFICES ASSUME NEW x \in F, last < x PROVE FALSE
      BY <2>1
    <3>1. k < Cardinality(Before(W, x))
      BY <2>1, <2>4, FewerBefore
    <3> QED BY <2>1, <3>1
  <2>6. \A x \in F : Max(F) >= x /\ Max(F) \in F
    <3>1. \E m \in F : \A x \in F : m >= x
      BY <2>1, <2>4, <2>5
    <3> QED BY <3>1 DEF Max
  <2> QED BY <2>1, <2>4, <2>6 DEF F
<1> QED BY <1>1, <1>2, <1>3

-----------------------------------------------------------------------------
(* The jobs' runs: one container, one run                                  *)

At == {"off", "connected", "locked", "between", "read", "worked", "failed", "finished"}
Early == {"off", "connected", "locked"}

Containers == [at : At, stopping : BOOLEAN, run : Nat, cursor : Nat, processed : Nat, chunk : SUBSET Id]
IsContainer(c) == c \in Containers /\ IsFiniteSet(c.chunk)

JobRuns ==
    [status : {"running", "succeeded", "failed"}, attempt : Nat, cursor : Nat, processed : Nat]

\* The rows due to run r, up to its cursor, have been worked.
SweptTo(r, cursor, done) == \A x \in due[r] : x <= cursor => done[r][x] > 0

\* A container on a run, whose containers have done so much: it has worked
\* what its cursor says; it holds the next rows, and the last of them; it has
\* worked those; or, unless it was told to stop, there were none.
Sound(c, done) ==
    /\ IsContainer(c)
    /\ c.at \in Early => c.cursor = 0
    /\ c.at \notin Early =>
          c.run \in DOMAIN run /\ SweptTo(c.run, c.cursor, done)
    /\ c.at \in {"read", "worked"} =>
          /\ Max(c.chunk) \in Nat
          /\ \A x \in due[c.run] : x <= Max(c.chunk) => x <= c.cursor \/ x \in c.chunk
    /\ c.at = "worked" => \A x \in c.chunk \cap Id : done[c.run][x] > 0
    /\ (c.at = "finished" /\ ~c.stopping) => \A x \in due[c.run] : done[c.run][x] > 0

JobsTyped ==
    /\ present \subseteq Id
    /\ run \in Seq(JobRuns) /\ Len(run) <= MaxRuns
    /\ inst = [i \in Instance |-> inst[i]]
    /\ swept \in [Runs -> [Id -> Nat]] /\ due \in [Runs -> SUBSET Id]

\* A run owes nothing that its cursor has passed.
RunSound(r) ==
    /\ due[r] \subseteq present
    /\ SweptTo(r, run[r].cursor, swept)
    /\ run[r].status = "succeeded" => \A x \in due[r] : swept[r][x] > 0

JobsInv ==
    /\ JobsTyped
    /\ \A i \in Instance : Sound(inst[i], swept)
    /\ \A r \in DOMAIN run : RunSound(r)
    /\ \A r, s \in OpenRuns : r = s

\* Runs that are there stay, with what is due to them, and what is worked
\* stays worked.
Onwards ==
    /\ DOMAIN run \subseteq DOMAIN run'
    /\ \A r \in DOMAIN run : due'[r] = due[r] /\ \A x \in due[r] : swept[r][x] > 0 => swept'[r][x] > 0
    /\ \A r \in DOMAIN run, x \in Id : swept[r][x] > 0 => swept'[r][x] > 0

\* A container that was sound is so after such a step.
LEMMA StillSound ==
    ASSUME JobsTyped, NEW c, Sound(c, swept), Onwards
    PROVE  Sound(c, swept)'
<1>1. c.at \notin Early => c.run \in DOMAIN run' /\ (SweptTo(c.run, c.cursor, swept))'
  BY DEF Sound, Onwards, SweptTo
<1>2. c.at \in {"read", "worked"} =>
          /\ Max(c.chunk) \in Nat
          /\ \A x \in due'[c.run] : x <= Max(c.chunk) => x <= c.cursor \/ x \in c.chunk
  BY DEF Sound, Onwards, Early
<1>3. c.at = "worked" => \A x \in c.chunk \cap Id : swept'[c.run][x] > 0
  BY DEF Sound, Onwards, Early
<1>4. (c.at = "finished" /\ ~c.stopping) => \A x \in due'[c.run] : swept'[c.run][x] > 0
  BY DEF Sound, Onwards, Early
<1> QED BY <1>1, <1>2, <1>3, <1>4 DEF Sound

\* One container's step, when the runs are sound after it and one at most is
\* open.
LEMMA ContainerMoves ==
    ASSUME JobsInv, NEW i \in Instance, NEW c, inst' = [inst EXCEPT ![i] = c], Onwards, JobsTyped',
           Sound(c, swept)', \A r \in DOMAIN run' : RunSound(r)', (\A r, s \in OpenRuns : r = s)'
    PROVE  JobsInv'
<1>1. inst'[i] = c /\ \A j \in Instance \ {i} : inst'[j] = inst[j]
  BY DEF JobsInv, JobsTyped
<1>2. ASSUME NEW j \in Instance \ {i}, NEW d, d = inst[j] PROVE Sound(d, swept)'
  BY <1>2, StillSound DEF JobsInv
<1>3. ASSUME NEW j \in Instance, NEW d, d = inst'[j] PROVE Sound(d, swept)'
  BY <1>1, <1>2, <1>3
<1>4. (\A j \in Instance : Sound(inst[j], swept))'
  BY <1>3 DEF Sound
<1> QED BY <1>4 DEF JobsInv

\* A step that leaves the runs and what was worked as they are.
LEMMA RunsStay ==
    ASSUME JobsInv, NEW i \in Instance, NEW c, inst' = [inst EXCEPT ![i] = c],
           UNCHANGED <<present, run, swept, due>>, Sound(c, swept)
    PROVE  JobsInv'
<1>1. Onwards /\ inst' = [j \in Instance |-> inst'[j]]
  BY DEF Onwards, JobsInv, JobsTyped
<1>2. JobsTyped'
  BY <1>1 DEF JobsInv, JobsTyped
<1>3. Sound(c, swept)' /\ (\A r \in DOMAIN run' : RunSound(r)') /\ (\A r, s \in OpenRuns : r = s)'
  BY StillSound, <1>1 DEF JobsInv, RunSound, SweptTo, OpenRuns
<1> QED BY <1>1, <1>2, <1>3, ContainerMoves

\* A container that is gone.
LEMMA OffIsSound == Sound(Off, swept)
BY FS_EmptySet DEF Sound, Off, IsContainer, Containers, At, Early

\* A container's record with fields of it changed, one by one.
LEMMA Placed ==
    ASSUME NEW c, IsContainer(c), NEW at
    PROVE  LET d == [c EXCEPT !.at = at]
           IN  /\ d.at = at /\ d.stopping = c.stopping /\ d.run = c.run /\ d.cursor = c.cursor
               /\ d.processed = c.processed /\ d.chunk = c.chunk
               /\ at \in At => IsContainer(d)
BY DEF IsContainer, Containers

LEMMA Told ==
    ASSUME NEW c, IsContainer(c)
    PROVE  LET d == [c EXCEPT !.stopping = TRUE]
           IN  /\ d.at = c.at /\ d.stopping = TRUE /\ d.run = c.run /\ d.cursor = c.cursor
               /\ d.processed = c.processed /\ d.chunk = c.chunk
               /\ IsContainer(d)
BY DEF IsContainer, Containers

\* A container is started, finds the lock, is told to stop, or is gone: the
\* runs stay as they are.
LEMMA JobsQuiet ==
    ASSUME JobsInv, NEW i \in Instance, 
           \/ Start(i) \/ TryLock(i) \/ Signal(i) \/ Die(i) \/ FindLost(i)
    PROVE  JobsInv'
<1> DEFINE c == inst[i]
<1>0. Sound(c, swept) /\ IsContainer(c)
  BY DEF JobsInv, Sound
<1>1. CASE Start(i)
  <2> DEFINE d == [c EXCEPT !.at = "connected"]
  <2>1. inst' = [inst EXCEPT ![i] = d] /\ UNCHANGED <<present, run, swept, due>>
    BY <1>1 DEF Start, NowAt
  <2>2. Sound(d, swept)
    <3>1. c.at = "off"
      BY <1>1 DEF Start
    <3> QED BY <1>0, <3>1, Placed DEF Sound, At, Early
  <2> HIDE DEF d
  <2> QED BY <2>1, <2>2, RunsStay
<1>2. CASE TryLock(i)
  <2> DEFINE d == IF lock = Unlocked THEN [c EXCEPT !.at = "locked"] ELSE Off
  <2>1. inst' = [inst EXCEPT ![i] = d] /\ UNCHANGED <<present, run, swept, due>>
    BY <1>2 DEF TryLock, NowAt, Leaves
  <2>2. Sound(d, swept)
    <3>1. c.at = "connected"
      BY <1>2 DEF TryLock
    <3>2. Sound([c EXCEPT !.at = "locked"], swept)
      BY <1>0, <3>1, Placed DEF Sound, At, Early
    <3> QED BY <3>2, OffIsSound
  <2> HIDE DEF d
  <2> QED BY <2>1, <2>2, RunsStay
<1>3. CASE Signal(i)
  <2> DEFINE d == [c EXCEPT !.stopping = TRUE]
  <2>1. inst' = [inst EXCEPT ![i] = d] /\ UNCHANGED <<present, run, swept, due>>
    BY <1>3 DEF Signal
  <2>2. Sound(d, swept)
    <3>1. /\ d.at = c.at /\ d.stopping = TRUE /\ d.run = c.run /\ d.cursor = c.cursor
          /\ d.chunk = c.chunk /\ IsContainer(d)
      BY <1>0, Told
    <3> HIDE DEF d
    <3> QED BY <1>0, <3>1 DEF Sound
  <2> HIDE DEF d
  <2> QED BY <2>1, <2>2, RunsStay
<1>4. CASE Die(i) \/ FindLost(i)
  <2>1. inst' = [inst EXCEPT ![i] = Off] /\ UNCHANGED <<present, run, swept, due>>
    BY <1>4 DEF Die, FindLost, Leaves
  <2> QED BY <2>1, OffIsSound, RunsStay
<1> QED BY <1>1, <1>2, <1>3, <1>4

\* The next chunk is read: it holds every row up to its last, and is empty
\* only past the last row of all.
LEMMA JobsReads ==
    ASSUME JobsInv, NEW i \in Instance, ReadChunk(i), IdAssumption, BoundAssumption
    PROVE  JobsInv'
<1> DEFINE c == inst[i]
           W == {x \in present : x > c.cursor}
           chunk == IF c.stopping THEN {} ELSE ChunkAfter(c.cursor)
<1>1. /\ Sound(c, swept) /\ IsContainer(c) /\ c.at = "between" /\ c.cursor \in Nat
      /\ c.run \in DOMAIN run /\ SweptTo(c.run, c.cursor, swept)
  BY DEF JobsInv, Sound, ReadChunk, Early, IsContainer, Containers
<1>2. /\ UNCHANGED <<present, run, swept, due>>
      /\ \/ inst' = [inst EXCEPT ![i].at = IF chunk = {} THEN "finished" ELSE "read", ![i].chunk = chunk]
         \/ ~c.stopping /\ NowAt(i, "failed")
  BY DEF ReadChunk
<1>3. /\ \A w \in W : w \in Nat
      /\ due[c.run] \subseteq present /\ \A x \in present : x \in Nat
  BY <1>1 DEF JobsInv, JobsTyped, IdAssumption, RunSound
<1>4. ~c.stopping => chunk = FirstOf(W, ChunkSize)
  <2>1. \A x \in W : {y \in present : y > c.cursor /\ y < x} = Before(W, x)
    BY DEF Before
  <2> QED BY <2>1 DEF ChunkAfter, FirstOf
<1>5. ASSUME chunk # {}
      PROVE  Max(chunk) \in Nat /\ \A x \in due[c.run] : x <= Max(chunk) => x <= c.cursor \/ x \in chunk
  <2>1. ~c.stopping /\ chunk = FirstOf(W, ChunkSize) /\ chunk \subseteq W
    BY <1>4, <1>5 DEF FirstOf
  <2>2. Max(chunk) \in chunk /\ \A x \in W : x <= Max(chunk) => x \in chunk
    <3>1. ChunkSize \in Nat \ {0}
      BY DEF BoundAssumption
    <3> HIDE DEF W, chunk
    <3> QED BY <1>3, <1>5, <2>1, <3>1, ChunkOfFirst
  <2>3. \A x \in due[c.run] : x \in Nat /\ (x <= c.cursor \/ x \in W)
    BY <1>1, <1>3
  <2> HIDE DEF chunk
  <2> QED BY <1>3, <2>1, <2>2, <2>3
<1>6. ASSUME chunk = {}, ~c.stopping
      PROVE  \A x \in due[c.run] : swept[c.run][x] > 0
  <2>1. W = {}
    <3>1. ChunkSize \in Nat \ {0}
      BY DEF BoundAssumption
    <3> HIDE DEF W
    <3> QED BY <1>3, <1>4, <1>6, <3>1, ChunkOfFirst
  <2>2. \A x \in due[c.run] : x <= c.cursor
    BY <1>1, <1>3, <2>1
  <2> QED BY <1>1, <2>2 DEF SweptTo
<1>9. chunk \subseteq Id /\ IsFiniteSet(chunk)
  <2>1. CASE c.stopping
    BY <2>1, FS_EmptySet
  <2>2. CASE ~c.stopping
    <3>1. chunk = FirstOf(W, ChunkSize) /\ chunk \subseteq present
      BY <1>4, <2>2 DEF FirstOf
    <3>2. CASE chunk # {}
      <4>1. ChunkSize \in Nat \ {0}
        BY DEF BoundAssumption
      <4> HIDE DEF W
      <4>2. chunk \subseteq Nat /\ chunk \subseteq Id
        BY <1>3, <3>1 DEF JobsInv, JobsTyped
      <4> HIDE DEF chunk
      <4>3. \A x \in chunk : x <= Max(chunk)
        BY <1>3, <3>1, <3>2, <4>1, ChunkOfFirst
      <4>4. Max(chunk) \in Nat
        BY <1>5, <3>2
      <4> QED BY <4>2, <4>3, <4>4, FS_BoundedSetOfNaturals
    <3> QED BY <3>2, FS_EmptySet
  <2> QED BY <2>1, <2>2
<1> HIDE DEF chunk, W
<1>7. CASE inst' = [inst EXCEPT ![i].at = IF chunk = {} THEN "finished" ELSE "read", ![i].chunk = chunk]
  <2>0. PICK at \in At : at = IF chunk = {} THEN "finished" ELSE "read"
    BY DEF At
  <2> DEFINE d == [c EXCEPT !.at = at, !.chunk = chunk]
  <2>1. inst' = [inst EXCEPT ![i] = d]
    BY <1>7, <2>0 DEF JobsInv, JobsTyped
  <2>2. /\ d.at = at /\ d.stopping = c.stopping /\ d.run = c.run /\ d.cursor = c.cursor
        /\ d.chunk = chunk /\ IsContainer(d)
    <3>1. IsContainer(c) /\ chunk \subseteq Id /\ IsFiniteSet(chunk)
      BY <1>1, <1>9
    <3> QED BY <2>0, <3>1 DEF IsContainer, Containers
  <2> HIDE DEF d
  <2>3. Sound(d, swept)
    <3>1. CASE chunk = {}
      BY <1>1, <1>6, <2>0, <2>2, <3>1 DEF Sound, Early
    <3>2. CASE chunk # {}
      BY <1>1, <1>5, <2>0, <2>2, <3>2 DEF Sound, Early
    <3> QED BY <3>1, <3>2
  <2> QED BY <1>2, <2>1, <2>3, RunsStay
<1>8. CASE NowAt(i, "failed")
  <2> DEFINE d == [c EXCEPT !.at = "failed"]
  <2>1. inst' = [inst EXCEPT ![i] = d]
    BY <1>8 DEF NowAt
  <2>2. Sound(d, swept)
    BY <1>1, Placed DEF Sound, At, Early
  <2> HIDE DEF d
  <2> QED BY <1>2, <2>1, <2>2, RunsStay
<1> QED BY <1>2, <1>7, <1>8

\* The work of a chunk, all of it or a part: what is worked grows.
LEMMA JobsWork ==
    ASSUME JobsInv, BoundAssumption, NEW i \in Instance, Work(i)
    PROVE  JobsInv'
<1>0. PICK c : c = inst[i]
  OBVIOUS
<1>1. /\ Sound(c, swept) /\ IsContainer(c) /\ c.at = "read" /\ c.cursor \in Nat
      /\ c.run \in DOMAIN run /\ SweptTo(c.run, c.cursor, swept) /\ JobsTyped
      /\ Max(c.chunk) \in Nat
      /\ \A x \in due[c.run] : x <= Max(c.chunk) => x <= c.cursor \/ x \in c.chunk
  BY <1>0 DEF JobsInv, Sound, Work, Early, IsContainer, Containers
<1>2. c.run \in Runs
  BY <1>1 DEF JobsTyped, Runs, BoundAssumption
<1>3. PICK part \in SUBSET c.chunk, at \in {"worked", "failed"} :
         Swept(i, part) /\ NowAt(i, at) /\ (at = "worked" => part = c.chunk)
  BY <1>0 DEF Work
<1>4. UNCHANGED <<present, run, due>>
  BY DEF Work
<1>5. PICK r \in Runs : r = c.run
  BY <1>2
<1>6. swept' = [swept EXCEPT ![r] = [x \in Id |-> IF x \in part THEN swept[r][x] + 1 ELSE swept[r][x]]]
  BY <1>0, <1>3, <1>5 DEF Swept
<1>7. /\ swept' \in [Runs -> [Id -> Nat]]
      /\ \A q \in Runs, x \in Id : swept'[q][x] >= swept[q][x]
      /\ \A x \in part \cap Id : swept'[r][x] > 0
  <2>1. swept \in [Runs -> [Id -> Nat]]
    BY <1>1 DEF JobsTyped
  <2> DEFINE now == [x \in Id |-> IF x \in part THEN swept[r][x] + 1 ELSE swept[r][x]]
  <2>2. now \in [Id -> Nat] /\ (\A x \in Id : now[x] >= swept[r][x]) /\ \A x \in part \cap Id : now[x] > 0
    BY <2>1
  <2>3. swept' = [swept EXCEPT ![r] = now]
    BY <1>6
  <2> HIDE DEF now
  <2>4. swept' \in [Runs -> [Id -> Nat]] /\ swept'[r] = now /\ \A q \in Runs \ {r} : swept'[q] = swept[q]
    BY <2>1, <2>2, <2>3
  <2>5. \A q \in Runs, x \in Id : swept[q][x] \in Nat
    BY <2>1
  <2>6. ASSUME NEW q \in Runs, NEW x \in Id PROVE swept'[q][x] >= swept[q][x]
    <3>1. CASE q = r
      BY <2>2, <2>4, <3>1
    <3>2. CASE q # r
      BY <2>4, <2>5, <3>2
    <3> QED BY <3>1, <3>2
  <2> QED BY <2>2, <2>4, <2>6
<1>8. \A q \in DOMAIN run : q \in Runs /\ due[q] \subseteq Id
  BY <1>1 DEF JobsTyped, Runs, BoundAssumption
<1>9. \A q \in DOMAIN run, x \in Id : swept[q][x] > 0 => swept'[q][x] > 0
  <2>1. \A q \in Runs, x \in Id : swept[q][x] \in Nat /\ swept'[q][x] \in Nat
    BY <1>1, <1>7 DEF JobsTyped
  <2> QED BY <1>7, <1>8, <2>1
<1>10. Onwards
  BY <1>4, <1>8, <1>9 DEF Onwards
<1> DEFINE d == [c EXCEPT !.at = at]
<1>11. inst' = [inst EXCEPT ![i] = d]
  BY <1>0, <1>3 DEF NowAt
<1>12. JobsTyped'
  BY <1>1, <1>4, <1>7, <1>11 DEF JobsTyped
<1>13. Sound(d, swept)'
  <2>1. Sound(c, swept)'
    BY <1>1, <1>10, StillSound
  <2>2. at \in At /\ at \notin Early
    BY DEF At, Early
  <2>3. /\ d.at = at /\ d.run = c.run /\ d.cursor = c.cursor /\ d.chunk = c.chunk /\ IsContainer(d)
    BY <1>1, <2>2, Placed
  <2>4. at = "worked" => \A x \in c.chunk \cap Id : swept'[c.run][x] > 0
    BY <1>3, <1>5, <1>7
  <2> HIDE DEF d
  <2> QED BY <1>1, <2>1, <2>2, <2>3, <2>4 DEF Sound, Early
<1>14. \A q \in DOMAIN run' : RunSound(q)'
  BY <1>4, <1>8, <1>9 DEF JobsInv, RunSound, SweptTo
<1>15. (\A q, s \in OpenRuns : q = s)'
  BY <1>4 DEF JobsInv, OpenRuns
<1> HIDE DEF d
<1> QED BY <1>10, <1>11, <1>12, <1>13, <1>14, <1>15, ContainerMoves

\* A run's record, written over: the others stay as they are.
LEMMA RunWritten ==
    ASSUME JobsTyped, NEW r \in DOMAIN run, NEW now, run' = [run EXCEPT ![r] = now]
    PROVE  /\ run'[r] = now /\ \A q \in DOMAIN run \ {r} : run'[q] = run[q]
           /\ DOMAIN run' = DOMAIN run /\ Len(run') = Len(run)
           /\ now \in JobRuns => run' \in Seq(JobRuns)
BY DEF JobsTyped

\* One run's record written over, with nothing about what is due or worked:
\* sound, if that run is, and one at most is open, if it was open before.
LEMMA RunsWritten ==
    ASSUME JobsInv, NEW i \in Instance, NEW c, inst' = [inst EXCEPT ![i] = c],
           NEW r \in DOMAIN run, NEW now \in JobRuns, run' = [run EXCEPT ![r] = now],
           UNCHANGED <<present, swept, due>>,
           Sound(c, swept), SweptTo(r, now.cursor, swept),
           now.status = "succeeded" => \A x \in due[r] : swept[r][x] > 0,
           now.status = "running" => run[r].status = "running"
    PROVE  JobsInv'
<1>1. /\ run'[r] = now /\ \A q \in DOMAIN run \ {r} : run'[q] = run[q]
      /\ DOMAIN run' = DOMAIN run /\ Len(run') = Len(run) /\ run' \in Seq(JobRuns)
  BY RunWritten DEF JobsInv
<1>2. Onwards
  BY <1>1 DEF Onwards
<1>3. JobsTyped'
  <2>1. inst' = [j \in Instance |-> inst'[j]]
    BY DEF JobsInv, JobsTyped
  <2> QED BY <1>1, <2>1 DEF JobsInv, JobsTyped
<1>4. Sound(c, swept)'
  BY <1>2, StillSound DEF JobsInv
<1>5. ASSUME NEW q \in DOMAIN run' PROVE RunSound(q)'
  <2>1. CASE q = r
    BY <1>1, <2>1 DEF JobsInv, RunSound, SweptTo
  <2>2. CASE q # r
    BY <1>1, <2>2 DEF JobsInv, RunSound, SweptTo
  <2> QED BY <2>1, <2>2
<1>6. (\A q, s \in OpenRuns : q = s)'
  BY <1>1 DEF JobsInv, OpenRuns
<1> QED BY <1>2, <1>3, <1>4, <1>5, <1>6, ContainerMoves

\* The checkpoint: the run's cursor, and the container's, go to the chunk's
\* last row; every row up to it has been worked.
LEMMA JobsSave ==
    ASSUME JobsInv, BoundAssumption, IdAssumption, NEW i \in Instance, Save(i)
    PROVE  JobsInv'
<1>0. PICK c : c = inst[i]
  OBVIOUS
<1>1. /\ Sound(c, swept) /\ IsContainer(c) /\ c.at = "worked" /\ c.cursor \in Nat
      /\ c.run \in DOMAIN run /\ SweptTo(c.run, c.cursor, swept) /\ JobsTyped
      /\ Max(c.chunk) \in Nat /\ c.chunk \subseteq Id
      /\ \A x \in due[c.run] : x <= Max(c.chunk) => x <= c.cursor \/ x \in c.chunk
      /\ \A x \in c.chunk \cap Id : swept[c.run][x] > 0
  BY <1>0 DEF JobsInv, Sound, Save, Early, IsContainer, Containers
<1>2. PICK cursor \in Nat, processed \in Nat :
         cursor = Max(c.chunk) /\ processed = c.processed + Cardinality(c.chunk)
  BY <1>1, FS_CardinalityType DEF IsContainer, Containers
<1>3. PICK r \in DOMAIN run : r = c.run
  BY <1>1
<1> DEFINE d == [c EXCEPT !.at = "between", !.cursor = cursor, !.processed = processed]
           now == [run[r] EXCEPT !.cursor = cursor, !.processed = processed]
<1>4. inst' = [inst EXCEPT ![i] = d]
  BY <1>0, <1>2 DEF Save, JobsInv, JobsTyped
<1>5. run' = [run EXCEPT ![r] = now]
  BY <1>0, <1>2, <1>3, <1>1 DEF Save, JobsTyped
<1>6. /\ d.at = "between" /\ d.stopping = c.stopping /\ d.run = c.run /\ d.cursor = cursor
      /\ d.chunk = c.chunk /\ IsContainer(d)
  BY <1>1 DEF IsContainer, Containers, At
<1>7. now \in JobRuns /\ now.cursor = cursor /\ now.status = run[r].status
  <2>1. run[r] \in JobRuns
    BY <1>1 DEF JobsTyped
  <2> QED BY <2>1 DEF JobRuns
<1>8. SweptTo(r, cursor, swept)
  <2>1. due[r] \subseteq Id
    BY <1>1, <1>3 DEF JobsTyped, Runs, BoundAssumption
  <2> QED BY <1>1, <1>2, <1>3, <2>1 DEF SweptTo
<1> HIDE DEF d, now
<1>9. Sound(d, swept)
  BY <1>1, <1>3, <1>6, <1>8 DEF Sound, Early
<1>10. now.status = "succeeded" => \A x \in due[r] : swept[r][x] > 0
  BY <1>7 DEF JobsInv, RunSound
<1>11. UNCHANGED <<present, swept, due>>
  BY DEF Save
<1> QED BY <1>4, <1>5, <1>7, <1>8, <1>9, <1>10, <1>11, RunsWritten

\* A run left open is taken up where it stands.
LEMMA JobsResume ==
    ASSUME JobsInv, NEW i \in Instance, Resume(i)
    PROVE  JobsInv'
<1>0. PICK c : c = inst[i]
  OBVIOUS
<1>1. Sound(c, swept) /\ IsContainer(c) /\ c.at = "locked" /\ JobsTyped
  BY <1>0 DEF JobsInv, Sound, Resume
<1>2. PICK r \in OpenRuns : r = Max(OpenRuns)
  <2>1. PICK q : q \in OpenRuns
    BY DEF Resume
  <2>2. \A s \in OpenRuns : s = q
    BY <2>1 DEF JobsInv
  <2>3. q \in Nat
    BY <1>1, <2>1 DEF OpenRuns, JobsTyped
  <2>4. Max(OpenRuns) \in OpenRuns
    <3>1. \A y \in OpenRuns : q >= y
      BY <2>2, <2>3
    <3> QED BY <2>1, <3>1 DEF Max
  <2> QED BY <2>4
<1>3. /\ r \in DOMAIN run /\ r \in Nat /\ run[r] \in JobRuns /\ run[r].status = "running"
      /\ SweptTo(r, run[r].cursor, swept)
  BY <1>1, <1>2 DEF OpenRuns, JobsTyped, JobsInv, RunSound
<1>4. PICK cursor \in Nat, processed \in Nat, attempt \in Nat :
         cursor = run[r].cursor /\ processed = run[r].processed /\ attempt = run[r].attempt + 1
  BY <1>3 DEF JobRuns
<1> DEFINE d == [c EXCEPT !.at = "between", !.run = r, !.cursor = cursor, !.processed = processed]
           now == [run[r] EXCEPT !.attempt = attempt]
<1>5. inst' = [inst EXCEPT ![i] = d]
  BY <1>0, <1>1, <1>2, <1>4 DEF Resume, JobsTyped
<1>6. run' = [run EXCEPT ![r] = now]
  BY <1>1, <1>2, <1>3, <1>4 DEF Resume, JobsTyped
<1>7. d.at = "between" /\ d.run = r /\ d.cursor = cursor /\ IsContainer(d)
  BY <1>1, <1>3 DEF IsContainer, Containers, At
<1>8. now \in JobRuns /\ now.cursor = cursor /\ now.status = "running"
  BY <1>3, <1>4 DEF JobRuns
<1> HIDE DEF d, now
<1>9. Sound(d, swept)
  BY <1>3, <1>4, <1>7 DEF Sound, Early
<1>10. UNCHANGED <<present, swept, due>>
  BY DEF Resume
<1> QED BY <1>3, <1>4, <1>5, <1>6, <1>8, <1>9, <1>10, RunsWritten

\* A run of its own: only when none is open, owed every row on the table, and
\* begun before the first of them.
LEMMA JobsCreate ==
    ASSUME JobsInv, BoundAssumption, IdAssumption, NEW i \in Instance, Create(i)
    PROVE  JobsInv'
<1>0. PICK c : c = inst[i]
  OBVIOUS
<1>1. /\ Sound(c, swept) /\ IsContainer(c) /\ c.at = "locked" /\ JobsTyped /\ c.cursor = 0
      /\ OpenRuns = {} /\ Len(run) < MaxRuns /\ Len(run) \in Nat
  BY <1>0 DEF JobsInv, JobsTyped, Sound, Create, Early
<1>2. PICK r \in Runs : r = Len(run) + 1
  BY <1>1 DEF Runs, BoundAssumption
<1>3. PICK new : new = [status |-> "running", attempt |-> 1, cursor |-> 0, processed |-> 0]
  OBVIOUS
<1> DEFINE d == [c EXCEPT !.at = "between", !.run = r]
<1>4. inst' = [inst EXCEPT ![i] = d]
  BY <1>0, <1>1, <1>2 DEF Create, JobsTyped
<1>5. /\ run' = Append(run, new) /\ due' = [due EXCEPT ![r] = present]
      /\ UNCHANGED <<present, swept>>
  BY <1>2, <1>3 DEF Create
<1>6. d.at = "between" /\ d.run = r /\ d.cursor = 0 /\ IsContainer(d)
  <2>1. r \in Nat
    BY <1>1, <1>2
  <2> QED BY <1>1, <2>1 DEF IsContainer, Containers, At
<1> HIDE DEF d
<1>7. new \in JobRuns
  BY <1>3 DEF JobRuns
<1>8. /\ run' \in Seq(JobRuns) /\ Len(run') = r /\ run'[r] = new
      /\ DOMAIN run' = DOMAIN run \cup {r} /\ r \notin DOMAIN run
      /\ \A q \in DOMAIN run : run'[q] = run[q]
  BY <1>1, <1>2, <1>5, <1>7 DEF JobsTyped
<1>9. due' \in [Runs -> SUBSET Id] /\ due'[r] = present /\ \A q \in Runs \ {r} : due'[q] = due[q]
  BY <1>1, <1>5 DEF JobsTyped
<1>10. DOMAIN run \subseteq Runs \ {r}
  BY <1>1, <1>8 DEF JobsTyped, Runs, BoundAssumption
<1>11. Onwards
  BY <1>5, <1>8, <1>9, <1>10 DEF Onwards
<1>12. JobsTyped'
  <2>1. inst' = [j \in Instance |-> inst'[j]] /\ Len(run') <= MaxRuns
    <3>1. Len(run') <= MaxRuns
      BY <1>1, <1>2, <1>8 DEF BoundAssumption
    <3> QED BY <1>1, <1>4, <3>1 DEF JobsTyped
  <2> QED BY <1>1, <1>5, <1>8, <1>9, <2>1 DEF JobsTyped
<1>13. \A x \in present : ~(x <= 0)
  BY <1>1 DEF JobsTyped, IdAssumption
<1>14. Sound(d, swept)'
  BY <1>5, <1>6, <1>8, <1>9, <1>13 DEF Sound, SweptTo, Early
<1>15. ASSUME NEW q \in DOMAIN run' PROVE RunSound(q)'
  <2>1. CASE q = r
    BY <1>3, <1>5, <1>8, <1>9, <1>13, <2>1 DEF RunSound, SweptTo
  <2>2. CASE q # r
    <3>1. q \in DOMAIN run /\ due'[q] = due[q] /\ run'[q] = run[q]
      BY <1>8, <1>9, <1>10, <2>2
    <3> QED BY <1>5, <3>1 DEF JobsInv, RunSound, SweptTo
  <2> QED BY <2>1, <2>2
<1>16. (\A q, s \in OpenRuns : q = s)'
  BY <1>1, <1>8 DEF OpenRuns
<1> QED BY <1>4, <1>11, <1>12, <1>14, <1>15, <1>16, ContainerMoves

\* A run ends: succeeded only when nothing was left to read, and the
\* container was not told to stop.
LEMMA JobsEnd ==
    ASSUME JobsInv, NEW i \in Instance, Fail(i) \/ Finish(i)
    PROVE  JobsInv'
<1>0. PICK c : c = inst[i]
  OBVIOUS
<1>1. Sound(c, swept) /\ c.at \notin Early /\ JobsTyped /\ c.run \in DOMAIN run
  BY <1>0 DEF JobsInv, Sound, Fail, Finish, Early
<1>2. inst' = [inst EXCEPT ![i] = Off] /\ UNCHANGED <<present, swept, due>> /\ Sound(Off, swept)
  BY OffIsSound DEF Fail, Finish, Leaves
<1>3. CASE UNCHANGED run
  BY <1>2, <1>3, RunsStay
<1>4. ASSUME NEW status \in {"failed", "succeeded"}, Closes(i, status),
             status = "succeeded" => c.at = "finished" /\ ~c.stopping
      PROVE  JobsInv'
  <2>1. PICK r \in DOMAIN run : r = c.run
    BY <1>1
  <2> DEFINE now == [run[r] EXCEPT !.status = status]
  <2>2. run' = [run EXCEPT ![r] = now]
    BY <1>0, <1>4, <2>1 DEF Closes
  <2>3. now \in JobRuns /\ now.status = status /\ now.cursor = run[r].cursor
    <3>1. run[r] \in JobRuns
      BY <1>1 DEF JobsTyped
    <3> QED BY <3>1 DEF JobRuns
  <2> HIDE DEF now
  <2>4. status = "succeeded" => \A x \in due[r] : swept[r][x] > 0
    BY <1>1, <1>4, <2>1 DEF Sound
  <2>5. SweptTo(r, now.cursor, swept)
    BY <2>3 DEF JobsInv, RunSound
  <2> QED BY <1>2, <2>2, <2>3, <2>4, <2>5, RunsWritten
<1>5. CASE Fail(i)
  BY <1>4, <1>5 DEF Fail
<1>6. CASE Finish(i)
  BY <1>0, <1>3, <1>4, <1>6 DEF Finish
<1> QED BY <1>5, <1>6

\* The platform: a lock is given away, a row is added.
LEMMA JobsBeside ==
    ASSUME JobsInv,
           \/ UNCHANGED jobs \/ Notice \/ (\E i \in Instance : Sever(i)) \/ \E x \in Id : Insert(x)
    PROVE  JobsInv'
<1>1. UNCHANGED <<run, inst, swept, due>> /\ present \subseteq present' /\ present' \subseteq Id
  BY DEF jobs, Notice, Sever, Insert, JobsInv, JobsTyped
<1>2. JobsTyped' /\ (\A q, s \in OpenRuns : q = s)'
  BY <1>1 DEF JobsInv, JobsTyped, OpenRuns
<1>3. \A r \in DOMAIN run' : RunSound(r)'
  BY <1>1 DEF JobsInv, RunSound, SweptTo
<1>4. (\A i \in Instance : Sound(inst[i], swept))'
  BY <1>1 DEF JobsInv, Sound, SweptTo
<1> QED BY <1>2, <1>3, <1>4 DEF JobsInv

LEMMA JobsStart ==
    ASSUME JobsInit, BoundAssumption, IdAssumption
    PROVE  JobsInv
<1>1. run = <<>> /\ OpenRuns = {} /\ DOMAIN run = {} /\ Len(run) = 0 /\ run \in Seq(JobRuns)
  BY DEF JobsInit, OpenRuns
<1>2. JobsTyped
  BY <1>1 DEF JobsInit, JobsTyped, BoundAssumption, IdAssumption
<1>3. \A i \in Instance : Sound(inst[i], swept)
  BY OffIsSound DEF JobsInit
<1> QED BY <1>1, <1>2, <1>3 DEF JobsInv

LEMMA JobsStep ==
    ASSUME JobsInv, [JobsNext]_jobs, BoundAssumption, IdAssumption
    PROVE  JobsInv'
BY JobsQuiet, JobsReads, JobsWork, JobsSave, JobsResume, JobsCreate, JobsEnd, JobsBeside
   DEF JobsNext, Proceed

LEMMA JobsHold == JobsSpec => []JobsInv
<1>1. BoundAssumption /\ IdAssumption
  BY BoundAssumption, IdAssumption DEF BoundAssumption, IdAssumption
<1>2. JobsInit => JobsInv
  BY <1>1, JobsStart
<1>3. JobsInv /\ [JobsNext]_jobs => JobsInv'
  BY <1>1, JobsStep
<1> QED BY <1>2, <1>3, PTL DEF JobsSpec

\* For any number of containers, stops, deaths and lost sessions: a run left
\* open is resumed, never run beside another.
THEOREM OneAtATimeRuns == JobsSpec => []OneOpenRun
<1>1. JobsInv => OneOpenRun
  <2> SUFFICES ASSUME JobsInv PROVE Cardinality(OpenRuns) <= 1
    BY DEF OneOpenRun
  <2>1. CASE OpenRuns = {}
    BY <2>1, FS_EmptySet
  <2>2. CASE OpenRuns # {}
    <3>1. PICK r : r \in OpenRuns
      BY <2>2
    <3>2. OpenRuns = {r}
      BY <3>1 DEF JobsInv
    <3>3. Cardinality({r}) = 1
      BY FS_Singleton
    <3> QED BY <3>2, <3>3
  <2> QED BY <2>1, <2>2
<1> QED BY <1>1, JobsHold, PTL

\* And however the sweep is cut into chunks and interrupted, between a
\* chunk's work and its checkpoint too, no row that was there when a run
\* began is passed by its cursor, or left by its success, without being
\* worked.
THEOREM NobodySkipped == JobsSpec => []NothingMissed
<1>1. JobsInv => NothingMissed
  BY DEF JobsInv, RunSound, SweptTo, NothingMissed
<1> QED BY <1>1, JobsHold, PTL

-----------------------------------------------------------------------------
(* Statements to everyone                                                  *)

StatementsSpec == StatementsInit /\ [][StatementsNext]_statements

Places == {"off", "between", "send", "sent", "dealt", "through"}

StatementRuns == [status : {"queued", "sending", "done"}, due : SUBSET HolderId]
Sendings == [at : Places, run : Nat, last : Nat, chunk : SUBSET HolderId]

StatementsTyped ==
    /\ holds \subseteq HolderId
    /\ owner = [h \in HolderId |-> owner[h]]
    /\ statementRun \in Seq(StatementRuns)
    /\ sending \in Sendings
    /\ checkpoint \in [run : Nat, last : Nat]

\* Run r has dealt with its holders up to this id, but for the rest.
DealtTo(r, last, rest) ==
    \A h \in statementRun[r].due \cap holds : h <= last => <<r, h>> \in item \/ h \in rest

DealtWithAll(r) == \A h \in statementRun[r].due \cap holds : <<r, h>> \in item

\* No id is anybody's for the first time that a run was for: whoever held
\* under it then has been its owner since.
IdsTaken ==
    /\ \A h \in holds : owner[h] # Nobody
    /\ \A r \in DOMAIN statementRun : \A h \in statementRun[r].due : owner[h] # Nobody

\* What the job has in memory is of a run, up to its last id but for its chunk.
SendingSound ==
    sending.at # "off" =>
        /\ sending.run \in DOMAIN statementRun
        /\ DealtTo(sending.run, sending.last, sending.chunk)
        /\ sending.at \in {"between", "dealt", "through"} => sending.chunk = {}
        /\ sending.at = "through" => DealtWithAll(sending.run)

\* A checkpoint is of a run that is there, and all dealt with up to it.
CheckpointSound ==
    /\ checkpoint.run <= Len(statementRun)
    /\ checkpoint.run # 0 => DealtTo(checkpoint.run, checkpoint.last, {})

StatementsInv ==
    /\ StatementsTyped /\ IdsTaken /\ SendingSound /\ CheckpointSound
    /\ EveryHolderDealtWith

LEMMA RunIsOne ==
    ASSUME StatementsInv, NEW r \in DOMAIN statementRun
    PROVE  /\ r \in Nat /\ statementRun[r] \in StatementRuns /\ statementRun[r].due \subseteq HolderId
           /\ \A h \in statementRun[r].due : owner[h] # Nobody
<1>1. r \in Nat /\ statementRun[r] \in StatementRuns
  BY DEF StatementsInv, StatementsTyped
<1>2. statementRun[r].due \subseteq HolderId
  BY <1>1 DEF StatementRuns
<1> QED BY <1>1, <1>2 DEF StatementsInv, IdsTaken

LEMMA StatementsStart == ASSUME StatementsInit, HolderAssumption PROVE StatementsInv
<1>1. /\ statementRun = <<>> /\ DOMAIN statementRun = {} /\ Len(statementRun) = 0
      /\ sending.at = "off" /\ checkpoint.run = 0
  BY DEF StatementsInit, Asleep, NoCheckpoint
<1>2. StatementsTyped
  BY <1>1 DEF StatementsInit, StatementsTyped, Sendings, Asleep, NoCheckpoint, HolderAssumption, Places
<1>3. IdsTaken
  BY <1>1 DEF StatementsInit, IdsTaken, Nobody, HolderAssumption
<1> QED BY <1>1, <1>2, <1>3 DEF StatementsInv, SendingSound, CheckpointSound, EveryHolderDealtWith

\* The office opens, closes and converts: nobody comes to hold under an id a
\* run was for.
LEMMA HoldersMove ==
    ASSUME StatementsInv, HolderAssumption,
           \/ UNCHANGED statements
           \/ \E h \in HolderId : \/ OpenFirstAccount(h) \/ CloseLastAccount(h)
                                  \/ \E m \in HolderId : ConvertHolder(h, m)
    PROVE  StatementsInv'
<1>1. UNCHANGED <<statementRun, item, sending, checkpoint>>
  BY DEF statements, OpenFirstAccount, CloseLastAccount, ConvertHolder
<1>2. /\ holds \subseteq HolderId /\ owner = [h \in HolderId |-> owner[h]]
      /\ \A h \in holds : owner[h] # Nobody
  BY DEF StatementsInv, StatementsTyped, IdsTaken
<1> DEFINE Moved == /\ holds' \subseteq HolderId /\ owner' = [h \in HolderId |-> owner'[h]]
                    /\ \A h \in holds' : owner'[h] # Nobody
                    /\ \A h \in HolderId : owner[h] # Nobody =>
                          owner'[h] # Nobody /\ (h \in holds' => h \in holds)
<1>3. Moved
  <2>1. CASE UNCHANGED statements
    BY <1>2, <2>1 DEF statements
  <2>2. ASSUME NEW h \in HolderId, OpenFirstAccount(h) PROVE Moved
    BY <1>2, <2>2 DEF OpenFirstAccount, Nobody, HolderAssumption
  <2>3. ASSUME NEW h \in HolderId, CloseLastAccount(h) PROVE Moved
    BY <1>2, <2>3 DEF CloseLastAccount
  <2>4. ASSUME NEW h \in HolderId, NEW m \in HolderId, ConvertHolder(h, m) PROVE Moved
    BY <1>2, <2>4 DEF ConvertHolder
  <2> QED BY <2>1, <2>2, <2>3, <2>4
<1>4. \A r \in DOMAIN statementRun : /\ statementRun[r].due \subseteq HolderId
                                     /\ \A h \in statementRun[r].due : owner[h] # Nobody
  BY RunIsOne
<1> HIDE DEF Moved
<1>5. \A r \in DOMAIN statementRun : statementRun[r].due \cap holds' \subseteq statementRun[r].due \cap holds
  BY <1>3, <1>4 DEF Moved
<1>6. StatementsTyped' /\ IdsTaken'
  BY <1>1, <1>3, <1>4 DEF StatementsInv, StatementsTyped, IdsTaken, Moved, Nobody
<1>7. SendingSound'
  BY <1>1, <1>5 DEF StatementsInv, SendingSound, DealtTo, DealtWithAll
<1>8. CheckpointSound'
  <2>1. checkpoint.run # 0 => checkpoint.run \in DOMAIN statementRun
    BY DEF StatementsInv, CheckpointSound, StatementsTyped
  <2> QED BY <1>1, <1>5, <2>1 DEF StatementsInv, CheckpointSound, DealtTo
<1>9. EveryHolderDealtWith'
  BY <1>1, <1>5 DEF StatementsInv, EveryHolderDealtWith
<1> QED BY <1>6, <1>7, <1>8, <1>9 DEF StatementsInv

\* The job's step on its own memory and what it has dealt with: the runs and
\* their holders stay.
LEMMA SendingMoves ==
    ASSUME StatementsInv, UNCHANGED <<holds, owner, statementRun>>, item \subseteq item',
           sending' \in Sendings,
           SendingSound', checkpoint' \in {checkpoint, NoCheckpoint}
    PROVE  StatementsInv'
<1>1. StatementsTyped'
  BY DEF StatementsInv, StatementsTyped, NoCheckpoint
<1>4. IdsTaken'
  BY DEF StatementsInv, IdsTaken
<1>2. CheckpointSound'
  BY DEF StatementsInv, CheckpointSound, StatementsTyped, DealtTo, NoCheckpoint
<1>3. EveryHolderDealtWith'
  BY DEF StatementsInv, EveryHolderDealtWith
<1> QED BY <1>1, <1>2, <1>3, <1>4 DEF StatementsInv

\* The next holders are read: every one of the run's up to the last of them
\* is among them, or has been dealt with.
LEMMA HoldersRead ==
    ASSUME StatementsInv, HolderAssumption, ChunkAssumption, ReadHolders
    PROVE  StatementsInv'
<1>0. PICK s : s = sending
  OBVIOUS
<1>1. /\ s \in Sendings
      /\ s.at = "between" /\ s.run \in DOMAIN statementRun /\ s.run \in Nat /\ s.last \in Nat
      /\ DealtTo(s.run, s.last, {}) /\ statementRun[s.run].due \subseteq HolderId
  <2>1. s \in Sendings /\ s.at = "between"
    BY <1>0 DEF StatementsInv, StatementsTyped, ReadHolders
  <2>2. s.run \in DOMAIN statementRun /\ DealtTo(s.run, s.last, {})
    BY <1>0, <2>1 DEF StatementsInv, SendingSound
  <2>3. s.run \in Nat /\ s.last \in Nat
    BY <2>1 DEF Sendings
  <2> QED BY <2>1, <2>2, <2>3, RunIsOne
<1>2. UNCHANGED <<holds, owner, statementRun, item, checkpoint>>
  BY DEF ReadHolders
<1>3. PICK W : W = Waiting(s.run, s.last)
  OBVIOUS
<1>4. /\ W = {h \in holds : h > s.last /\ <<s.run, h>> \notin item}
      /\ W \subseteq HolderId /\ \A w \in W : w \in Nat
  BY <1>3 DEF Waiting, StatementsInv, StatementsTyped, HolderAssumption
<1>5. PICK chunk : chunk = NextHolders(s.run, s.last)
  OBVIOUS
<1>6. chunk = FirstOf(W, HoldersAChunk) /\ chunk \subseteq HolderId
  <2>1. \A x \in W : {o \in W : o < x} = Before(W, x)
    BY DEF Before
  <2> QED BY <1>3, <1>4, <1>5, <2>1 DEF NextHolders, FirstOf
<1>7. /\ W # {} => chunk # {}
      /\ chunk # {} => Max(chunk) \in chunk /\ \A x \in W : x <= Max(chunk) => x \in chunk
  <2>1. HoldersAChunk \in Nat \ {0}
    BY DEF ChunkAssumption
  <2> QED BY <1>4, <1>6, <2>1, ChunkOfFirst
<1>8. PICK last \in Nat : last = IF chunk = {} THEN s.last ELSE Max(chunk)
  BY <1>1, <1>6, <1>7 DEF HolderAssumption
<1>9. PICK at \in Places : at = IF chunk = {} THEN "through" ELSE "send"
  BY DEF Places
<1>10. sending' = [s EXCEPT !.at = at, !.chunk = chunk, !.last = last]
  BY <1>0, <1>5, <1>8, <1>9 DEF ReadHolders
<1>11. /\ sending' \in Sendings
       /\ sending'.at = at /\ sending'.run = s.run /\ sending'.last = last /\ sending'.chunk = chunk
  BY <1>1, <1>6, <1>10 DEF Sendings
<1>12. \A h \in statementRun[s.run].due \cap holds : h \in Nat /\ (h <= s.last \/ h \in W \/ <<s.run, h>> \in item)
  <2>1. \A h \in HolderId : h \in Nat
    BY DEF HolderAssumption
  <2>2. ASSUME NEW h \in statementRun[s.run].due, h \in holds PROVE h \in Nat
    BY <1>1, <2>1
  <2>3. ASSUME NEW h \in holds, h \in Nat, h \notin W, <<s.run, h>> \notin item PROVE h <= s.last
    BY <1>1, <1>4, <2>3
  <2> QED BY <2>2, <2>3
<1>13. DealtTo(s.run, last, chunk)
  <2>1. CASE chunk = {}
    BY <1>1, <1>8, <2>1 DEF DealtTo
  <2>2. CASE chunk # {}
    BY <1>1, <1>7, <1>8, <1>12, <2>2 DEF DealtTo
  <2> QED BY <2>1, <2>2
<1>14. chunk = {} => DealtWithAll(s.run)
  BY <1>1, <1>7, <1>12 DEF DealtTo, DealtWithAll
<1>15. SendingSound'
  <2>1. DealtTo(s.run, last, chunk)' /\ (chunk = {} => DealtWithAll(s.run)')
    BY <1>2, <1>13, <1>14 DEF DealtTo, DealtWithAll
  <2> QED BY <1>1, <1>2, <1>9, <1>11, <2>1 DEF SendingSound
<1> QED BY <1>2, <1>11, <1>15, SendingMoves

\* A run is asked for: for those who hold now; no other is open, and no
\* checkpoint is of it yet.
LEMMA RunAsked ==
    ASSUME StatementsInv, QueueStatementRun
    PROVE  StatementsInv'
<1>1. PICK new : new = [status |-> "queued", due |-> holds]
  OBVIOUS
<1>2. /\ statementRun \in Seq(StatementRuns) /\ new \in StatementRuns /\ new.due = holds /\ new.status = "queued"
  BY <1>1 DEF StatementsInv, StatementsTyped, StatementRuns
<1>3. /\ statementRun' = Append(statementRun, new)
      /\ UNCHANGED <<holds, owner, item, sending, checkpoint>>
  BY <1>1 DEF QueueStatementRun
<1>4. /\ statementRun' \in Seq(StatementRuns) /\ Len(statementRun') = Len(statementRun) + 1
      /\ \A r \in DOMAIN statementRun : r \in DOMAIN statementRun' /\ statementRun'[r] = statementRun[r]
      /\ \A r \in DOMAIN statementRun' : r \notin DOMAIN statementRun => statementRun'[r] = new
  BY <1>2, <1>3
<1>5. StatementsTyped'
  BY <1>3, <1>4 DEF StatementsInv, StatementsTyped
<1>6. IdsTaken'
  BY <1>2, <1>3, <1>4 DEF StatementsInv, IdsTaken, Nobody
<1>7. SendingSound'
  BY <1>3, <1>4 DEF StatementsInv, SendingSound, DealtTo, DealtWithAll
<1>8. CheckpointSound'
  <2>1. checkpoint.run \in Nat /\ checkpoint.run <= Len(statementRun) /\ Len(statementRun) \in Nat
    BY <1>2 DEF StatementsInv, CheckpointSound, StatementsTyped
  <2>2. checkpoint.run # 0 => checkpoint.run \in DOMAIN statementRun
    BY <1>2, <2>1
  <2>3. checkpoint.run <= Len(statementRun')
    BY <1>4, <2>1
  <2> QED BY <1>3, <1>4, <2>2, <2>3 DEF StatementsInv, CheckpointSound, DealtTo
<1>9. EveryHolderDealtWith'
  BY <1>2, <1>3, <1>4 DEF StatementsInv, EveryHolderDealtWith
<1> QED BY <1>5, <1>6, <1>7, <1>8, <1>9 DEF StatementsInv

\* A run's status is written: done only when everyone has been dealt with.
LEMMA StatusWritten ==
    ASSUME StatementsInv, NEW r \in DOMAIN statementRun, NEW status \in {"sending", "done"},
           statementRun' = [statementRun EXCEPT ![r].status = status],
           status = "done" => DealtWithAll(r),
           UNCHANGED <<holds, owner, item>>, sending' \in Sendings,
           /\ sending'.at # "off" =>
                 /\ sending'.run \in DOMAIN statementRun
                 /\ DealtTo(sending'.run, sending'.last, sending'.chunk)
                 /\ sending'.at = "between" /\ sending'.chunk = {},
           checkpoint' \in {checkpoint, NoCheckpoint}
    PROVE  StatementsInv'
<1>1. PICK now : now = [statementRun[r] EXCEPT !.status = status]
  OBVIOUS
<1>2. /\ now \in StatementRuns /\ now.due = statementRun[r].due /\ now.status = status
      /\ statementRun \in Seq(StatementRuns)
  BY <1>1, RunIsOne DEF StatementRuns, StatementsInv, StatementsTyped
<1>3. statementRun' = [statementRun EXCEPT ![r] = now]
  BY <1>1, <1>2
<1>4. /\ statementRun' \in Seq(StatementRuns) /\ DOMAIN statementRun' = DOMAIN statementRun
      /\ Len(statementRun') = Len(statementRun)
      /\ statementRun'[r] = now /\ \A q \in DOMAIN statementRun \ {r} : statementRun'[q] = statementRun[q]
  BY <1>2, <1>3
<1>5. \A q \in DOMAIN statementRun : statementRun'[q].due = statementRun[q].due
  BY <1>2, <1>4
<1>6. StatementsTyped'
  BY <1>4 DEF StatementsInv, StatementsTyped, NoCheckpoint
<1>7. IdsTaken'
  BY <1>4, <1>5 DEF StatementsInv, IdsTaken
<1>8. SendingSound'
  BY <1>4, <1>5 DEF SendingSound, DealtTo
<1>9. CheckpointSound'
  <2>1. CASE checkpoint' = NoCheckpoint
    BY <1>2, <1>4, <2>1 DEF CheckpointSound, NoCheckpoint
  <2>2. CASE checkpoint' = checkpoint
    <3>1. checkpoint.run \in Nat /\ checkpoint.run <= Len(statementRun)
      BY DEF StatementsInv, CheckpointSound, StatementsTyped
    <3>2. checkpoint.run # 0 => checkpoint.run \in DOMAIN statementRun
      BY <1>2, <3>1
    <3> QED BY <1>4, <1>5, <2>2, <3>1, <3>2 DEF StatementsInv, CheckpointSound, DealtTo
  <2> QED BY <2>1, <2>2
<1>10. EveryHolderDealtWith'
  BY <1>2, <1>4, <1>5 DEF StatementsInv, EveryHolderDealtWith, DealtWithAll
<1> QED BY <1>6, <1>7, <1>8, <1>9, <1>10 DEF StatementsInv

\* The job takes up a run, or is through with it.
LEMMA RunTaken ==
    ASSUME StatementsInv, StartSending \/ FinishStatements
    PROVE  StatementsInv'
<1>1. CASE StartSending
  <2>1. PICK r \in OpenStatements :
           /\ statementRun' = [statementRun EXCEPT ![r].status = "sending"]
           /\ sending' = [Asleep EXCEPT !.at = "between", !.run = r, !.last = Resumes(r)]
    BY <1>1 DEF StartSending
  <2>2. r \in DOMAIN statementRun /\ r \in Nat /\ r # 0
    BY RunIsOne DEF OpenStatements, StatementsInv, StatementsTyped
  <2>3. PICK last \in Nat : last = Resumes(r)
    BY DEF Resumes, StatementsInv, StatementsTyped
  <2>4. sending' = [at |-> "between", run |-> r, last |-> last, chunk |-> {}]
    BY <2>1, <2>3 DEF Asleep
  <2>5. sending' \in Sendings
    BY <2>2, <2>4 DEF Sendings, Places
  <2>6. DealtTo(r, last, {})
    <3>1. CASE checkpoint.run = r
      BY <2>2, <2>3, <3>1 DEF Resumes, StatementsInv, CheckpointSound
    <3>2. CASE checkpoint.run # r
      <4>1. \A h \in HolderId : h \in Nat /\ ~(h <= 0)
        BY HolderAssumption DEF HolderAssumption
      <4>2. statementRun[r].due \subseteq HolderId
        BY <2>2, RunIsOne
      <4> QED BY <2>3, <3>2, <4>1, <4>2 DEF Resumes, DealtTo
    <3> QED BY <3>1, <3>2
  <2>7. /\ sending'.at = "between" /\ sending'.run = r /\ sending'.last = last
        /\ sending'.chunk = {}
    BY <2>4
  <2>8. UNCHANGED <<holds, owner, item, checkpoint>>
    BY <1>1 DEF StartSending
  <2> QED BY <2>1, <2>2, <2>5, <2>6, <2>7, <2>8, StatusWritten
<1>2. CASE FinishStatements
  <2>1. PICK r : r = sending.run
    OBVIOUS
  <2>2. r \in DOMAIN statementRun /\ DealtWithAll(r)
    BY <1>2, <2>1 DEF FinishStatements, StatementsInv, SendingSound
  <2>3. /\ statementRun' = [statementRun EXCEPT ![r].status = "done"]
        /\ UNCHANGED <<holds, owner, item>> /\ checkpoint' \in {checkpoint, NoCheckpoint}
        /\ sending' = Asleep
    BY <1>2, <2>1 DEF FinishStatements
  <2>4. sending' \in Sendings /\ sending'.at = "off"
    BY <2>3 DEF Asleep, Sendings, Places
  <2> QED BY <2>2, <2>3, <2>4, StatusWritten
<1> QED BY <1>1, <1>2

\* A holder is sent their statement, and recorded as dealt with; the job
\* stops, or is interrupted: nothing it has dealt with is forgotten.
LEMMA HolderDealtWith ==
    ASSUME StatementsInv, SendStatement \/ RecordDealt \/ StopBetweenChunks \/ Interrupted
    PROVE  StatementsInv'
<1>1. PICK s : s = sending
  OBVIOUS
<1>2. s \in Sendings
  BY <1>1 DEF StatementsInv, StatementsTyped
<1>3. CASE SendStatement
  <2>1. sending' = [s EXCEPT !.at = "sent"] /\ s.at = "send"
        /\ UNCHANGED <<holds, owner, statementRun, item, checkpoint>>
    BY <1>1, <1>3 DEF SendStatement
  <2>2. /\ sending' \in Sendings /\ sending'.at = "sent" /\ sending'.run = s.run
        /\ sending'.last = s.last /\ sending'.chunk = s.chunk
    BY <1>2, <2>1 DEF Sendings, Places
  <2>3. SendingSound'
    BY <1>1, <2>1, <2>2 DEF StatementsInv, SendingSound, DealtTo
  <2> QED BY <2>1, <2>2, <2>3, SendingMoves
<1>4. CASE RecordDealt
  <2>1. PICK h : h = Min(s.chunk)
    OBVIOUS
  <2>2. PICK at \in Places : at = IF s.chunk = {h} THEN "dealt" ELSE "send"
    BY DEF Places
  <2>3. /\ sending' = [s EXCEPT !.chunk = s.chunk \ {h}, !.at = at] /\ s.at = "sent"
        /\ item' = item \cup {<<s.run, h>>}
        /\ UNCHANGED <<holds, owner, statementRun, checkpoint>>
    BY <1>1, <1>4, <2>1, <2>2 DEF RecordDealt
  <2>4. /\ sending' \in Sendings /\ sending'.at = at /\ sending'.run = s.run
        /\ sending'.last = s.last /\ sending'.chunk = s.chunk \ {h}
    BY <1>2, <2>3 DEF Sendings
  <2>5. s.run \in DOMAIN statementRun /\ DealtTo(s.run, s.last, s.chunk)
    BY <1>1, <2>3 DEF StatementsInv, SendingSound
  <2>6. DealtTo(s.run, s.last, s.chunk \ {h})'
    BY <2>3, <2>5 DEF DealtTo
  <2>7. SendingSound'
    BY <2>2, <2>3, <2>4, <2>5, <2>6 DEF SendingSound
  <2> QED BY <2>3, <2>4, <2>7, SendingMoves
<1>5. CASE StopBetweenChunks \/ Interrupted
  <2>1. /\ sending' = Asleep /\ checkpoint' \in {checkpoint, NoCheckpoint}
        /\ UNCHANGED <<holds, owner, statementRun, item>>
    BY <1>5 DEF StopBetweenChunks, Interrupted
  <2>2. sending' \in Sendings /\ SendingSound'
    BY <2>1 DEF Asleep, Sendings, Places, SendingSound
  <2> QED BY <2>1, <2>2, SendingMoves
<1> QED BY <1>3, <1>4, <1>5

\* The chunk is dealt with, and the checkpoint says so.
LEMMA CheckpointSaved ==
    ASSUME StatementsInv, SaveCheckpoint
    PROVE  StatementsInv'
<1>1. PICK s : s = sending
  OBVIOUS
<1>2. /\ s \in Sendings /\ s.at = "dealt" /\ s.chunk = {} /\ s.run \in DOMAIN statementRun
      /\ DealtTo(s.run, s.last, {}) /\ s.run \in Nat /\ s.last \in Nat
  <2>1. s \in Sendings /\ s.at = "dealt"
    BY <1>1 DEF StatementsInv, StatementsTyped, SaveCheckpoint
  <2>2. s.run \in Nat /\ s.last \in Nat
    BY <2>1 DEF Sendings
  <2>3. s.chunk = {} /\ s.run \in DOMAIN statementRun /\ DealtTo(s.run, s.last, s.chunk)
    BY <1>1, <2>1 DEF StatementsInv, SendingSound
  <2> QED BY <2>1, <2>2, <2>3
<1>3. /\ checkpoint' = [run |-> s.run, last |-> s.last] /\ sending' = [s EXCEPT !.at = "between"]
      /\ UNCHANGED <<holds, owner, statementRun, item>>
  BY <1>1 DEF SaveCheckpoint
<1>4. /\ sending' \in Sendings /\ sending'.at = "between" /\ sending'.run = s.run
      /\ sending'.last = s.last /\ sending'.chunk = {}
  BY <1>2, <1>3 DEF Sendings, Places
<1>5. DealtTo(s.run, s.last, {})'
  BY <1>2, <1>3 DEF DealtTo
<1>6. SendingSound'
  BY <1>2, <1>3, <1>4, <1>5 DEF SendingSound
<1>7. StatementsTyped'
  BY <1>2, <1>3, <1>4 DEF StatementsInv, StatementsTyped
<1>8. IdsTaken' /\ EveryHolderDealtWith'
  BY <1>3 DEF StatementsInv, IdsTaken, EveryHolderDealtWith
<1>9. CheckpointSound'
  <2>1. s.run <= Len(statementRun)
    BY <1>2 DEF StatementsInv, StatementsTyped
  <2> QED BY <1>2, <1>3, <1>5, <2>1 DEF CheckpointSound
<1> QED BY <1>6, <1>7, <1>8, <1>9 DEF StatementsInv

\* Whatever stopped, failed or died between a statement and its item, or a
\* chunk and its checkpoint, and whichever run the checkpoint was saved for:
\* a run that is done has dealt with every one of its holders who still is.
THEOREM NoHolderForgotten == StatementsSpec => []EveryHolderDealtWith
<1>1. HolderAssumption /\ ChunkAssumption
  BY HolderAssumption, ChunkAssumption DEF HolderAssumption, ChunkAssumption
<1>2. StatementsInit => StatementsInv
  BY <1>1, StatementsStart
<1>3. ASSUME StatementsInv, [StatementsNext]_statements PROVE StatementsInv'
  BY <1>1, <1>3, HoldersMove, HoldersRead, RunAsked, RunTaken, HolderDealtWith, CheckpointSaved
     DEF StatementsNext
<1>4. StatementsInv => EveryHolderDealtWith
  BY DEF StatementsInv
<1> QED BY <1>2, <1>3, <1>4, PTL DEF StatementsSpec
-----------------------------------------------------------------------------
(* Statements that go twice                                                *)

LastStatements == Len(statementRun)

\* Whose statements the last run has sent and recorded, or is about to record.
DealtFor(p) ==
    {h \in HolderId : owner[h] = p /\ \/ <<LastStatements, h>> \in item
                                      \/ sending.at = "sent" /\ h = Min(sending.chunk)}

\* Statements that went to each, beyond those: paid for by interruptions.
SpentOn(extra) ==
    /\ extra \in [HolderId -> Nat]
    /\ SumFunctionOnSet(extra, HolderId) <= interrupts
    /\ \A p \in HolderId : sends[p] <= Cardinality(DealtFor(p)) + extra[p]

SendsTyped ==
    /\ sends \in [HolderId -> Nat]
    /\ owner \in [HolderId -> HolderId \cup {Nobody}]
    /\ interrupts \in Nat

\* Only the last run is open, and it is the one being sent.
LastIsOpen ==
    /\ \A r \in DOMAIN statementRun : statementRun[r].status # "done" => r = LastStatements
    /\ sending.at # "off" => statementRun[sending.run].status # "done"

ItemsOfRuns == \A x \in item : x[1] \in DOMAIN statementRun /\ x[2] \in HolderId /\ owner[x[2]] # Nobody

\* What is in memory has not been dealt with, and is somebody's.
ChunkWaits ==
    sending.at # "off" =>
        /\ \A h \in sending.chunk : owner[h] # Nobody /\ <<sending.run, h>> \notin item
        /\ sending.at \in {"send", "sent"} => sending.chunk # {}

CostInv == SendsTyped /\ LastIsOpen /\ ItemsOfRuns /\ ChunkWaits /\ (\E extra : SpentOn(extra))

LEMMA LeastOfSome ==
    ASSUME HolderAssumption, NEW C, C \subseteq HolderId, C # {}
    PROVE  Min(C) \in C
<1>1. C \subseteq Nat
  BY DEF HolderAssumption
<1>2. PICK x \in C : \A y \in C : x <= y
  BY <1>1, LeastNumber
<1> QED BY <1>2 DEF Min

\* The run in memory is the last.
LEMMA SendingIsLast ==
    ASSUME StatementsInv, LastIsOpen, sending.at # "off"
    PROVE  /\ sending.run = LastStatements /\ sending.run \in DOMAIN statementRun
           /\ sending \in Sendings /\ sending.chunk \subseteq HolderId
<1>1. sending.run \in DOMAIN statementRun /\ sending \in Sendings
  BY DEF StatementsInv, SendingSound, StatementsTyped
<1> QED BY <1>1 DEF LastIsOpen, Sendings

\* A step that sends nothing, and after which no less is dealt with, costs nothing.
LEMMA NothingSpent ==
    ASSUME FiniteHolders, CostInv, SendsTyped', sends' = sends, interrupts' = interrupts,
           \A p \in HolderId : DealtFor(p) \subseteq DealtFor(p)'
    PROVE  (\E extra : SpentOn(extra))'
<1>1. PICK extra : SpentOn(extra)
  BY DEF CostInv
<1>2. ASSUME NEW p \in HolderId PROVE sends'[p] <= Cardinality(DealtFor(p)') + extra[p]
  <2>1. DealtFor(p)' \in SUBSET HolderId
    BY DEF DealtFor
  <2>2. IsFiniteSet(DealtFor(p)')
    BY <2>1, FS_Subset DEF FiniteHolders
  <2>3. /\ Cardinality(DealtFor(p)) <= Cardinality(DealtFor(p)') /\ IsFiniteSet(DealtFor(p))
    BY <2>2, FS_Subset
  <2>4. Cardinality(DealtFor(p)) \in Nat /\ Cardinality(DealtFor(p)') \in Nat
    BY <2>2, <2>3, FS_CardinalityType
  <2>5. sends[p] \in Nat /\ extra[p] \in Nat /\ sends[p] <= Cardinality(DealtFor(p)) + extra[p]
    BY <1>1 DEF SpentOn, CostInv, SendsTyped
  <2> QED BY <2>3, <2>4, <2>5
<1>3. SpentOn(extra)'
  BY <1>1, <1>2 DEF SpentOn
<1> QED BY <1>3

\* The office: an id taken is taken for good.
LEMMA OfficeCosts ==
    ASSUME HolderAssumption, FiniteHolders, StatementsInv, CostInv,
           \/ UNCHANGED statements
           \/ \E h \in HolderId : \/ OpenFirstAccount(h) \/ CloseLastAccount(h)
                                  \/ \E m \in HolderId : ConvertHolder(h, m)
    PROVE  CostInv'
<1>1. UNCHANGED <<statementRun, item, sending, sends, interrupts>>
  BY DEF statements, OpenFirstAccount, CloseLastAccount, ConvertHolder
<1>2. /\ owner' \in [HolderId -> HolderId \cup {Nobody}]
      /\ \A h \in HolderId : owner[h] # Nobody => owner'[h] = owner[h]
  <2>1. owner \in [HolderId -> HolderId \cup {Nobody}] /\ \A h \in holds : owner[h] # Nobody
    BY DEF CostInv, SendsTyped, StatementsInv, IdsTaken
  <2>2. CASE UNCHANGED statements
    BY <2>1, <2>2 DEF statements
  <2>3. ASSUME NEW h \in HolderId, OpenFirstAccount(h)
        PROVE  /\ owner' \in [HolderId -> HolderId \cup {Nobody}]
               /\ \A x \in HolderId : owner[x] # Nobody => owner'[x] = owner[x]
    BY <2>1, <2>3 DEF OpenFirstAccount
  <2>4. ASSUME NEW h \in HolderId, CloseLastAccount(h)
        PROVE  /\ owner' \in [HolderId -> HolderId \cup {Nobody}]
               /\ \A x \in HolderId : owner[x] # Nobody => owner'[x] = owner[x]
    BY <2>1, <2>4 DEF CloseLastAccount
  <2>5. ASSUME NEW h \in HolderId, NEW m \in HolderId, ConvertHolder(h, m)
        PROVE  /\ owner' \in [HolderId -> HolderId \cup {Nobody}]
               /\ \A x \in HolderId : owner[x] # Nobody => owner'[x] = owner[x]
    BY <2>1, <2>5 DEF ConvertHolder
  <2> QED BY <2>2, <2>3, <2>4, <2>5
<1>3. SendsTyped' /\ LastIsOpen'
  BY <1>1, <1>2 DEF CostInv, SendsTyped, LastIsOpen, LastStatements
<1>4. ItemsOfRuns'
  BY <1>1, <1>2 DEF CostInv, ItemsOfRuns
<1>5. ChunkWaits'
  <2>1. sending.at # "off" => sending.chunk \subseteq HolderId
    BY SendingIsLast DEF CostInv
  <2> QED BY <1>1, <1>2, <2>1 DEF CostInv, ChunkWaits
<1>6. ASSUME NEW p \in HolderId PROVE DealtFor(p) \subseteq DealtFor(p)'
  <2>1. p # Nobody
    BY DEF HolderAssumption, Nobody
  <2> QED BY <1>1, <1>2, <2>1 DEF DealtFor, LastStatements
<1>7. (\E extra : SpentOn(extra))'
  BY <1>1, <1>3, <1>6, NothingSpent
<1> QED BY <1>3, <1>4, <1>5, <1>7 DEF CostInv

\* A run is asked for: nothing of it has gone, and nothing is recorded.
LEMMA AskingCosts ==
    ASSUME FiniteHolders, StatementsInv, CostInv, QueueStatementRun
    PROVE  CostInv'
<1>1. PICK new : new = [status |-> "queued", due |-> holds]
  OBVIOUS
<1>2. /\ statementRun' = Append(statementRun, new) /\ statementRun \in Seq(StatementRuns) /\ new \in StatementRuns
      /\ OpenStatements = {} /\ sends' = NoneSent
      /\ UNCHANGED <<holds, owner, item, sending, checkpoint, interrupts>>
  BY <1>1 DEF QueueStatementRun, StatementsInv, StatementsTyped, StatementRuns
<1>3. /\ Len(statementRun) \in Nat /\ Len(statementRun') = Len(statementRun) + 1
      /\ DOMAIN statementRun = 1..Len(statementRun) /\ DOMAIN statementRun' = 1..(Len(statementRun) + 1)
      /\ \A r \in DOMAIN statementRun : statementRun'[r] = statementRun[r]
  BY <1>2
<1>4. \A r \in DOMAIN statementRun : statementRun[r].status = "done"
  BY <1>2 DEF OpenStatements
<1>5. sending.at = "off"
  BY <1>4, SendingIsLast DEF CostInv, LastIsOpen
<1>6. SendsTyped'
  BY <1>2 DEF CostInv, SendsTyped, NoneSent
<1>7. LastIsOpen'
  BY <1>2, <1>3, <1>4, <1>5 DEF LastIsOpen, LastStatements
<1>8. ItemsOfRuns' /\ ChunkWaits'
  BY <1>2, <1>3, <1>5 DEF CostInv, ItemsOfRuns, ChunkWaits
<1>9. (\E extra : SpentOn(extra))'
  <2> DEFINE extra == [p \in HolderId |-> 0]
  <2>1. SumFunctionOnSet(extra, HolderId) = 0
    BY SumOfZeros DEF FiniteHolders
  <2>2. ASSUME NEW p \in HolderId PROVE sends'[p] <= Cardinality(DealtFor(p)') + extra[p]
    <3>1. DealtFor(p)' \in SUBSET HolderId
      BY DEF DealtFor
    <3>2. Cardinality(DealtFor(p)') \in Nat
      BY <3>1, FS_Subset, FS_CardinalityType DEF FiniteHolders
    <3> QED BY <1>2, <3>2 DEF NoneSent
  <2>3. SpentOn(extra)'
    BY <1>6, <2>1, <2>2 DEF SpentOn, SendsTyped
  <2> QED BY <2>3
<1> QED BY <1>6, <1>7, <1>8, <1>9 DEF CostInv
\* The job takes up a run or is through with it, reads its next holders, saves
\* its checkpoint, or stops between chunks: nothing is sent.
LEMMA WorkingCosts ==
    ASSUME HolderAssumption, FiniteHolders, StatementsInv, CostInv,
           StartSending \/ ReadHolders \/ SaveCheckpoint \/ FinishStatements \/ StopBetweenChunks
    PROVE  CostInv'
<1>0. PICK s : s = sending
  OBVIOUS
<1>1. UNCHANGED <<holds, owner, item, sends, interrupts>> /\ s.at # "sent"
  BY <1>0 DEF StartSending, ReadHolders, SaveCheckpoint, FinishStatements, StopBetweenChunks
<1>2. /\ statementRun \in Seq(StatementRuns) /\ Len(statementRun) \in Nat
      /\ DOMAIN statementRun = 1..Len(statementRun) /\ s \in Sendings
  BY <1>0 DEF StatementsInv, StatementsTyped
<1>3. /\ \A r \in DOMAIN statementRun : statementRun[r].status # "done" => r = LastStatements
      /\ s.at # "off" => statementRun[s.run].status # "done" /\ s.run = LastStatements /\ s.run \in DOMAIN statementRun
  BY <1>0, SendingIsLast DEF CostInv, LastIsOpen
<1>4. /\ Len(statementRun') = Len(statementRun) /\ DOMAIN statementRun' = DOMAIN statementRun
      /\ LastIsOpen' /\ ChunkWaits' /\ sending'.at # "sent"
  <2>1. CASE StartSending
    <3>1. PICK r \in OpenStatements :
             /\ statementRun' = [statementRun EXCEPT ![r].status = "sending"]
             /\ sending' = [Asleep EXCEPT !.at = "between", !.run = r, !.last = Resumes(r)]
      BY <2>1 DEF StartSending
    <3>2. r \in DOMAIN statementRun /\ r = LastStatements
      BY <1>3 DEF OpenStatements
    <3>3. sending'.at = "between" /\ sending'.run = r /\ sending'.chunk = {}
      BY <3>1 DEF Asleep
    <3>4. /\ Len(statementRun') = Len(statementRun) /\ DOMAIN statementRun' = DOMAIN statementRun
          /\ statementRun'[r].status = "sending"
          /\ \A q \in DOMAIN statementRun : q # r => statementRun'[q] = statementRun[q]
      BY <1>2, <3>1, <3>2 DEF StatementRuns
    <3>5. LastIsOpen'
      BY <1>3, <3>2, <3>3, <3>4 DEF LastIsOpen, LastStatements
    <3> QED BY <3>3, <3>4, <3>5 DEF ChunkWaits
  <2>2. CASE ReadHolders
    <3>1. PICK chunk : chunk = NextHolders(s.run, s.last)
      OBVIOUS
    <3>2. PICK at \in Places : at = IF chunk = {} THEN "through" ELSE "send"
      BY DEF Places
    <3>3. PICK last : last = IF chunk = {} THEN s.last ELSE Max(chunk)
      OBVIOUS
    <3>4. sending' = [s EXCEPT !.at = at, !.chunk = chunk, !.last = last] /\ s.at = "between" /\ UNCHANGED statementRun
      BY <1>0, <2>2, <3>1, <3>2, <3>3 DEF ReadHolders
    <3>5. sending'.at = at /\ sending'.run = s.run /\ sending'.chunk = chunk /\ sending'.at # "sent"
      BY <1>2, <3>2, <3>4 DEF Sendings
    <3>6. \A h \in chunk : owner[h] # Nobody /\ <<s.run, h>> \notin item
      BY <3>1 DEF NextHolders, Waiting, StatementsInv, IdsTaken
    <3>7. ChunkWaits'
      BY <1>1, <3>2, <3>5, <3>6 DEF ChunkWaits
    <3>8. LastIsOpen'
      BY <1>3, <3>4, <3>5 DEF LastIsOpen, LastStatements
    <3> QED BY <3>4, <3>5, <3>7, <3>8
  <2>3. CASE SaveCheckpoint
    <3>1. sending' = [s EXCEPT !.at = "between"] /\ s.at = "dealt" /\ UNCHANGED statementRun
      BY <1>0, <2>3 DEF SaveCheckpoint
    <3>2. sending'.at = "between" /\ sending'.run = s.run /\ sending'.chunk = s.chunk
      BY <1>2, <3>1 DEF Sendings
    <3>3. ChunkWaits'
      BY <1>0, <1>1, <3>1, <3>2 DEF ChunkWaits, CostInv
    <3>4. LastIsOpen'
      BY <1>3, <3>1, <3>2 DEF LastIsOpen, LastStatements
    <3> QED BY <3>1, <3>2, <3>3, <3>4
  <2>4. CASE FinishStatements
    <3>1. /\ statementRun' = [statementRun EXCEPT ![s.run].status = "done"]
          /\ s.at = "through" /\ sending'.at = "off"
      BY <1>0, <2>4 DEF FinishStatements, Asleep
    <3>2. /\ Len(statementRun') = Len(statementRun) /\ DOMAIN statementRun' = DOMAIN statementRun
          /\ statementRun'[s.run].status = "done"
          /\ \A q \in DOMAIN statementRun : q # s.run => statementRun'[q] = statementRun[q]
      BY <1>2, <1>3, <3>1 DEF StatementRuns
    <3> QED BY <1>3, <3>1, <3>2 DEF LastIsOpen, LastStatements, ChunkWaits
  <2>5. CASE StopBetweenChunks
    <3>1. sending'.at = "off" /\ UNCHANGED statementRun
      BY <2>5 DEF StopBetweenChunks, Asleep
    <3> QED BY <1>3, <3>1 DEF LastIsOpen, LastStatements, ChunkWaits
  <2> QED BY <2>1, <2>2, <2>3, <2>4, <2>5
<1>5. SendsTyped' /\ ItemsOfRuns'
  BY <1>1, <1>4 DEF CostInv, SendsTyped, ItemsOfRuns
<1>6. \A p \in HolderId : DealtFor(p) \subseteq DealtFor(p)'
  BY <1>0, <1>1, <1>4 DEF DealtFor, LastStatements
<1>7. (\E extra : SpentOn(extra))'
  BY <1>1, <1>5, <1>6, NothingSpent
<1> QED BY <1>4, <1>5, <1>7 DEF CostInv

\* A statement goes, to one whose id had not been dealt with.
LEMMA SendingCosts ==
    ASSUME HolderAssumption, FiniteHolders, StatementsInv, CostInv, SendStatement
    PROVE  CostInv'
<1>0. PICK s : s = sending
  OBVIOUS
<1>1. /\ sending' = [s EXCEPT !.at = "sent"] /\ s.at = "send"
      /\ UNCHANGED <<holds, owner, statementRun, item, checkpoint, interrupts>>
  BY <1>0 DEF SendStatement
<1>2. /\ s \in Sendings /\ s.run = LastStatements /\ s.run \in DOMAIN statementRun /\ s.chunk \subseteq HolderId
      /\ s.chunk # {} /\ \A h \in s.chunk : owner[h] # Nobody /\ <<s.run, h>> \notin item
  BY <1>0, <1>1, SendingIsLast DEF CostInv, ChunkWaits
<1>3. sending'.at = "sent" /\ sending'.run = s.run /\ sending'.chunk = s.chunk
  BY <1>1, <1>2 DEF Sendings
<1>4. LastIsOpen' /\ ItemsOfRuns' /\ ChunkWaits'
  <2>1. LastIsOpen'
    BY <1>0, <1>1, <1>3 DEF CostInv, LastIsOpen, LastStatements
  <2>2. ItemsOfRuns'
    BY <1>1 DEF CostInv, ItemsOfRuns
  <2> QED BY <1>1, <1>2, <1>3, <2>1, <2>2 DEF ChunkWaits
<1>5. PICK h \in HolderId : h = Min(s.chunk) /\ h \in s.chunk
  BY <1>2, LeastOfSome
<1>6. /\ sends \in [HolderId -> Nat] /\ owner[h] \in HolderId
      /\ owner \in [HolderId -> HolderId \cup {Nobody}]
  BY <1>2, <1>5 DEF CostInv, SendsTyped
<1>7. \A p \in HolderId : DealtFor(p)' = DealtFor(p) \cup (IF p = owner[h] THEN {h} ELSE {})
  BY <1>0, <1>1, <1>2, <1>3, <1>5 DEF DealtFor, LastStatements
<1>8. CASE sends' = sends
  <2>1. SendsTyped'
    BY <1>1, <1>8 DEF CostInv, SendsTyped
  <2>2. \A p \in HolderId : DealtFor(p) \subseteq DealtFor(p)'
    BY <1>7
  <2>3. (\E extra : SpentOn(extra))'
    BY <1>1, <1>8, <2>1, <2>2, NothingSpent
  <2> QED BY <1>4, <2>1, <2>3 DEF CostInv
<1>9. CASE sends' = [sends EXCEPT ![owner[h]] = @ + 1]
  <2>1. SendsTyped'
    BY <1>1, <1>6, <1>9 DEF CostInv, SendsTyped
  <2>2. PICK extra : SpentOn(extra)
    BY DEF CostInv
  <2>3. ASSUME NEW p \in HolderId PROVE sends'[p] <= Cardinality(DealtFor(p)') + extra[p]
    <3>1. DealtFor(p) \in SUBSET HolderId
      BY DEF DealtFor
    <3>2. IsFiniteSet(DealtFor(p)) /\ Cardinality(DealtFor(p)) \in Nat
      BY <3>1, FS_Subset, FS_CardinalityType DEF FiniteHolders
    <3>3. sends[p] <= Cardinality(DealtFor(p)) + extra[p] /\ extra[p] \in Nat /\ sends[p] \in Nat
      BY <1>6, <2>2 DEF SpentOn
    <3>4. CASE p = owner[h]
      <4>1. h \notin DealtFor(p)
        BY <1>0, <1>1, <1>2, <1>5 DEF DealtFor
      <4>2. DealtFor(p)' = DealtFor(p) \cup {h}
        BY <1>7, <3>4
      <4>3. Cardinality(DealtFor(p) \cup {h}) = Cardinality(DealtFor(p)) + 1
        BY <3>2, <4>1, FS_AddElement
      <4>4. sends'[p] = sends[p] + 1
        BY <1>6, <1>9, <3>4
      <4>5. Cardinality(DealtFor(p)') = Cardinality(DealtFor(p)) + 1
        BY <4>2, <4>3
      <4> QED BY <3>2, <3>3, <4>4, <4>5
    <3>5. CASE p # owner[h]
      <4>1. DealtFor(p)' = DealtFor(p) /\ sends'[p] = sends[p]
        BY <1>6, <1>7, <1>9, <3>5
      <4> QED BY <3>3, <4>1
    <3> QED BY <3>4, <3>5
  <2>4. SpentOn(extra)'
    BY <1>1, <2>2, <2>3 DEF SpentOn
  <2> QED BY <1>4, <2>1, <2>4 DEF CostInv
<1>10. sends' = sends \/ sends' = [sends EXCEPT ![owner[h]] = @ + 1]
  BY <1>0, <1>5 DEF SendStatement
<1> QED BY <1>8, <1>9, <1>10

\* It is recorded.
LEMMA RecordingCosts ==
    ASSUME HolderAssumption, FiniteHolders, StatementsInv, CostInv, RecordDealt
    PROVE  CostInv'
<1>0. PICK s : s = sending
  OBVIOUS
<1>1. PICK h : h = Min(s.chunk)
  OBVIOUS
<1>2. PICK at \in Places : at = IF s.chunk = {h} THEN "dealt" ELSE "send"
  BY DEF Places
<1>3. /\ sending' = [s EXCEPT !.chunk = s.chunk \ {h}, !.at = at] /\ s.at = "sent"
      /\ item' = item \cup {<<s.run, h>>}
      /\ UNCHANGED <<holds, owner, statementRun, sends, checkpoint, interrupts>>
  BY <1>0, <1>1, <1>2 DEF RecordDealt
<1>4. /\ s \in Sendings /\ s.run = LastStatements /\ s.run \in DOMAIN statementRun /\ s.chunk \subseteq HolderId
      /\ s.chunk # {} /\ \A x \in s.chunk : owner[x] # Nobody /\ <<s.run, x>> \notin item
  BY <1>0, <1>3, SendingIsLast DEF CostInv, ChunkWaits
<1>5. sending'.at = at /\ sending'.run = s.run /\ sending'.chunk = s.chunk \ {h} /\ at # "sent"
  BY <1>2, <1>3, <1>4 DEF Sendings
<1>6. h \in s.chunk /\ h \in HolderId
  BY <1>1, <1>4, LeastOfSome
<1>7. SendsTyped'
  BY <1>3 DEF CostInv, SendsTyped
<1>8. LastIsOpen'
  BY <1>0, <1>3, <1>5 DEF CostInv, LastIsOpen, LastStatements
<1>9. ItemsOfRuns'
  BY <1>3, <1>4, <1>6 DEF CostInv, ItemsOfRuns
<1>10. ChunkWaits'
  <2>1. at = "send" => s.chunk \ {h} # {}
    BY <1>2, <1>6
  <2>2. \A x \in s.chunk \ {h} : owner[x] # Nobody /\ <<s.run, x>> \notin item'
    BY <1>3, <1>4
  <2> QED BY <1>3, <1>5, <2>1, <2>2 DEF ChunkWaits
<1>11. \A p \in HolderId : DealtFor(p) \subseteq DealtFor(p)'
  BY <1>0, <1>1, <1>3, <1>4 DEF DealtFor, LastStatements
<1>12. (\E extra : SpentOn(extra))'
  BY <1>3, <1>7, <1>11, NothingSpent
<1> QED BY <1>7, <1>8, <1>9, <1>10, <1>12 DEF CostInv

\* The container dies or a statement fails: the one just sent, if it was not
\* recorded, will go again.
LEMMA InterruptionCosts ==
    ASSUME HolderAssumption, FiniteHolders, StatementsInv, CostInv, Interrupted
    PROVE  CostInv'
<1>0. PICK s : s = sending
  OBVIOUS
<1>1. /\ sending' = Asleep /\ s.at # "off" /\ interrupts' = interrupts + 1
      /\ UNCHANGED <<holds, owner, statementRun, item, sends>>
  BY <1>0 DEF Interrupted
<1>2. sending'.at = "off"
  BY <1>1 DEF Asleep
<1>3. SendsTyped' /\ LastIsOpen' /\ ItemsOfRuns' /\ ChunkWaits'
  BY <1>1, <1>2 DEF CostInv, SendsTyped, LastIsOpen, LastStatements, ItemsOfRuns, ChunkWaits
<1>4. PICK extra : SpentOn(extra)
  BY DEF CostInv
<1>5. extra \in [HolderId -> Nat] /\ extra \in [HolderId -> Int] /\ interrupts \in Nat
  BY <1>4 DEF SpentOn, CostInv, SendsTyped
<1>6. SumFunctionOnSet(extra, HolderId) \in Int
  <2>1. \A p \in HolderId : extra[p] \in Int
    BY <1>5
  <2> QED BY <2>1, SumTyped DEF FiniteHolders
<1>7. \A p \in HolderId : /\ IsFiniteSet(DealtFor(p)) /\ Cardinality(DealtFor(p)) \in Nat
                          /\ IsFiniteSet(DealtFor(p)') /\ Cardinality(DealtFor(p)') \in Nat
  <2> SUFFICES ASSUME NEW p \in HolderId
               PROVE  /\ IsFiniteSet(DealtFor(p)) /\ Cardinality(DealtFor(p)) \in Nat
                      /\ IsFiniteSet(DealtFor(p)') /\ Cardinality(DealtFor(p)') \in Nat
    OBVIOUS
  <2>1. DealtFor(p) \in SUBSET HolderId /\ DealtFor(p)' \in SUBSET HolderId
    BY DEF DealtFor
  <2> QED BY <2>1, FS_Subset, FS_CardinalityType DEF FiniteHolders
<1>8. CASE s.at = "sent"
  <2>1. PICK h : h = Min(s.chunk)
    OBVIOUS
  <2>2. h \in HolderId /\ owner[h] \in HolderId
    <3>1. s.chunk # {} /\ s.chunk \subseteq HolderId /\ \A x \in s.chunk : owner[x] # Nobody
      BY <1>0, <1>8, SendingIsLast DEF CostInv, ChunkWaits
    <3>2. h \in s.chunk
      BY <2>1, <3>1, LeastOfSome
    <3> QED BY <3>1, <3>2 DEF CostInv, SendsTyped
  <2>9. PICK q : q = owner[h]
    OBVIOUS
  <2>10. q \in HolderId
    BY <2>2, <2>9
  <2>11. PICK more : more = [extra EXCEPT ![q] = @ + 1]
    OBVIOUS
  <2>3. SumFunctionOnSet(more, HolderId) = SumFunctionOnSet(extra, HolderId) + 1
    BY <1>5, <2>10, <2>11, SumOneMore DEF FiniteHolders
  <2>4. /\ more \in [HolderId -> Nat]
        /\ \A p \in HolderId : more[p] = IF p = owner[h] THEN extra[p] + 1 ELSE extra[p]
    BY <1>5, <2>9, <2>10, <2>11
  <2>5. ASSUME NEW p \in HolderId PROVE sends'[p] <= Cardinality(DealtFor(p)') + more[p]
    <3>1. sends[p] \in Nat /\ extra[p] \in Nat /\ sends[p] <= Cardinality(DealtFor(p)) + extra[p]
      BY <1>4 DEF SpentOn, CostInv, SendsTyped
    <3>2. CASE p = owner[h]
      <4>1. DealtFor(p) \subseteq DealtFor(p)' \cup {h}
        BY <1>0, <1>1, <2>1 DEF DealtFor, LastStatements
      <4>2. /\ IsFiniteSet(DealtFor(p)' \cup {h})
            /\ Cardinality(DealtFor(p)' \cup {h}) \in Nat
            /\ Cardinality(DealtFor(p)' \cup {h}) <= Cardinality(DealtFor(p)') + 1
        <5>1. PICK D : D = DealtFor(p)'
          OBVIOUS
        <5>2. IsFiniteSet(D) /\ Cardinality(D) \in Nat
          BY <1>7, <5>1
        <5>3. IsFiniteSet(D \cup {h}) /\ Cardinality(D \cup {h}) = IF h \in D THEN Cardinality(D) ELSE Cardinality(D) + 1
          BY <5>2, FS_AddElement
        <5> QED BY <5>1, <5>2, <5>3
      <4>3. Cardinality(DealtFor(p)) <= Cardinality(DealtFor(p)' \cup {h})
        BY <4>1, <4>2, FS_Subset
      <4> QED BY <1>1, <1>7, <2>4, <3>1, <3>2, <4>2, <4>3
    <3>3. CASE p # owner[h]
      <4>1. DealtFor(p) \subseteq DealtFor(p)'
        BY <1>0, <1>1, <2>1, <3>3 DEF DealtFor, LastStatements
      <4>2. Cardinality(DealtFor(p)) <= Cardinality(DealtFor(p)')
        BY <1>7, <4>1, FS_Subset
      <4> QED BY <1>1, <1>7, <2>4, <3>1, <3>3, <4>2
    <3> QED BY <3>2, <3>3
  <2>6. SumFunctionOnSet(more, HolderId) <= interrupts'
    BY <1>1, <1>4, <1>5, <1>6, <2>3 DEF SpentOn
  <2>7. SpentOn(more)'
    BY <2>4, <2>5, <2>6 DEF SpentOn
  <2> QED BY <1>3, <2>7 DEF CostInv
<1>9. CASE s.at # "sent"
  <2>1. ASSUME NEW p \in HolderId PROVE sends'[p] <= Cardinality(DealtFor(p)') + extra[p]
    <3>1. sends[p] \in Nat /\ extra[p] \in Nat /\ sends[p] <= Cardinality(DealtFor(p)) + extra[p]
      BY <1>4 DEF SpentOn, CostInv, SendsTyped
    <3>2. DealtFor(p) \subseteq DealtFor(p)'
      BY <1>0, <1>1, <1>9 DEF DealtFor, LastStatements
    <3>3. Cardinality(DealtFor(p)) <= Cardinality(DealtFor(p)')
      BY <1>7, <3>2, FS_Subset
    <3> QED BY <1>1, <1>7, <3>1, <3>3
  <2>2. SumFunctionOnSet(extra, HolderId) <= interrupts'
    BY <1>1, <1>4, <1>5, <1>6 DEF SpentOn
  <2>3. SpentOn(extra)'
    BY <1>5, <2>1, <2>2 DEF SpentOn
  <2> QED BY <1>3, <2>3 DEF CostInv
<1> QED BY <1>8, <1>9

LEMMA NothingSentYet == ASSUME FiniteHolders, StatementsInit PROVE CostInv
<1>1. statementRun = <<>> /\ DOMAIN statementRun = {} /\ sending.at = "off" /\ item = {} /\ interrupts = 0
  BY DEF StatementsInit, Asleep
<1>2. SendsTyped
  BY <1>1 DEF StatementsInit, SendsTyped, NoneSent
<1>3. LastIsOpen /\ ItemsOfRuns /\ ChunkWaits
  BY <1>1 DEF LastIsOpen, ItemsOfRuns, ChunkWaits
<1> DEFINE extra == [p \in HolderId |-> 0]
<1>4. SumFunctionOnSet(extra, HolderId) = 0
  BY SumOfZeros DEF FiniteHolders
<1>5. ASSUME NEW p \in HolderId PROVE sends[p] <= Cardinality(DealtFor(p)) + extra[p]
  <2>1. DealtFor(p) \in SUBSET HolderId
    BY DEF DealtFor
  <2>2. Cardinality(DealtFor(p)) \in Nat
    BY <2>1, FS_Subset, FS_CardinalityType DEF FiniteHolders
  <2> QED BY <2>2 DEF StatementsInit, NoneSent
<1>6. SpentOn(extra)
  BY <1>1, <1>4, <1>5 DEF SpentOn
<1> QED BY <1>2, <1>3, <1>6 DEF CostInv

\* What was sent more than once was paid for.
LEMMA RepeatsSpent ==
    ASSUME FiniteHolders, CostInv
    PROVE  RepeatsCostOne
<1>1. PICK extra : SpentOn(extra)
  BY DEF CostInv
<1> DEFINE f == [p \in HolderId |-> Repeated(p)]
           Sums(g) == g = [s \in SUBSET HolderId |-> IF s = {} THEN 0 ELSE Repeated(OneOf(s)) + g[WithoutOne(s)]]
           k == CHOOSE g : Sums(g)
<1>2. MapThenSumSet(Repeated, HolderId) = k[HolderId]
  BY DEF MapThenSumSet, MapThenFoldSet, OneOf, WithoutOne
<1>3. ASSUME NEW g PROVE Sums(g) <=> SumsOn(g, f, SUBSET HolderId)
  <2>1. ASSUME NEW s \in SUBSET HolderId
        PROVE  (IF s = {} THEN 0 ELSE Repeated(OneOf(s)) + g[WithoutOne(s)]) = PartSum(g, f, s)
    <3>1. CASE s = {}
      BY <3>1 DEF PartSum
    <3>2. CASE s # {}
      <4>1. OneOf(s) \in HolderId
        BY <3>2, OneOfIsIn
      <4>2. f[OneOf(s)] = Repeated(OneOf(s))
        BY <4>1
      <4> HIDE DEF f
      <4> QED BY <3>2, <4>2 DEF PartSum
    <3> QED BY <3>1, <3>2
  <2> HIDE DEF f
  <2>2. [s \in SUBSET HolderId |-> IF s = {} THEN 0 ELSE Repeated(OneOf(s)) + g[WithoutOne(s)]]
            = [s \in SUBSET HolderId |-> PartSum(g, f, s)]
    BY <2>1
  <2> QED BY <2>2 DEF SumsOn
<1>4. SumsOn(k, f, SUBSET HolderId)
  <2> HIDE DEF f
  <2>1. \E g : SumsOn(g, f, SUBSET HolderId)
    BY SumsExist DEF FiniteHolders
  <2>2. \E g : Sums(g)
    BY <1>3, <2>1
  <2>3. Sums(k)
    <3> HIDE DEF Sums
    <3> QED BY <2>2
  <2> QED BY <1>3, <2>3
<1> HIDE DEF f, Sums, k
<1>5. SumFunctionOnSet(f, HolderId) = k[HolderId]
  BY <1>4, SumIsAny DEF FiniteHolders
<1>6. ASSUME NEW p \in HolderId PROVE f[p] \in Int /\ extra[p] \in Int /\ f[p] <= extra[p]
  <2> DEFINE Ids == {h \in HolderId : owner[h] = p}
  <2>1. DealtFor(p) \subseteq Ids /\ Ids \in SUBSET HolderId
    BY DEF DealtFor
  <2>2. IsFiniteSet(Ids) /\ Cardinality(Ids) \in Nat
    BY <2>1, FS_Subset, FS_CardinalityType DEF FiniteHolders
  <2>3. Cardinality(DealtFor(p)) <= Cardinality(Ids) /\ Cardinality(DealtFor(p)) \in Nat
    BY <2>1, <2>2, FS_Subset, FS_CardinalityType
  <2>4. sends[p] \in Nat /\ extra[p] \in Nat /\ sends[p] <= Cardinality(DealtFor(p)) + extra[p]
    BY <1>1 DEF SpentOn, CostInv, SendsTyped
  <2>5. f[p] = IF sends[p] > Cardinality(Ids) THEN sends[p] - Cardinality(Ids) ELSE 0
    BY DEF f, Repeated
  <2> HIDE DEF Ids
  <2> QED BY <2>2, <2>3, <2>4, <2>5
<1>7. SumFunctionOnSet(f, HolderId) <= SumFunctionOnSet(extra, HolderId)
  BY <1>6, SumMonotone DEF FiniteHolders
<1>8. SumFunctionOnSet(f, HolderId) \in Int /\ SumFunctionOnSet(extra, HolderId) \in Int
  BY <1>6, SumTyped DEF FiniteHolders
<1>9. SumFunctionOnSet(extra, HolderId) <= interrupts /\ interrupts \in Nat
  BY <1>1 DEF SpentOn, CostInv, SendsTyped
<1> QED BY <1>2, <1>5, <1>7, <1>8, <1>9 DEF RepeatsCostOne

\* A statement goes again only for an interruption, one person's each: however
\* the checkpoint is lost, whoever opens, closes or converts meanwhile.
THEOREM AnInterruptionCostsOne == StatementsSpec => []RepeatsCostOne
<1>1. HolderAssumption /\ ChunkAssumption /\ FiniteHolders
  BY HolderAssumption, ChunkAssumption, FiniteHolders DEF HolderAssumption, ChunkAssumption, FiniteHolders
<1>2. StatementsInit => StatementsInv /\ CostInv
  BY <1>1, StatementsStart, NothingSentYet
<1>3. ASSUME StatementsInv, [StatementsNext]_statements PROVE StatementsInv'
  BY <1>1, <1>3, HoldersMove, HoldersRead, RunAsked, RunTaken, HolderDealtWith, CheckpointSaved
     DEF StatementsNext
<1>4. ASSUME StatementsInv, CostInv, [StatementsNext]_statements PROVE CostInv'
  BY <1>1, <1>4, OfficeCosts, AskingCosts, WorkingCosts, SendingCosts, RecordingCosts, InterruptionCosts
     DEF StatementsNext
<1>5. CostInv => RepeatsCostOne
  BY <1>1, RepeatsSpent
<1> QED BY <1>2, <1>3, <1>4, <1>5, PTL DEF StatementsSpec

-----------------------------------------------------------------------------
(* Retention: the files of a refused application go before its rows do     *)

RetentionSpec == RetentionInit /\ [][RetentionNext /\ NoneDeletedMeanwhile]_retention

\* What a pass holds, where it stands.
Records == [does : {"discard", "erase"}, class : {"refused", "former"}, todo : SUBSET Holder, of : Holder,
            left : SUBSET Dossier, at : Holder, scans : SUBSET Scan, read : BOOLEAN, periods : SUBSET Class]
Idles == {NoPass} \cup [does : {"notifications"}, periods : SUBSET Class]
Lists == [does : {"refused", "former"}, todo : SUBSET Holder, periods : SUBSET Class]
         \cup [does : {"drafts"}, todo : SUBSET Dossier, periods : SUBSET Class]

Dossiers == [status : {"draft", "new", "rejected", "approved"}, due : BOOLEAN, disposed : BOOLEAN,
             folder : Dossier, of : SUBSET Person]

RetentionTyped ==
    /\ rows \in [Holder -> SUBSET Scan]
    /\ drive = [s \in Scan |-> drive[s]]
    /\ dossier \in [Dossier -> Dossiers \cup {NotStarted}]
    /\ \A d \in Dossier : ~Started(d) => rows[d] = {}
    /\ period \subseteq Class
    /\ pass \in Records \cup Idles \cup Lists

\* A refused application, or one reopened since: nothing is filed in it, and
\* it is no draft to delete.
Past(d) == d \in Dossier /\ Started(d) /\ dossier[d].status \in {"new", "rejected"}

\* A scan that would be nobody's without the rows of h is to go first, or gone.
GoesFirst(h, first) ==
    \A s \in rows[h] : \/ \E o \in Holder \ {h} : s \in rows[o]
                       \/ s \in first
                       \/ drive[s] = Nowhere

RefusedTaken ==
    pass \in Records /\ pass.class = "refused" =>
        /\ \A d \in pass.todo \cup {pass.of} : Past(d)
        /\ pass.at = pass.of /\ pass.left = {}
        /\ pass.does = "discard" /\ pass.read => GoesFirst(pass.of, pass.scans)
        /\ pass.does = "erase" => GoesFirst(pass.of, {})

RefusedListed == pass \in Lists /\ pass.does = "refused" => \A d \in pass.todo : Past(d)

RetentionInv == RetentionTyped /\ RefusedTaken /\ RefusedListed

LEMMA PassKinds ==
    /\ \A p \in Records : p.does \in {"discard", "erase"}
    /\ \A p \in Idles : p.does \in {"nothing", "notifications"}
    /\ \A p \in Lists : p.does \in {"refused", "former", "drafts"}
  BY DEF Records, Idles, Lists, NoPass

LEMMA NotStartedIsNone == /\ NotStarted \notin Dossiers
                          /\ \A d \in Dossiers : d.status \in {"draft", "new", "rejected", "approved"}
  BY DEF NotStarted, Dossiers

LEMMA RetentionStart == RetentionInit => RetentionInv
<1> SUFFICES ASSUME RetentionInit PROVE RetentionInv
  OBVIOUS
<1>1. pass \in Idles /\ pass \notin Records /\ pass \notin Lists
  BY PassKinds DEF RetentionInit, Idles, NoPass
<1>2. RetentionTyped
  <2>1. dossier \in [Dossier -> Dossiers \cup {NotStarted}]
    BY DEF RetentionInit, Dossiers
  <2> QED BY <1>1, <2>1 DEF RetentionInit, RetentionTyped, Holder
<1> QED BY <1>1, <1>2 DEF RetentionInv, RefusedTaken, RefusedListed

\* No pass on: nothing is promised of the records.
LEMMA NoneOnIsSound ==
    ASSUME RetentionTyped', pass' \in Idles
    PROVE  RetentionInv'
<1>1. pass' \notin Records /\ pass' \notin Lists
  BY PassKinds
<1> QED BY <1>1 DEF RetentionInv, RefusedTaken, RefusedListed

\* What leaves a pass alone: the records it has in hand keep their rows, and
\* what is named elsewhere, or gone, stays so.
LEMMA PassUndisturbed ==
    ASSUME RetentionInv, RetentionTyped', UNCHANGED pass,
           \A d : Past(d) => Past(d)' /\ rows'[d] = rows[d],
           \A d : Past(d) => \A s \in rows[d], o \in Holder \ {d} : s \in rows[o] => \E h \in Holder \ {d} : s \in rows'[h],
           \A d : Past(d) => \A s \in rows[d] : drive[s] = Nowhere => drive'[s] = Nowhere
    PROVE  RetentionInv'
<1>1. ASSUME NEW d, NEW first, Past(d), GoesFirst(d, first)
      PROVE  GoesFirst(d, first)'
  BY <1>1 DEF GoesFirst
<1>2. RefusedListed'
  BY DEF RetentionInv, RefusedListed
<1>3. RefusedTaken'
  <2> SUFFICES ASSUME pass \in Records, pass.class = "refused"
               PROVE  /\ \A d \in pass.todo \cup {pass.of} : Past(d)'
                      /\ pass.at = pass.of /\ pass.left = {}
                      /\ pass.does = "discard" /\ pass.read => GoesFirst(pass.of, pass.scans)'
                      /\ pass.does = "erase" => GoesFirst(pass.of, {})'
    BY DEF RefusedTaken
  <2>1. PICK d, first : d = pass.of /\ first = pass.scans
    OBVIOUS
  <2>2. Past(d) /\ (\A c \in pass.todo \cup {pass.of} : Past(c))
    BY <2>1 DEF RetentionInv, RefusedTaken
  <2>3. /\ pass.does = "discard" /\ pass.read => GoesFirst(d, first)
        /\ pass.does = "erase" => GoesFirst(d, {})
    BY <2>1 DEF RetentionInv, RefusedTaken
  <2>4. /\ pass.does = "discard" /\ pass.read => GoesFirst(d, first)'
        /\ pass.does = "erase" => GoesFirst(d, {})'
    BY <1>1, <2>2, <2>3
  <2> QED BY <2>1, <2>2, <2>4 DEF RetentionInv, RefusedTaken, GoesFirst
<1> QED BY <1>2, <1>3 DEF RetentionInv

LEMMA FilingBeside ==
    ASSUME RetentionInv, NEW h \in Holder, ~Past(h), h \in Dossier => Started(h), NEW s \in Scan, NEW place, Files(h, s, place)
    PROVE  RetentionInv'
<1>1. RetentionTyped'
  BY DEF RetentionInv, RetentionTyped, Files, Others, Started, Holder
<1>2. \A d : Past(d) => Past(d)' /\ rows'[d] = rows[d]
  BY DEF RetentionInv, RetentionTyped, Files, Past, Started, Holder
<1>3. \A o \in Holder : rows[o] \subseteq rows'[o]
  BY DEF RetentionInv, RetentionTyped, Files
<1>4. \A d : Past(d) => \A t \in rows[d] : drive[t] = Nowhere => drive'[t] = Nowhere
  BY DEF RetentionInv, RetentionTyped, Files, Past, Holder
<1> QED BY <1>1, <1>2, <1>3, <1>4, PassUndisturbed DEF Files, Others

LEMMA StartingBeside ==
    ASSUME RetentionInv, NEW d \in Dossier, NEW folder \in Dossier, NEW of \in SUBSET Person, NEW sources \in SUBSET Holder,
           StartsDossier(d, folder, of, sources)
    PROVE  RetentionInv'
<1>1. UNION {rows[h] : h \in sources} \in SUBSET Scan
  BY DEF RetentionInv, RetentionTyped
<1>2. RetentionTyped'
  <2>1. PICK new : /\ new = [status |-> "draft", due |-> FALSE, disposed |-> FALSE, folder |-> folder, of |-> of]
                   /\ dossier' = [dossier EXCEPT ![d] = new]
    BY DEF StartsDossier
  <2>2. new \in Dossiers
    BY <2>1 DEF Dossiers
  <2>3. dossier' \in [Dossier -> Dossiers \cup {NotStarted}] /\ dossier'[d] # NotStarted
    BY <2>1, <2>2, NotStartedIsNone DEF RetentionInv, RetentionTyped
  <2> QED BY <1>1, <2>1, <2>3 DEF RetentionInv, RetentionTyped, StartsDossier, Others, Started, Holder
<1>3. ~Past(d)
  BY DEF StartsDossier, Past
<1>4. \A c : Past(c) => Past(c)' /\ rows'[c] = rows[c]
  BY <1>3 DEF RetentionInv, RetentionTyped, StartsDossier, Past, Started, Holder
<1>5. \A c : Past(c) => \A s \in rows[c], o \in Holder \ {c} : s \in rows[o] => \E h \in Holder \ {c} : s \in rows'[h]
  <2>1. \A o \in Holder : rows[o] \subseteq rows'[o]
    BY DEF RetentionInv, RetentionTyped, StartsDossier, Holder
  <2> QED BY <2>1
<1> QED BY <1>2, <1>4, <1>5, PassUndisturbed DEF StartsDossier, Others

\* An application moves on, or grows old: none comes to be a draft again.
LEMMA MovingBeside ==
    ASSUME RetentionInv, NEW d \in Dossier, Started(d), NEW new \in Dossiers,
           dossier' = [dossier EXCEPT ![d] = new],
           dossier[d].status \in {"new", "rejected"} => new.status \in {"new", "rejected"},
           UNCHANGED <<rows, drive, period, pass>>
    PROVE  RetentionInv'
<1>1. RetentionTyped'
  BY NotStartedIsNone DEF RetentionInv, RetentionTyped, Started
<1>2. \A c : Past(c) => Past(c)'
  BY NotStartedIsNone DEF RetentionInv, RetentionTyped, Past, Started
<1> QED BY <1>1, <1>2, PassUndisturbed

LEMMA StatusMoves ==
    ASSUME RetentionInv, NEW d \in Dossier, NEW from, NEW to \in {"new", "rejected"}, Moves(d, from, to)
    PROVE  RetentionInv'
<1>1. dossier[d] \in Dossiers
  BY DEF RetentionInv, RetentionTyped, Moves, Started
<1>2. PICK new : new = [dossier[d] EXCEPT !.status = to, !.due = FALSE]
  OBVIOUS
<1>3. new \in Dossiers /\ new.status = to
  BY <1>1, <1>2 DEF Dossiers
<1>4. dossier' = [dossier EXCEPT ![d] = new]
  BY <1>2 DEF Moves, RetentionInv, RetentionTyped
<1> QED BY <1>3, <1>4, MovingBeside DEF Moves, Others

LEMMA Aging ==
    ASSUME RetentionInv, PeriodPasses
    PROVE  RetentionInv'
<1>1. CASE UNCHANGED dossier
  <2>1. RetentionTyped'
    BY <1>1 DEF RetentionInv, RetentionTyped, PeriodPasses, Started
  <2>2. \A c : Past(c) => Past(c)'
    BY <1>1 DEF Past, Started
  <2> QED BY <2>1, <2>2, PassUndisturbed DEF PeriodPasses
<1>2. ASSUME NEW d \in Dossier, Started(d), dossier' = [dossier EXCEPT ![d].due = TRUE]
      PROVE  RetentionInv'
  <2>1. dossier[d] \in Dossiers
    BY <1>2 DEF RetentionInv, RetentionTyped, Started
  <2>2. PICK new : new = [dossier[d] EXCEPT !.due = TRUE]
    OBVIOUS
  <2>3. new \in Dossiers /\ new.status = dossier[d].status
    BY <2>1, <2>2 DEF Dossiers
  <2>4. dossier' = [dossier EXCEPT ![d] = new]
    BY <1>2, <2>2 DEF RetentionInv, RetentionTyped
  <2> QED BY <1>2, <2>3, <2>4, MovingBeside DEF PeriodPasses
<1> QED BY <1>1, <1>2 DEF PeriodPasses, Ages

LEMMA DeletingTyped ==
    ASSUME RetentionTyped, NEW d \in Dossier, DeletesDraft(d), pass' \in Records \cup Idles \cup Lists
    PROVE  RetentionTyped'
<1>1. drive' = [s \in Scan |-> drive'[s]]
  BY DEF RetentionTyped, DeletesDraft, Emptied
<1>2. \A c \in Dossier : ~Started(c)' => rows'[c] = {}
  BY DEF RetentionTyped, DeletesDraft, Started, Holder
<1>3. rows' \in [Holder -> SUBSET Scan] /\ dossier' \in [Dossier -> Dossiers \cup {NotStarted}] /\ period' \subseteq Class
  BY DEF RetentionTyped, DeletesDraft, Holder
<1> QED BY <1>1, <1>2, <1>3 DEF RetentionTyped

LEMMA CounterBeside ==
    ASSUME RetentionInv, TheCounter, NoneDeletedMeanwhile
    PROVE  RetentionInv'
<1>1. FoundingAssumption
  BY FoundingAssumption
<1>2. ASSUME NEW d \in Dossier, StartAlone(d)
      PROVE  RetentionInv'
  BY <1>2, StartingBeside DEF StartAlone
<1>3. ASSUME NEW d \in Dossier, Submitted(d) \/ Refuse(d) \/ ReopenRefused(d)
      PROVE  RetentionInv'
  BY <1>3, StatusMoves DEF Submitted, Refuse, ReopenRefused
<1>4. ASSUME NEW d \in Dossier, DeleteDraftApplication(d)
      PROVE  RetentionInv'
  <2>1. pass' = NoPass /\ pass' \in Idles
    BY <1>4 DEF NoneDeletedMeanwhile, DeleteDraftApplication, Idles
  <2> QED BY <1>4, <2>1, DeletingTyped, NoneOnIsSound DEF DeleteDraftApplication, RetentionInv
<1>5. ASSUME NEW d \in Dossier, NEW r \in Dossier, StartAgain(d, r)
      PROVE  RetentionInv'
  <2>1. {r} \in SUBSET Holder
    BY DEF Holder
  <2> QED BY <1>5, <2>1, StartingBeside DEF StartAgain
<1>6. ASSUME NEW d \in Dossier, NEW p \in Person, StartFor(d, p)
      PROVE  RetentionInv'
  <2>1. {p} \cup OfPerson(p) \in SUBSET Holder /\ Founding[p] \in Dossier
    BY <1>1 DEF Holder, OfPerson, FoundingAssumption
  <2>2. (IF person[p].status = "active" THEN {p} ELSE {}) \in SUBSET Person
    OBVIOUS
  <2> QED BY <1>6, <2>1, <2>2, StartingBeside DEF StartFor
<1>7. ASSUME NEW d \in Dossier, NEW s \in Scan, FileForDossier(d, s)
      PROVE  RetentionInv'
  <2>1. d \in Holder /\ Started(d) /\ ~Past(d)
    BY <1>7 DEF FileForDossier, Editing, Past, Holder
  <2> QED BY <1>7, <2>1, FilingBeside DEF FileForDossier
<1>8. ASSUME NEW p \in Person, NEW s \in Scan, FileForPerson(p, s)
      PROVE  RetentionInv'
  <2>1. p \in Holder /\ p \notin Dossier /\ ~Past(p)
    BY <1>1 DEF FoundingAssumption, Past, Holder
  <2> QED BY <1>8, <2>1, FilingBeside DEF FileForPerson
<1>9. ASSUME UNCHANGED <<dossier, rows, drive, pass>>, period' \subseteq Class
      PROVE  RetentionInv'
  <2>1. RetentionTyped'
    BY <1>9 DEF RetentionInv, RetentionTyped, Started
  <2>2. \A c : Past(c) => Past(c)'
    BY <1>9 DEF Past, Started
  <2> QED BY <1>9, <2>1, <2>2, PassUndisturbed
<1>10. ASSUME NEW p \in Person, Resigns(p)
       PROVE  RetentionInv'
  BY <1>9, <1>10 DEF Resigns, Others, RetentionInv, RetentionTyped
<1>11. ASSUME NEW c \in Class, NEW on \in BOOLEAN, SetRetentionPeriod(c, on)
       PROVE  RetentionInv'
  BY <1>9, <1>11 DEF SetRetentionPeriod, RetentionInv, RetentionTyped
<1>12. CASE Sends
  BY <1>9, <1>12 DEF Sends, RetentionInv, RetentionTyped
<1>13. CASE PeriodPasses
  BY <1>13, Aging
<1> QED BY <1>2, <1>3, <1>4, <1>5, <1>6, <1>7, <1>8, <1>10, <1>11, <1>12, <1>13 DEF TheCounter

\* A pass between two records: only the refused ones it is still to take count.
LEMMA BetweenRecords ==
    ASSUME RetentionTyped', pass' \in Idles \cup Lists,
           pass'.does = "refused" => \A d \in pass'.todo : Past(d)'
    PROVE  RetentionInv'
<1>1. pass' \notin Records
  BY PassKinds
<1> QED BY <1>1 DEF RetentionInv, RefusedTaken, RefusedListed

LEMMA PassGoesOn ==
    ASSUME RetentionInv,
           BeginPass \/ DisposeNotifications \/ RefusedDone \/ FormerDone \/ EndPass \/ PassDies
    PROVE  RetentionInv'
<1>1. period \subseteq Class /\ pass \in Records \cup Idles \cup Lists
  BY DEF RetentionInv, RetentionTyped
<1>2. pass' \in Idles \cup Lists
  <2>1. CASE BeginPass
    BY <1>1, <2>1 DEF BeginPass, Now, Idles
  <2>2. CASE DisposeNotifications
    <3>1. pass \in [does : {"notifications"}, periods : SUBSET Class]
      BY <1>1, <2>2, PassKinds DEF DisposeNotifications, Idles, NoPass
    <3>2. PICK periods \in SUBSET Class : periods = pass.periods
      BY <3>1
    <3>3. PICK todo \in SUBSET Holder : todo = (IF "refused" \in pass.periods THEN DueRefused ELSE {})
      BY DEF DueRefused, Holder
    <3>4. pass' = [does |-> "refused", periods |-> periods, todo |-> todo]
      BY <2>2, <3>2, <3>3 DEF DisposeNotifications, Now
    <3> QED BY <3>4 DEF Lists
  <2>3. CASE RefusedDone
    <3>1. PICK periods \in SUBSET Class : periods = pass.periods
      BY <1>1, <2>3, PassKinds DEF RefusedDone, Lists
    <3>2. PICK todo \in SUBSET Holder : todo = (IF "former" \in pass.periods THEN DueFormer ELSE {})
      BY DEF DueFormer, Holder
    <3>3. pass' = [does |-> "former", periods |-> periods, todo |-> todo]
      BY <2>3, <3>1, <3>2 DEF RefusedDone, Now
    <3> QED BY <3>3 DEF Lists
  <2>4. CASE FormerDone
    <3>1. PICK periods \in SUBSET Class : periods = pass.periods
      BY <1>1, <2>4, PassKinds DEF FormerDone, Lists
    <3>2. PICK todo \in SUBSET Dossier : todo = (IF "drafts" \in pass.periods THEN DueDrafts ELSE {})
      BY DEF DueDrafts
    <3>3. pass' = [does |-> "drafts", periods |-> periods, todo |-> todo]
      BY <2>4, <3>1, <3>2 DEF FormerDone, Now
    <3> QED BY <3>3 DEF Lists
  <2>5. CASE EndPass \/ PassDies
    BY <2>5 DEF EndPass, PassDies, Now, Idles
  <2> QED BY <2>1, <2>2, <2>3, <2>4, <2>5
<1>3. UNCHANGED <<dossier, rows, drive, period>>
  BY DEF BeginPass, DisposeNotifications, RefusedDone, FormerDone, EndPass, PassDies
<1>4. RetentionTyped'
  BY <1>2, <1>3 DEF RetentionInv, RetentionTyped, Started
<1>5. pass'.does = "refused" => \A d \in pass'.todo : Past(d)'
  <2> SUFFICES ASSUME pass'.does = "refused" PROVE \A d \in pass'.todo : Past(d)'
    OBVIOUS
  <2>1. DisposeNotifications
    BY DEF BeginPass, RefusedDone, FormerDone, EndPass, PassDies, Now, NoPass
  <2>2. pass'.todo \subseteq DueRefused
    BY <2>1 DEF DisposeNotifications, Now
  <2> QED BY <1>3, <2>2 DEF DueRefused, Past, Started
<1> QED BY <1>2, <1>4, <1>5, BetweenRecords

\* A record in hand: what is promised of it, and that nothing is listed.
LEMMA RecordInHand ==
    ASSUME RetentionTyped', pass' \in Records, RefusedTaken'
    PROVE  RetentionInv'
<1>1. pass' \notin Lists
  BY PassKinds
<1> QED BY <1>1 DEF RetentionInv, RefusedListed

LEMMA RecordTaken ==
    ASSUME RetentionInv, BeginRefused \/ BeginFormer
    PROVE  RetentionInv'
<1>1. pass \in Lists
  BY PassKinds DEF RetentionInv, RetentionTyped, BeginRefused, BeginFormer
<1>2. PICK todo \in SUBSET Holder, periods \in SUBSET Class : todo = pass.todo /\ periods = pass.periods
  BY <1>1 DEF Lists, Holder
<1>3. PICK class, of, left : /\ of \in todo /\ left \in SUBSET Dossier /\ Takes(class, of, left)
                             /\ \/ class = "refused" /\ left = {} /\ pass.does = "refused"
                                \/ class = "former"
  <2>1. CASE BeginRefused
    BY <1>2, <2>1 DEF BeginRefused
  <2>2. ASSUME NEW p \in todo, BeginFormer, Takes("former", p, OfPerson(p)) 
        PROVE  \E left \in SUBSET Dossier : Takes("former", p, left)
    <3>1. OfPerson(p) \in SUBSET Dossier
      BY DEF OfPerson
    <3> QED BY <2>2, <3>1
  <2> QED BY <1>2, <2>1, <2>2 DEF BeginFormer
<1>4. PICK next : /\ next = [does |-> "discard", class |-> class, todo |-> todo \ {of}, of |-> of, left |-> left,
                             at |-> of, scans |-> {}, read |-> FALSE, periods |-> periods]
                  /\ pass' = next
  BY <1>2, <1>3 DEF Takes, Now
<1>5. next \in Records
  BY <1>2, <1>3, <1>4 DEF Records
<1>6. UNCHANGED <<dossier, rows, drive, period>>
  BY DEF BeginRefused, BeginFormer
<1>7. RetentionTyped'
  BY <1>4, <1>5, <1>6 DEF RetentionInv, RetentionTyped, Started
<1>8. ASSUME class = "refused"
      PROVE  \A d \in todo : Past(d)'
  BY <1>1, <1>2, <1>3, <1>6, <1>8 DEF RetentionInv, RefusedListed, Past, Started
<1>9. RefusedTaken'
  BY <1>3, <1>4, <1>8 DEF RefusedTaken
<1> QED BY <1>4, <1>5, <1>7, <1>9, RecordInHand

\* The files go: read, one after another, then the folder.
LEMMA FilesGo ==
    ASSUME RetentionInv, ReadFiles \/ DiscardFile \/ DiscardFolder
    PROVE  RetentionInv'
<1>1. pass \in Records
  BY PassKinds DEF RetentionInv, RetentionTyped, ReadFiles, DiscardFile, DiscardFolder, Discarding
<1>2. UNCHANGED <<dossier, rows, period>> /\ pass.does = "discard"
  BY DEF ReadFiles, DiscardFile, DiscardFolder, Discarding
<1>3. \A d : Past(d) => Past(d)'
  BY <1>2 DEF Past, Started
<1>4. RetentionTyped
  BY DEF RetentionInv
<1>5. PICK of, scans : of = pass.of /\ scans = pass.scans /\ of \in Holder /\ scans \in SUBSET Scan
  BY <1>1 DEF Records
<1>6. rows[of] \in SUBSET Scan
  BY <1>4, <1>5 DEF RetentionTyped
<1>7. CASE ReadFiles
  <2>1. PICK sole : sole = SoleScans(pass.at) /\ sole \in SUBSET Scan
    <3>1. PICK at \in Holder : at = pass.at
      BY <1>1 DEF Records
    <3>2. SoleScans(at) \in SUBSET Scan
      BY <1>4 DEF SoleScans, RetentionTyped
    <3> QED BY <3>1, <3>2
  <2>2. PICK next : next = [pass EXCEPT !.read = TRUE, !.scans = sole] /\ pass' = next
    BY <1>7, <2>1 DEF ReadFiles, Now
  <2>3. /\ next \in Records /\ next.todo = pass.todo /\ next.of = of /\ next.at = pass.at
        /\ next.left = pass.left /\ next.does = "discard" /\ next.scans = sole /\ next.class = pass.class
    BY <1>1, <1>2, <1>5, <2>1, <2>2 DEF Records
  <2>4. UNCHANGED drive
    BY <1>7 DEF ReadFiles
  <2>5. RetentionTyped'
    BY <1>2, <1>4, <2>2, <2>3, <2>4 DEF RetentionTyped, Started
  <2>6. ASSUME pass.class = "refused" PROVE GoesFirst(of, sole)'
    <3>1. sole = SoleScans(of)
      BY <1>1, <1>5, <2>1, <2>6 DEF RetentionInv, RefusedTaken
    <3> QED BY <1>2, <3>1 DEF GoesFirst, SoleScans
  <2>7. RefusedTaken'
    BY <1>1, <1>3, <1>5, <2>2, <2>3, <2>6 DEF RetentionInv, RefusedTaken, GoesFirst
  <2> QED BY <2>2, <2>3, <2>5, <2>7, RecordInHand
<1>8. CASE DiscardFile
  <2>1. PICK s \in scans : drive' = [drive EXCEPT ![s] = Nowhere] /\ pass' = [pass EXCEPT !.scans = @ \ {s}] /\ pass.read
    BY <1>5, <1>8 DEF DiscardFile, Now
  <2>2. PICK next : next = [pass EXCEPT !.scans = scans \ {s}] /\ pass' = next
    BY <1>1, <1>5, <2>1 DEF Records
  <2>3. /\ next \in Records /\ next.todo = pass.todo /\ next.of = of /\ next.at = pass.at
        /\ next.left = pass.left /\ next.does = "discard" /\ next.scans = scans \ {s} /\ next.class = pass.class
    BY <1>1, <1>2, <1>5, <2>1, <2>2 DEF Records
  <2>4. drive' = [t \in Scan |-> drive'[t]] /\ drive'[s] = Nowhere /\ \A t \in Scan \ {s} : drive'[t] = drive[t]
    BY <1>4, <1>5, <2>1 DEF RetentionTyped
  <2>5. RetentionTyped'
    BY <1>2, <1>4, <2>2, <2>3, <2>4 DEF RetentionTyped, Started
  <2>6. ASSUME pass.class = "refused" PROVE GoesFirst(of, scans \ {s})'
    <3>1. GoesFirst(of, scans)
      BY <1>1, <1>2, <1>5, <2>1, <2>6 DEF RetentionInv, RefusedTaken
    <3> QED BY <1>2, <1>6, <2>4, <3>1 DEF GoesFirst
  <2>7. RefusedTaken'
    BY <1>1, <1>3, <1>5, <2>2, <2>3, <2>6 DEF RetentionInv, RefusedTaken, GoesFirst
  <2> QED BY <2>2, <2>3, <2>5, <2>7, RecordInHand
<1>9. CASE DiscardFolder
  <2>1. drive' = [s \in Scan |-> drive'[s]] /\ \A s \in Scan : drive[s] = Nowhere => drive'[s] = Nowhere
    <3>1. PICK at : at = pass.at
      OBVIOUS
    <3>2. drive' = Emptied(at) \/ drive' = drive
      BY <1>9, <3>1 DEF DiscardFolder
    <3>3. CASE drive' = Emptied(at)
      BY <3>3 DEF Emptied
    <3>4. CASE drive' = drive
      BY <1>4, <3>4 DEF RetentionTyped
    <3> QED BY <3>2, <3>3, <3>4
  <2>2. PICK next : /\ pass' = next
                    /\ \/ pass.left = {} /\ next = [pass EXCEPT !.does = "erase"]
                       \/ \E d \in pass.left : next = [pass EXCEPT !.at = d, !.read = FALSE, !.left = @ \ {d}]
    BY <1>9 DEF DiscardFolder, Now
  <2>3. /\ next \in Records /\ next.todo = pass.todo /\ next.of = of /\ next.class = pass.class
        /\ \/ next.does = "erase" /\ next.left = {} /\ next.at = pass.at
           \/ pass.left # {}
    <3>1. CASE pass.left = {} /\ next = [pass EXCEPT !.does = "erase"]
      BY <1>1, <1>5, <3>1 DEF Records
    <3>2. ASSUME NEW d \in pass.left, next = [pass EXCEPT !.at = d, !.read = FALSE, !.left = @ \ {d}]
          PROVE  next \in Records /\ next.todo = pass.todo /\ next.of = of /\ next.class = pass.class
      BY <1>1, <1>5, <3>2 DEF Records, Holder
    <3> QED BY <2>2, <3>1, <3>2
  <2>4. RetentionTyped'
    BY <1>2, <1>4, <2>1, <2>2, <2>3 DEF RetentionTyped, Started
  <2>5. ASSUME pass.class = "refused" PROVE GoesFirst(of, {})'
    <3>1. GoesFirst(of, {})
      BY <1>1, <1>2, <1>5, <1>9, <2>5 DEF RetentionInv, RefusedTaken, DiscardFolder, GoesFirst
    <3> QED BY <1>2, <1>6, <2>1, <3>1 DEF GoesFirst
  <2>6. RefusedTaken'
    BY <1>1, <1>3, <1>5, <2>2, <2>3, <2>5 DEF RetentionInv, RefusedTaken, GoesFirst
  <2> QED BY <2>2, <2>3, <2>4, <2>6, RecordInHand
<1> QED BY <1>7, <1>8, <1>9

\* Done with a record, or given up on it: the rest of its class follows.
LEMMA RecordLeft ==
    ASSUME RetentionInv, DriveFails \/ Redact \/ DisposeFormer
    PROVE  RetentionInv'
<1>1. pass \in Records
  BY PassKinds DEF RetentionInv, RetentionTyped, DriveFails, Redact, DisposeFormer, Discarding
<1>2. PICK class \in {"refused", "former"}, todo \in SUBSET Holder, periods \in SUBSET Class :
        class = pass.class /\ todo = pass.todo /\ periods = pass.periods
  BY <1>1 DEF Records
<1>3. PICK next : next = [does |-> class, todo |-> todo, periods |-> periods] /\ pass' = next
  BY <1>2 DEF DriveFails, NextAfterFailure, Redact, DisposeFormer, Rest, Now
<1>4. next \in Lists
  BY <1>3 DEF Lists
<1>5. /\ rows' \in [Holder -> SUBSET Scan] /\ \A h \in Holder : rows'[h] \in {rows[h], {}}
  BY DEF DriveFails, Redact, DisposeFormer, RetentionInv, RetentionTyped
<1>6. /\ dossier' \in [Dossier -> Dossiers \cup {NotStarted}]
      /\ \A d \in Dossier : /\ Started(d) <=> Started(d)'
                            /\ Past(d) => Past(d)'
  <2>1. CASE UNCHANGED dossier
    BY <2>1 DEF RetentionInv, RetentionTyped, Past, Started
  <2>2. CASE Redact
    <3>1. PICK d : d = pass.of
      OBVIOUS
    <3>2. Past(d)
      BY <1>1, <2>2, <3>1 DEF RetentionInv, RefusedTaken, Redact
    <3>3. dossier[d] \in Dossiers /\ d \in Dossier
      BY <3>2 DEF RetentionInv, RetentionTyped, Past, Started
    <3>4. PICK new : new = [dossier[d] EXCEPT !.disposed = TRUE]
      OBVIOUS
    <3>5. new \in Dossiers /\ new.status = dossier[d].status
      BY <3>3, <3>4 DEF Dossiers
    <3>6. dossier' = [dossier EXCEPT ![d] = new]
      BY <2>2, <3>1, <3>3, <3>4 DEF Redact, RetentionInv, RetentionTyped
    <3> QED BY <3>2, <3>3, <3>5, <3>6, NotStartedIsNone DEF RetentionInv, RetentionTyped, Past, Started
  <2> QED BY <2>1, <2>2 DEF DriveFails, DisposeFormer
<1>7. UNCHANGED <<drive, period>>
  BY DEF DriveFails, Redact, DisposeFormer
<1>8. RetentionTyped'
  BY <1>3, <1>4, <1>5, <1>6, <1>7 DEF RetentionInv, RetentionTyped, Holder
<1>9. class = "refused" => \A d \in todo : Past(d)'
  BY <1>1, <1>2, <1>6 DEF RetentionInv, RefusedTaken, Past
<1> QED BY <1>3, <1>4, <1>8, <1>9, BetweenRecords

LEMMA DraftsGo ==
    ASSUME RetentionInv, DisposeDraft
    PROVE  RetentionInv'
<1>1. pass \in Lists
  BY PassKinds DEF RetentionInv, RetentionTyped, DisposeDraft
<1>2. PICK d \in pass.todo : /\ d \in Dossier
                             /\ pass' = [pass EXCEPT !.todo = @ \ {d}]
                             /\ DeletesDraft(d) \/ UNCHANGED <<dossier, rows, drive, period>>
  BY <1>1 DEF DisposeDraft, Now, Lists
<1>3. pass' \in Lists /\ pass'.does = "drafts"
  BY <1>1, <1>2 DEF Lists, DisposeDraft
<1>4. RetentionTyped'
  <2>1. CASE UNCHANGED <<dossier, rows, drive, period>>
    BY <1>3, <2>1 DEF RetentionInv, RetentionTyped, Started
  <2>2. CASE DeletesDraft(d)
    BY <1>2, <1>3, <2>2, DeletingTyped DEF RetentionInv
  <2> QED BY <1>2, <2>1, <2>2
<1> QED BY <1>3, <1>4, BetweenRecords

\* Filed, shared, refused, reopened or deleted by others between two steps of a
\* pass, whether the drive fails or the pass dies: a scan that loses its last
\* row to the disposal of a refused application has left the drive already,
\* while no draft is deleted by hand during a pass.
THEOREM FilesGoBeforeRows == RetentionSpec => RefusedPapersGoFirst
<1>1. RetentionInv /\ [RetentionNext /\ NoneDeletedMeanwhile]_retention => RetentionInv'
  <2> SUFFICES ASSUME RetentionInv, [RetentionNext /\ NoneDeletedMeanwhile]_retention
               PROVE  RetentionInv'
    OBVIOUS
  <2>1. CASE UNCHANGED retention
    <3>1. RetentionTyped'
      BY <2>1 DEF RetentionInv, RetentionTyped, Started, retention
    <3>2. \A c : Past(c) => Past(c)'
      BY <2>1 DEF Past, Started, retention
    <3> QED BY <2>1, <3>1, <3>2, PassUndisturbed DEF retention
  <2>2. CASE TheJob
    BY <2>2, PassGoesOn, RecordTaken, FilesGo, RecordLeft, DraftsGo DEF TheJob
  <2>3. CASE TheCounter /\ NoneDeletedMeanwhile
    BY <2>3, CounterBeside
  <2> QED BY <2>1, <2>2, <2>3 DEF RetentionNext
<1>2. RetentionInv /\ [RetentionNext /\ NoneDeletedMeanwhile]_retention =>
        [\A s \in Scan : Erasing("refused") /\ Named(s) /\ ~Named(s)' => drive'[s] = Nowhere]_retention
  <2> SUFFICES ASSUME RetentionInv, RetentionNext, NEW s \in Scan, Erasing("refused"), Named(s), ~Named(s)'
               PROVE  drive'[s] = Nowhere
    OBVIOUS
  <2>1. pass.does = "erase" /\ pass.class = "refused" /\ pass'.does = "refused"
    BY DEF Erasing
  <2>2. pass' # pass
    BY <2>1
  <2>3. TheJob
    BY <2>2 DEF RetentionNext, TheCounter, StartAlone, StartAgain, StartFor, StartsDossier, Submitted, Refuse,
                ReopenRefused, Moves, DeleteDraftApplication, FileForDossier, FileForPerson, Files, Others, Resigns,
                SetRetentionPeriod, Sends, PeriodPasses
  <2>4. Redact
    BY <2>1, <2>3 DEF TheJob, BeginPass, DisposeNotifications, BeginRefused, RefusedDone, BeginFormer, FormerDone,
                      ReadFiles, DiscardFile, DiscardFolder, DriveFails, Discarding, DisposeFormer, DisposeDraft,
                      EndPass, PassDies, Now, NoPass
  <2>5. PICK of : of = pass.of
    OBVIOUS
  <2>6. pass \in Records
    BY <2>1, PassKinds DEF RetentionInv, RetentionTyped
  <2>7. GoesFirst(of, {})
    BY <2>1, <2>5, <2>6 DEF RetentionInv, RefusedTaken
  <2>8. rows' = [rows EXCEPT ![of] = {}] /\ UNCHANGED drive
    BY <2>4, <2>5 DEF Redact
  <2>9. \A h \in Holder \ {of} : s \notin rows[h]
    BY <2>8 DEF Named, RetentionInv, RetentionTyped
  <2> QED BY <2>7, <2>8, <2>9 DEF Named, GoesFirst
<1> QED BY RetentionStart, <1>1, <1>2, PTL DEF RetentionSpec, RefusedPapersGoFirst
=============================================================================
