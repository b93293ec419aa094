---------------------------- MODULE BucketProofs ----------------------------
(***************************************************************************)
(* The object layout: no run ever overwrites an object of its own, and no  *)
(* object of another run unless both have the same run id; folders fill    *)
(* without gaps and never change once full.  The bucket with its uploads   *)
(* and calcsize is built on the layout, so all of this holds there; no     *)
(* parts are left behind without an explanation; calcsize spares what it   *)
(* says it spares, and --force-abort leaves a quiet bucket empty.  All for *)
(* every number of runs and writers, every folder size, page size, cutoff  *)
(* and schedule.                                                           *)
(***************************************************************************)
EXTENDS Bucket, FiniteSetTheorems, TLAPS

(* The object layout. *)

(* A writer's files have different indices, all reached already, an open    *)
(* file belongs to its writer and is not completed, ... *)
IndexInv ==
    /\ \A f \in numbered : f.index <= file_index[f.run][f.writer]
    /\ \A f, g \in numbered :
         f.run = g.run /\ f.writer = g.writer /\ f.index = g.index => f = g
    /\ \A r \in Runs, w \in Writers :
         \A f \in active[r][w] : f.run = r /\ f.writer = w

(* ... and the key of every completed file is taken by a stored object.    *)
KeysTaken == \A f \in completed : \E g \in store : Key(g) = Key(f)

Inv == TypeOK /\ IndexInv /\ KeysTaken

(* Within one run a key names one file. *)
LEMMA KeyNamesFile ==
    ASSUME TypeOK, IndexInv, NEW f \in numbered, NEW g \in numbered,
           Key(f) = Key(g), f.run = g.run
    PROVE  f = g
<1>1. f.writer = g.writer /\ f.index = g.index
    BY DEF Key
<1>2. QED
    BY <1>1 DEF IndexInv

LEMMA InitInv == Init => Inv
BY ObjectLayoutAssumption DEF Init, Inv, TypeOK, IndexInv, KeysTaken

(* Taking a number keeps the numbered files well-formed and apart. *)
LEMMA TakeNumberStep ==
    ASSUME TypeOK, IndexInv, NEW r \in Runs, NEW w \in Writers, TakeNumber(r, w)
    PROVE  /\ NextFile(r, w) \in File
           /\ NextFile(r, w).run = r /\ NextFile(r, w).writer = w
           /\ file_counter' \in [Runs -> Nat]
           /\ file_index' \in [Runs -> [Writers -> Nat]]
           /\ numbered' \in SUBSET File /\ numbered \subseteq numbered'
           /\ NextFile(r, w) \in numbered'
           /\ \A f \in numbered' : f.index <= file_index'[f.run][f.writer]
           /\ \A f, g \in numbered' :
                f.run = g.run /\ f.writer = g.writer /\ f.index = g.index => f = g
<1> DEFINE n == NextFile(r, w)
<1>1. /\ file_index[r][w] \in Nat /\ file_counter[r] \in Nat
      /\ numbered' = numbered \cup {n}
      /\ file_counter' = [file_counter EXCEPT ![r] = file_counter[r] + 1]
      /\ file_index' = [file_index EXCEPT ![r][w] = file_index[r][w] + 1]
      /\ numbered \in SUBSET File
    BY DEF TakeNumber, TypeOK
<1>2. /\ n \in File
      /\ n.run = r /\ n.writer = w /\ n.index = file_index[r][w] + 1
    BY <1>1 DEF NextFile, File
<1>3. /\ file_counter' \in [Runs -> Nat]
      /\ file_index' \in [Runs -> [Writers -> Nat]]
      /\ file_index'[r][w] = file_index[r][w] + 1
      /\ \A q \in Runs, v \in Writers :
           q # r \/ v # w => file_index'[q][v] = file_index[q][v]
    BY <1>1 DEF TypeOK
<1>4. \A f \in numbered :
        /\ f.run \in Runs /\ f.writer \in Writers /\ f.index \in Nat
        /\ f.index <= file_index[f.run][f.writer]
    BY <1>1 DEF File, IndexInv
<1> HIDE DEF n
<1>5. \A f \in numbered' : f.index <= file_index'[f.run][f.writer]
    <2> SUFFICES ASSUME NEW f \in numbered'
                 PROVE  f.index <= file_index'[f.run][f.writer]
        OBVIOUS
    <2>1. CASE f = n
        BY <1>1, <1>2, <1>3, <2>1
    <2>2. CASE f \in numbered /\ f.run = r /\ f.writer = w
        BY <1>1, <1>3, <1>4, <2>2
    <2>3. CASE f \in numbered /\ (f.run # r \/ f.writer # w)
        BY <1>3, <1>4, <2>3
    <2>4. QED
        BY <1>1, <2>1, <2>2, <2>3
<1>6. \A f \in numbered : ~(f.run = n.run /\ f.writer = n.writer /\ f.index = n.index)
    BY <1>1, <1>2, <1>4
<1>7. \A f, g \in numbered' :
        f.run = g.run /\ f.writer = g.writer /\ f.index = g.index => f = g
    BY <1>1, <1>6 DEF IndexInv
<1>8. QED
    BY <1>1, <1>2, <1>3, <1>5, <1>7 DEF n

LEMMA StepInv == Inv /\ [Next]_vars => Inv'
<1> SUFFICES ASSUME Inv, [Next]_vars PROVE Inv'
    OBVIOUS
<1> USE DEF Inv
<1>1. ASSUME NEW r \in Runs, NEW w \in Writers, Open(r, w)
      PROVE  Inv'
    <2>1. /\ TakeNumber(r, w)
          /\ active' = [active EXCEPT ![r][w] = {NextFile(r, w)}]
          /\ completed' = completed /\ store' = store /\ run_id' = run_id
        BY <1>1 DEF Open
    <2>2. active' \in [Runs -> [Writers -> SUBSET (numbered')]]
        BY <2>1, TakeNumberStep DEF TypeOK
    <2>3. TypeOK'
        BY <2>1, <2>2, TakeNumberStep DEF TypeOK
    <2>4. ASSUME NEW q \in Runs, NEW v \in Writers, NEW f \in active'[q][v]
          PROVE  f.run = q /\ f.writer = v
        BY <2>1, <2>4, TakeNumberStep DEF TypeOK, IndexInv
    <2>5. IndexInv'
        BY <2>1, <2>4, TakeNumberStep DEF IndexInv
    <2>6. KeysTaken'
        BY <2>1 DEF KeysTaken, Key, BatchOf
    <2>7. QED
        BY <2>3, <2>5, <2>6
<1>2. ASSUME NEW r \in Runs, NEW w \in Writers, OpenFails(r, w)
      PROVE  Inv'
    <2>1. /\ TakeNumber(r, w)
          /\ active' = active /\ completed' = completed /\ store' = store /\ run_id' = run_id
        BY <1>2 DEF OpenFails
    <2>2. TypeOK'
        BY <2>1, TakeNumberStep DEF TypeOK
    <2>3. IndexInv'
        BY <2>1, TakeNumberStep DEF IndexInv
    <2>4. KeysTaken'
        BY <2>1 DEF KeysTaken, Key, BatchOf
    <2>5. QED
        BY <2>2, <2>3, <2>4
<1>3. ASSUME NEW r \in Runs, NEW w \in Writers, Close(r, w)
      PROVE  Inv'
    <2>1. PICK f \in active[r][w] :
            /\ completed' = completed \cup {f}
            /\ store' = {g \in store : Key(g) # Key(f)} \cup {f}
            /\ active' = [active EXCEPT ![r][w] = {}]
            /\ UNCHANGED <<run_id, file_counter, file_index, numbered>>
        BY <1>3 DEF Close
    <2>2. f \in numbered
        BY DEF TypeOK
    <2>3. active' \in [Runs -> [Writers -> SUBSET numbered]]
        BY <2>1 DEF TypeOK
    <2>4. TypeOK'
        BY <2>1, <2>2, <2>3 DEF TypeOK
    <2>5. IndexInv'
        BY <2>1 DEF IndexInv, TypeOK
    <2>6. ASSUME NEW h \in completed'
          PROVE  \E g \in store' : Key(g) = Key(h)
        <3>1. CASE Key(h) = Key(f)
            BY <2>1, <3>1
        <3>2. CASE Key(h) # Key(f)
            BY <2>1, <3>2 DEF KeysTaken
        <3>3. QED
            BY <3>1, <3>2
    <2>7. KeysTaken'
        BY <2>1, <2>6 DEF KeysTaken, Key, BatchOf
    <2>8. QED
        BY <2>4, <2>5, <2>7
<1>4. ASSUME NEW r \in Runs, NEW w \in Writers, Drop(r, w)
      PROVE  Inv'
    <2>1. /\ active' = [active EXCEPT ![r][w] = {}]
          /\ UNCHANGED <<run_id, file_counter, file_index, numbered, completed, store>>
        BY <1>4 DEF Drop
    <2>2. active' \in [Runs -> [Writers -> SUBSET numbered]]
        BY <2>1 DEF TypeOK
    <2>3. TypeOK'
        BY <2>1, <2>2 DEF TypeOK
    <2>4. IndexInv'
        BY <2>1 DEF IndexInv, TypeOK
    <2>5. KeysTaken'
        BY <2>1 DEF KeysTaken, Key, BatchOf
    <2>6. QED
        BY <2>3, <2>4, <2>5
<1>5. CASE UNCHANGED vars
    BY <1>5 DEF vars, TypeOK, IndexInv, KeysTaken, Key, BatchOf
<1>6. QED
    BY <1>1, <1>2, <1>3, <1>4, <1>5 DEF Next, Stutter

(* "The writer id keeps concurrent writers from colliding": for any runs,    *)
(* ids, writers and folder size, only another run with the same id can      *)
(* replace a completed file (next_path and close_active, src/sink.rs).      *)
THEOREM NoRunOverwritesItself == Spec => []OnlySameIdOverwrites
<1>1. Inv => OnlySameIdOverwrites
    <2> SUFFICES ASSUME Inv, NEW f \in completed, f \notin store
                 PROVE  \E g \in store : Key(g) = Key(f) /\ g.run # f.run
                                            /\ run_id[g.run] = run_id[f.run]
        BY DEF OnlySameIdOverwrites
    <2>1. PICK g \in store : Key(g) = Key(f)
        BY DEF Inv, KeysTaken
    <2>2. g \in numbered /\ f \in numbered
        BY DEF Inv, TypeOK
    <2>3. g.run # f.run
        BY <2>1, <2>2, KeyNamesFile DEF Inv
    <2>4. run_id[g.run] = run_id[f.run]
        BY <2>1 DEF Key
    <2>5. QED
        BY <2>1, <2>3, <2>4
<1>2. QED
    BY <1>1, InitInv, StepInv, PTL DEF Spec
-----------------------------------------------------------------------------
(* The numbers of a run's files are those below its counter, each once.     *)
NumbersInv ==
    /\ \A f \in numbered : f.number < file_counter[f.run]
    /\ \A f, g \in numbered : f.run = g.run /\ f.number = g.number => f = g
    /\ \A r \in Runs, n \in Nat :
         n < file_counter[r] => \E f \in numbered : f.run = r /\ f.number = n

(* A file that is still open is not completed. *)
OpenInv == \A r \in Runs, w \in Writers : active[r][w] \cap completed = {}

(* The numbers that belong in batch folder b. *)
NumbersOf(b) == ((b - 1) * files_per_folder)..(b * files_per_folder - 1)

LEMMA TimesMonotone ==
    ASSUME NEW a \in Int, NEW b \in Int, NEW k \in Nat, a <= b
    PROVE  a * k <= b * k
<1>1. (b - a) \in Nat
    OBVIOUS
<1>2. (b - a) * k \in Nat
    BY <1>1
<1>3. (b - a) * k = b * k - a * k
    OBVIOUS
<1>4. a * k \in Int /\ b * k \in Int
    OBVIOUS
<1>5. QED
    BY <1>2, <1>3, <1>4

(* Integer division by k puts k consecutive numbers in each folder. *)
LEMMA BatchOfNumber ==
    ASSUME NEW n \in Nat, NEW k \in Nat \ {0}, NEW b \in Nat
    PROVE  n \div k + 1 = b <=> n \in ((b - 1) * k)..(b * k - 1)
<1> DEFINE q == n \div k
           m == n % k
<1>1. q \in Nat /\ m \in 0..(k - 1) /\ n = (q * k) + m
    OBVIOUS
<1> HIDE DEF q, m
<1>2. /\ q * k \in Int /\ b * k \in Int /\ (b - 1) * k \in Int
      /\ (q + 1) * k = q * k + k /\ (b - 1) * k = b * k - k
    BY <1>1
<1>3. q + 1 = b => n \in ((b - 1) * k)..(b * k - 1)
    BY <1>1, <1>2
<1>4. ASSUME n \in ((b - 1) * k)..(b * k - 1)
      PROVE  q + 1 = b
    <2>1. ~(b <= q)
        <3>1. SUFFICES ASSUME b <= q PROVE FALSE
            OBVIOUS
        <3>2. b * k <= q * k
            BY <1>1, <3>1, TimesMonotone
        <3>3. QED
            BY <1>1, <1>2, <1>4, <3>2
    <2>2. ~(q + 1 <= b - 1)
        <3>1. SUFFICES ASSUME q + 1 <= b - 1 PROVE FALSE
            OBVIOUS
        <3>2. (q + 1) * k <= (b - 1) * k
            BY <1>1, <3>1, TimesMonotone
        <3>3. QED
            BY <1>1, <1>2, <1>4, <3>2
    <2>3. QED
        BY <1>1, <2>1, <2>2
<1>5. QED
    BY <1>3, <1>4 DEF q

(* A folder has files_per_folder numbers. *)
LEMMA FolderNumbers ==
    ASSUME files_per_folder > 0, NEW b \in Nat
    PROVE  /\ IsFiniteSet(NumbersOf(b))
           /\ Cardinality(NumbersOf(b)) = files_per_folder
<1> DEFINE top == b * files_per_folder
<1>1. /\ top \in Int
      /\ (b - 1) * files_per_folder = top - files_per_folder
      /\ files_per_folder \in Nat
    BY ObjectLayoutAssumption
<1> HIDE DEF top
<1>2. NumbersOf(b) = (top - files_per_folder)..(top - 1)
    BY <1>1 DEF NumbersOf, top
<1>3. QED
    BY <1>1, <1>2, FS_Interval

LEMMA InFolder ==
    ASSUME TypeOK, files_per_folder > 0, NEW f \in File, NEW b \in Nat
    PROVE  BatchOf(f) \in Nat /\ (BatchOf(f) = b <=> f.number \in NumbersOf(b))
<1>1. f.number \in Nat /\ files_per_folder \in Nat \ {0}
    BY ObjectLayoutAssumption DEF File
<1>2. BatchOf(f) = f.number \div files_per_folder + 1
    BY <1>1 DEF BatchOf
<1>3. f.number \div files_per_folder \in Nat
    BY <1>1
<1>4. f.number \div files_per_folder + 1 = b <=> f.number \in NumbersOf(b)
    <2>1. ASSUME NEW n \in Nat, NEW k \in Nat \ {0}
          PROVE  n \div k + 1 = b <=> n \in ((b - 1) * k)..(b * k - 1)
        BY BatchOfNumber
    <2>2. QED
        BY <1>1, <2>1, Zenon DEF NumbersOf
<1>5. QED
    BY <1>2, <1>3, <1>4

(* Files of a folder have different numbers out of those of the folder, so  *)
(* there are no more of them, and as many only if every number is taken.    *)
LEMMA FolderSize ==
    ASSUME TypeOK, NumbersInv, files_per_folder > 0, NEW r \in Runs, NEW b \in Nat
    PROVE  /\ IsFiniteSet(Folder(r, b))
           /\ Cardinality(Folder(r, b)) \in Nat
           /\ Cardinality(Folder(r, b)) <= files_per_folder
           /\ Cardinality(Folder(r, b)) = files_per_folder
                <=> \A n \in NumbersOf(b) : \E f \in Folder(r, b) : f.number = n
<1> DEFINE F == Folder(r, b)
           N == NumbersOf(b)
           number == [f \in F |-> f.number]
<1>1. \A f \in F : f \in File /\ f \in numbered /\ f.run = r /\ f.number \in N
    BY InFolder DEF Folder, TypeOK
<1>2. number \in [F -> N]
    BY <1>1
<1>3. number \in Injection(F, N)
    BY <1>1, <1>2 DEF Injection, IsInjective, NumbersInv
<1>4. number \in Surjection(F, N) <=> \A n \in N : \E f \in F : f.number = n
    BY <1>2 DEF Surjection
<1>5. IsFiniteSet(N) /\ Cardinality(N) = files_per_folder
    BY FolderNumbers
<1> HIDE DEF number, F, N
<1>6. /\ IsFiniteSet(F)
      /\ Cardinality(F) <= Cardinality(N)
      /\ Cardinality(F) = Cardinality(N) <=> number \in Surjection(F, N)
    BY <1>3, <1>5, FS_Injection
<1>7. Cardinality(F) \in Nat
    BY <1>6, FS_CardinalityType
<1>8. QED
    BY <1>4, <1>5, <1>6, <1>7 DEF F, N

LEMMA NumbersTaken ==
    ASSUME TypeOK, NumbersInv, NEW r \in Runs, NEW w \in Writers, TakeNumber(r, w)
    PROVE  NumbersInv'
<1> DEFINE n == NextFile(r, w)
<1>1. /\ numbered' = numbered \cup {n}
      /\ file_counter[r] \in Nat
      /\ file_counter' = [file_counter EXCEPT ![r] = file_counter[r] + 1]
      /\ numbered \in SUBSET File
    BY DEF TakeNumber, TypeOK
<1>2. n.run = r /\ n.number = file_counter[r]
    BY DEF NextFile
<1> HIDE DEF n
<1>3. /\ file_counter'[r] = file_counter[r] + 1
      /\ \A q \in Runs : q # r => file_counter'[q] = file_counter[q]
      /\ file_counter \in [Runs -> Nat]
    BY <1>1 DEF TypeOK
<1>4. \A f \in numbered :
        f.run \in Runs /\ f.number \in Nat /\ f.number < file_counter[f.run]
    BY <1>1 DEF File, NumbersInv
<1>5. \A f \in numbered' : f.number < file_counter'[f.run]
    <2>1. ASSUME NEW f \in numbered
          PROVE  f.number < file_counter'[f.run]
        <3>1. CASE f.run = r
            BY <1>1, <1>3, <1>4, <3>1
        <3>2. CASE f.run # r
            BY <1>3, <1>4, <3>2
        <3>3. QED
            BY <3>1, <3>2
    <2>2. n.number < file_counter'[n.run]
        BY <1>1, <1>2, <1>3
    <2>3. QED
        BY <1>1, <2>1, <2>2
<1>6. \A f \in numbered : ~(f.run = n.run /\ f.number = n.number)
    BY <1>1, <1>2, <1>4
<1>7. \A f, g \in numbered' : f.run = g.run /\ f.number = g.number => f = g
    BY <1>1, <1>6 DEF NumbersInv
<1>8. ASSUME NEW q \in Runs, NEW m \in Nat, m < file_counter'[q]
      PROVE  \E f \in numbered' : f.run = q /\ f.number = m
    <2>1. CASE q = r /\ m = file_counter[r]
        BY <1>1, <1>2, <2>1
    <2>2. CASE ~(q = r /\ m = file_counter[r])
        <3>1. m < file_counter[q]
            BY <1>1, <1>3, <1>8, <2>2
        <3>2. QED
            BY <1>1, <3>1 DEF NumbersInv
    <2>3. QED
        BY <2>1, <2>2
<1>9. QED
    BY <1>5, <1>7, <1>8 DEF NumbersInv

LEMMA StepNumbers == Inv /\ NumbersInv /\ [Next]_vars => NumbersInv'
<1> SUFFICES ASSUME Inv, NumbersInv, [Next]_vars PROVE NumbersInv'
    OBVIOUS
<1>1. ASSUME NEW r \in Runs, NEW w \in Writers, Open(r, w) \/ OpenFails(r, w)
      PROVE  NumbersInv'
    BY <1>1, NumbersTaken DEF Inv, Open, OpenFails
<1>2. ASSUME UNCHANGED <<file_counter, numbered>>
      PROVE  NumbersInv'
    BY <1>2 DEF NumbersInv
<1>3. QED
    BY <1>1, <1>2 DEF Next, Stutter, Close, Drop, vars

LEMMA StepOpenFiles == Inv /\ OpenInv /\ [Next]_vars => OpenInv'
<1> SUFFICES ASSUME Inv, OpenInv, [Next]_vars PROVE OpenInv'
    OBVIOUS
<1>1. TypeOK /\ IndexInv /\ active \in [Runs -> [Writers -> SUBSET numbered]]
    BY DEF Inv, TypeOK
<1>2. ASSUME NEW r \in Runs, NEW w \in Writers, Open(r, w)
      PROVE  OpenInv'
    <2>1. /\ TakeNumber(r, w)
          /\ active' = [active EXCEPT ![r][w] = {NextFile(r, w)}]
          /\ completed' = completed
        BY <1>2 DEF Open
    <2>2. NextFile(r, w) \notin completed
        <3>1. SUFFICES ASSUME NextFile(r, w) \in completed PROVE FALSE
            OBVIOUS
        <3>2. NextFile(r, w) \in numbered /\ file_index[r][w] \in Nat
            BY <1>1, <3>1 DEF TypeOK
        <3>3. file_index[r][w] + 1 <= file_index[r][w]
            BY <1>1, <3>2 DEF IndexInv, NextFile
        <3>4. QED
            BY <3>2, <3>3
    <2>3. QED
        BY <1>1, <2>1, <2>2 DEF OpenInv
<1>3. ASSUME NEW r \in Runs, NEW w \in Writers, OpenFails(r, w)
      PROVE  OpenInv'
    BY <1>3 DEF OpenFails, OpenInv
<1>4. ASSUME NEW r \in Runs, NEW w \in Writers, Close(r, w)
      PROVE  OpenInv'
    <2>1. PICK f \in active[r][w] :
            /\ completed' = completed \cup {f}
            /\ active' = [active EXCEPT ![r][w] = {}]
        BY <1>4 DEF Close
    <2>2. ASSUME NEW q \in Runs, NEW v \in Writers, f \in active'[q][v]
          PROVE  FALSE
        BY <1>1, <2>1, <2>2 DEF IndexInv
    <2>3. \A q \in Runs, v \in Writers : active'[q][v] \subseteq active[q][v]
        BY <1>1, <2>1
    <2>4. QED
        BY <2>1, <2>2, <2>3 DEF OpenInv
<1>5. ASSUME NEW r \in Runs, NEW w \in Writers, Drop(r, w)
      PROVE  OpenInv'
    BY <1>1, <1>5 DEF Drop, OpenInv
<1>6. CASE UNCHANGED vars
    BY <1>6 DEF vars, OpenInv
<1>7. QED
    BY <1>2, <1>3, <1>4, <1>5, <1>6 DEF Next, Stutter

LEMMA LayoutInvariance == Spec => [](Inv /\ NumbersInv /\ OpenInv)
<1>1. Init => NumbersInv /\ OpenInv
    BY DEF Init, NumbersInv, OpenInv
<1>2. QED
    BY <1>1, InitInv, StepInv, StepNumbers, StepOpenFiles, PTL DEF Spec

(* "each folder fills to exactly files_per_folder regardless of which       *)
(* writer produced its files": for every number of writers and every folder *)
(* size, the shared counter leaves no gap and no folder too many numbers    *)
(* (next_path, src/sink.rs).                                               *)
THEOREM NumberingHasNoGaps == Spec => []FoldersPacked
<1>1. ASSUME Inv, NumbersInv, files_per_folder > 0, NEW f \in numbered
      PROVE  LET size == Cardinality(Folder(f.run, BatchOf(f))) IN
                /\ size <= files_per_folder
                /\ BatchOf(f) * files_per_folder <= file_counter[f.run]
                       => size = files_per_folder
    <2>1. f \in File /\ f.run \in Runs /\ TypeOK
        BY <1>1 DEF Inv, TypeOK, File
    <2>2. BatchOf(f) \in Nat
        BY <1>1, <2>1, InFolder
    <2> DEFINE b == BatchOf(f)
    <2> HIDE DEF b
    <2>3. ASSUME b * files_per_folder <= file_counter[f.run], NEW n \in NumbersOf(b)
          PROVE  \E g \in Folder(f.run, b) : g.number = n
        <3>1. /\ files_per_folder \in Nat \ {0} /\ file_counter[f.run] \in Nat
              /\ b \in Nat /\ b # 0
            <4>1. f.number \in Nat /\ files_per_folder \in Nat \ {0}
                BY <1>1, <2>1, ObjectLayoutAssumption DEF File
            <4>2. f.number \div files_per_folder \in Nat
                BY <4>1
            <4>3. QED
                BY <2>1, <2>2, <4>1, <4>2 DEF TypeOK, BatchOf, b
        <3>2. /\ b * files_per_folder \in Nat
              /\ (b - 1) * files_per_folder \in Nat
            BY <3>1
        <3>3. n \in Nat /\ n < file_counter[f.run]
            BY <2>3, <3>1, <3>2 DEF NumbersOf
        <3>4. PICK g \in numbered : g.run = f.run /\ g.number = n
            BY <1>1, <2>1, <3>3 DEF NumbersInv
        <3>5. g \in File
            BY <2>1 DEF TypeOK
        <3>6. BatchOf(g) = b
            BY <1>1, <2>1, <2>3, <3>1, <3>4, <3>5, InFolder
        <3>7. QED
            BY <3>4, <3>6 DEF Folder
    <2>4. QED
        BY <1>1, <2>1, <2>2, <2>3, FolderSize DEF b
<1>2. Inv /\ NumbersInv => FoldersPacked
    BY <1>1 DEF FoldersPacked
<1>3. QED
    BY <1>2, LayoutInvariance, PTL

(* A folder with all its files is final: no writer of the run adds a file   *)
(* to it and none of its objects is replaced or appears late, as long as no *)
(* other run has the same id (next_path and close_active, src/sink.rs).     *)
THEOREM FullFoldersAreFinal == Spec => SealedFoldersStay
<1>1. ASSUME Inv, NumbersInv, OpenInv, [Next]_vars, NEW f \in completed,
             files_per_folder > 0,
             \A r \in Runs : run_id[r] = run_id[f.run] => r = f.run,
             Cardinality(Folder(f.run, BatchOf(f)) \cap completed) = files_per_folder
      PROVE  /\ Folder(f.run, BatchOf(f))' = Folder(f.run, BatchOf(f))
             /\ Folder(f.run, BatchOf(f)) \cap store' = Folder(f.run, BatchOf(f)) \cap store
    <2> DEFINE b == BatchOf(f)
               F == Folder(f.run, b)
    <2>1. /\ TypeOK /\ IndexInv /\ f \in File /\ f \in numbered /\ f.run \in Runs
          /\ F \subseteq numbered /\ numbered \subseteq File
        BY <1>1 DEF Inv, TypeOK, File, Folder
    <2>2. b \in Nat
        BY <1>1, <2>1, InFolder
    <2> HIDE DEF b
    <2>3. /\ IsFiniteSet(F) /\ Cardinality(F) <= files_per_folder
          /\ Cardinality(F) \in Nat
          /\ Cardinality(F) = files_per_folder
                <=> \A n \in NumbersOf(b) : \E g \in F : g.number = n
        BY <1>1, <2>1, <2>2, FolderSize
    <2>4. Cardinality(F \cap completed) = files_per_folder
        BY <1>1 DEF b
    <2> HIDE DEF F
    <2>5. /\ IsFiniteSet(F \cap completed)
          /\ Cardinality(F \cap completed) <= Cardinality(F)
          /\ Cardinality(F) = Cardinality(F \cap completed) => F = F \cap completed
        BY <2>3, FS_Subset
    <2>6. Cardinality(F) = files_per_folder
        BY <2>3, <2>4, <2>5, ObjectLayoutAssumption
    <2>7. F \subseteq completed
        BY <2>4, <2>5, <2>6
    <2>8. \A n \in NumbersOf(b) : n < file_counter[f.run]
        BY <1>1, <2>1, <2>3, <2>6 DEF NumbersInv, F, Folder
    <2>9. ASSUME NEW r \in Runs, NEW w \in Writers, TakeNumber(r, w)
          PROVE  Folder(f.run, b)' = F
        <3>1. NextFile(r, w) \in File /\ numbered' = numbered \cup {NextFile(r, w)}
            BY <2>1, <2>9, TakeNumberStep DEF TakeNumber
        <3>2. NextFile(r, w).run = r /\ NextFile(r, w).number = file_counter[r]
            BY DEF NextFile
        <3>3. file_counter[r] \in Nat
            BY <2>1 DEF TypeOK
        <3>4. ~(r = f.run /\ BatchOf(NextFile(r, w)) = b)
            BY <1>1, <2>1, <2>2, <2>8, <3>1, <3>2, <3>3, InFolder
        <3>5. QED
            BY <3>1, <3>2, <3>4 DEF F, Folder, BatchOf
    <2>10. ASSUME NEW r \in Runs, NEW w \in Writers, Close(r, w)
           PROVE  F \cap store' = F \cap store
        <3>1. PICK h \in active[r][w] :
                store' = {g \in store : Key(g) # Key(h)} \cup {h}
            BY <2>10 DEF Close
        <3>2. h \in numbered /\ h \notin completed
            BY <1>1, <2>1 DEF TypeOK, OpenInv
        <3>3. h \notin F
            BY <2>7, <3>2
        <3>4. ASSUME NEW g \in F, Key(g) = Key(h)
              PROVE  FALSE
            <4>1. g \in numbered /\ g.run = f.run
                BY <2>1 DEF F, Folder
            <4>2. run_id[h.run] = run_id[f.run] /\ h.run \in Runs
                BY <2>1, <3>2, <3>4, <4>1 DEF Key, File
            <4>3. h.run = g.run
                BY <1>1, <4>1, <4>2
            <4>4. QED
                BY <2>1, <3>2, <3>3, <3>4, <4>1, <4>3, KeyNamesFile
        <3>5. QED
            BY <3>1, <3>3, <3>4
    <2>11. \/ UNCHANGED numbered
           \/ \E r \in Runs, w \in Writers : TakeNumber(r, w)
        BY <1>1 DEF Next, Open, OpenFails, Close, Drop, Stutter, vars
    <2>12. \/ UNCHANGED store
           \/ \E r \in Runs, w \in Writers : Close(r, w)
        BY <1>1 DEF Next, Open, OpenFails, Drop, Stutter, vars
    <2>13. Folder(f.run, b)' = F
        BY <2>9, <2>11 DEF F, Folder, BatchOf
    <2>14. F \cap store' = F \cap store
        BY <2>10, <2>12
    <2>15. QED
        BY <2>13, <2>14 DEF F, b
<1>2. Inv /\ NumbersInv /\ OpenInv /\ [Next]_vars =>
        \A f \in completed :
          LET folder == Folder(f.run, BatchOf(f)) IN
            /\ files_per_folder > 0
            /\ \A r \in Runs : run_id[r] = run_id[f.run] => r = f.run
            /\ Cardinality(folder \cap completed) = files_per_folder
            => /\ Folder(f.run, BatchOf(f))' = folder
               /\ folder \cap store' = folder \cap store
    BY <1>1
<1>3. QED
    BY <1>2, LayoutInvariance, PTL DEF Spec, SealedFoldersStay

-----------------------------------------------------------------------------
(* The bucket. *)

(* Every upload is that of a numbered file whose upload began; a writer has *)
(* one file at most.                                                       *)
PartsInv ==
    /\ began \subseteq numbered
    /\ \A u \in uploads : u.file \in began
    /\ \A r \in Runs, w \in Writers : \A f, g \in active[r][w] : f = g
    /\ PartsExplained

Upload == [file : numbered, day : Nat]

(* What calcsize holds are uploads, and those it is about to abort are past *)
(* the cutoff, unless it was told to take them all.                        *)
AgeInv ==
    /\ today \in Nat
    /\ uploads \subseteq Upload
    /\ sweep \in [pc : {"off", "listing", "clearing", "done"},
                  mode : {"none", "keep", "stale", "force"},
                  found : SUBSET Upload, todo : SUBSET Upload,
                  failed : Nat, quiet : BOOLEAN]
    /\ sweep.pc \in {"off", "listing"} => sweep.todo = {}
    /\ \A u \in sweep.todo : sweep.mode = "force" \/ today - u.day > Cutoff

(* A sweep that began in a quiet bucket has every upload that is left on    *)
(* its list, and the list is empty when it ends.                           *)
QuietInv ==
    /\ sweep.quiet /\ sweep.pc # "off" => Idle
    /\ sweep.quiet /\ sweep.pc \in {"clearing", "done"} /\ sweep.mode = "force" /\ sweep.failed = 0
          => uploads \subseteq sweep.todo
    /\ sweep.pc = "done" => sweep.todo = {}
-----------------------------------------------------------------------------
(* Every writer's step is one of the layout, or leaves it alone. *)
LEMMA WriterRefines ==
    ASSUME NEW r \in Runs, NEW w \in Writers, Writer(r, w)
    PROVE  \/ Open(r, w) \/ OpenFails(r, w) \/ Close(r, w) \/ Drop(r, w)
           \/ UNCHANGED vars
BY DEF Writer, SinkOpen, BeginUpload, SinkClose, SinkCloseFails, Abandon, Leave

LEMMA StepRefines == [BucketNext]_bucketVars => [Next]_vars
<1> SUFFICES ASSUME [BucketNext]_bucketVars PROVE [Next]_vars
    OBVIOUS
<1>1. CASE \E r \in Runs, w \in Writers : Writer(r, w)
    BY <1>1, WriterRefines DEF Next
<1>2. CASE DayPasses \/ Calcsize
    BY <1>2 DEF DayPasses, Calcsize, StartListing, ListPage, AbortUpload, SweepEnds
<1>3. CASE Over \/ UNCHANGED bucketVars
    BY <1>3 DEF Over, bucketVars
<1>4. QED
    BY <1>1, <1>2, <1>3 DEF BucketNext

(* The bucket is written with the actions of the layout (open, close_active *)
(* and abandon_active in src/sink.rs), so what holds of those holds here.   *)
LEMMA BucketKeepsLayout == BucketSpec => Spec
<1>1. BucketInit => Init
    BY DEF BucketInit
<1>2. QED
    BY <1>1, StepRefines, PTL DEF BucketSpec, Spec

(* Nothing that happens to uploads lets a run overwrite its own objects.    *)
THEOREM UploadsKeepKeysApart == BucketSpec => []OnlySameIdOverwrites
BY BucketKeepsLayout, NoRunOverwritesItself, PTL

(* Uploads that fail or linger open no gap in the numbering of the files,   *)
THEOREM UploadsKeepFoldersPacked == BucketSpec => []FoldersPacked
BY BucketKeepsLayout, NumberingHasNoGaps, PTL

(* and a folder that was loaded stays as it was, calcsize or not.           *)
THEOREM UploadsKeepFoldersFinal == BucketSpec => SealedFoldersStay
BY BucketKeepsLayout, FullFoldersAreFinal, PTL

LEMMA BucketInv == BucketSpec => []Inv
<1>1. BucketInit => Inv
    BY InitInv DEF BucketInit
<1>2. QED
    BY <1>1, StepRefines, StepInv, PTL DEF BucketSpec
-----------------------------------------------------------------------------
(* The parts left behind. *)

(* What a step does to one writer's open file, and only to his. *)
LEMMA Emptied ==
    ASSUME Inv, NEW r \in Runs, NEW w \in Writers,
           active' = [active EXCEPT ![r][w] = {}]
    PROVE  \A q \in Runs, v \in Writers :
             active'[q][v] = IF q = r /\ v = w THEN {} ELSE active[q][v]
BY DEF Inv, TypeOK

LEMMA FileTyped == ASSUME Inv PROVE \A f \in numbered : f.run \in Runs /\ f.writer \in Writers
BY DEF Inv, TypeOK, File

LEMMA OpenParts ==
    ASSUME Inv, PartsInv, NEW r \in Runs, NEW w \in Writers, SinkOpen(r, w)
    PROVE  PartsInv'
<1>1. /\ TakeNumber(r, w) /\ active[r][w] = {} /\ numbered \subseteq numbered'
      /\ UNCHANGED debris
    BY DEF SinkOpen, Open, OpenFails, TakeNumber
<1>2. \A u \in uploads : u.file.run \in Runs /\ u.file.writer \in Writers
    BY FileTyped DEF PartsInv
<1>3. CASE active' = active
    BY <1>1, <1>3 DEF PartsInv, PartsExplained, debris
<1>4. CASE active' = [active EXCEPT ![r][w] = {NextFile(r, w)}]
    <2>1. \A q \in Runs, v \in Writers :
            active'[q][v] = IF q = r /\ v = w THEN {NextFile(r, w)} ELSE active[q][v]
        BY <1>4 DEF Inv, TypeOK
    <2>2. ASSUME NEW u \in uploads, u.file \in active[u.file.run][u.file.writer]
          PROVE  u.file \in active'[u.file.run][u.file.writer]
        BY <1>1, <1>2, <2>1, <2>2
    <2>3. uploads' = uploads /\ broken' = broken /\ gone' = gone /\ began' = began
        BY <1>1 DEF debris
    <2>4. PartsExplained'
        BY <2>2, <2>3 DEF PartsInv, PartsExplained
    <2>5. \A q \in Runs, v \in Writers : \A f, g \in active'[q][v] : f = g
        BY <2>1 DEF PartsInv
    <2>6. QED
        BY <1>1, <2>3, <2>4, <2>5 DEF PartsInv
<1>5. QED
    BY <1>3, <1>4 DEF SinkOpen, Open, OpenFails

LEMMA BeginParts ==
    ASSUME Inv, PartsInv, NEW r \in Runs, NEW w \in Writers, BeginUpload(r, w)
    PROVE  PartsInv'
<1>1. PICK f \in active[r][w] :
        /\ uploads' = uploads \cup {[file |-> f, day |-> today]}
        /\ began' = began \cup {f}
        /\ UNCHANGED <<vars, gone, broken>>
    BY DEF BeginUpload
<1>2. f \in numbered /\ f.run = r /\ f.writer = w
    BY DEF Inv, TypeOK, IndexInv
<1>3. active' = active /\ numbered' = numbered /\ gone' = gone /\ broken' = broken
    BY <1>1 DEF vars
<1>4. ASSUME NEW u \in uploads'
      PROVE  /\ u.file \in began'
             /\ \/ u.file \in active[u.file.run][u.file.writer]
                \/ u.file \in broken
                \/ <<u.file.run, u.file.writer>> \in gone
    <2>1. CASE u \in uploads
        BY <1>1, <2>1 DEF PartsInv, PartsExplained
    <2>2. CASE u = [file |-> f, day |-> today]
        BY <1>1, <1>2, <2>2
    <2>3. QED
        BY <1>1, <2>1, <2>2
<1>5. QED
    BY <1>1, <1>2, <1>3, <1>4 DEF PartsInv, PartsExplained

(* The writer's file goes, and its uploads go with it or are explained. *)
LEMMA EmptiedParts ==
    ASSUME Inv, PartsInv, NEW r \in Runs, NEW w \in Writers,
           active' = [active EXCEPT ![r][w] = {}],
           numbered' = numbered, began' = began,
           uploads' \subseteq uploads, broken \subseteq broken', gone \subseteq gone',
           \A u \in uploads' : u.file \in active[r][w]
                => u.file \in broken' \/ <<r, w>> \in gone'
    PROVE  PartsInv'
<1>1. \A q \in Runs, v \in Writers :
        active'[q][v] = IF q = r /\ v = w THEN {} ELSE active[q][v]
    BY Emptied
<1>2. \A u \in uploads : u.file.run \in Runs /\ u.file.writer \in Writers
    BY FileTyped DEF PartsInv
<1>3. ASSUME NEW u \in uploads'
      PROVE  \/ u.file \in active'[u.file.run][u.file.writer]
             \/ u.file \in broken'
             \/ <<u.file.run, u.file.writer>> \in gone'
    <2>1. CASE u.file.run = r /\ u.file.writer = w
        BY <2>1 DEF PartsInv, PartsExplained
    <2>2. CASE ~(u.file.run = r /\ u.file.writer = w)
        <3>1. active'[u.file.run][u.file.writer] = active[u.file.run][u.file.writer]
            BY <1>1, <1>2, <2>2
        <3>2. QED
            BY <3>1 DEF PartsInv, PartsExplained
    <2>3. QED
        BY <2>1, <2>2
<1>4. PartsExplained'
    BY <1>3 DEF PartsExplained
<1>5. QED
    BY <1>1, <1>4 DEF PartsInv

LEMMA WriterParts ==
    ASSUME Inv, PartsInv, NEW r \in Runs, NEW w \in Writers, Writer(r, w)
    PROVE  PartsInv'
<1>1. CASE SinkOpen(r, w)
    BY <1>1, OpenParts
<1>2. CASE BeginUpload(r, w)
    BY <1>2, BeginParts
<1>3. CASE SinkClose(r, w)
    <2>1. PICK f \in active[r][w] :
            /\ Close(r, w) /\ uploads' = uploads \ UploadsOf(f)
            /\ UNCHANGED <<began, gone, broken>>
        BY <1>3 DEF SinkClose
    <2>2. active' = [active EXCEPT ![r][w] = {}] /\ numbered' = numbered
        BY <2>1 DEF Close
    <2>3. \A u \in uploads' : u.file \notin active[r][w]
        BY <2>1 DEF UploadsOf, PartsInv
    <2>4. QED
        BY <2>1, <2>2, <2>3, EmptiedParts
<1>4. CASE SinkCloseFails(r, w)
    <2>1. /\ active' = [active EXCEPT ![r][w] = {}] /\ numbered' = numbered
          /\ broken' = broken \cup (active[r][w] \cap began)
          /\ UNCHANGED <<uploads, began, gone>>
        BY <1>4 DEF SinkCloseFails, Drop
    <2>2. \A u \in uploads' : u.file \in active[r][w] => u.file \in broken'
        BY <2>1 DEF PartsInv
    <2>3. QED
        BY <2>1, <2>2, EmptiedParts
<1>5. CASE Abandon(r, w)
    <2>1. /\ active' = [active EXCEPT ![r][w] = {}] /\ numbered' = numbered
          /\ UNCHANGED <<began, gone>>
          /\ \/ /\ uploads' = {u \in uploads : u.file \notin active[r][w]}
                /\ UNCHANGED broken
             \/ /\ broken' = broken \cup (active[r][w] \cap began)
                /\ UNCHANGED uploads
        BY <1>5 DEF Abandon, Drop
    <2>2. /\ uploads' \subseteq uploads /\ broken \subseteq broken'
          /\ \A u \in uploads' : u.file \in active[r][w] => u.file \in broken'
        BY <2>1 DEF PartsInv
    <2>3. QED
        BY <2>1, <2>2, EmptiedParts
<1>6. CASE Leave(r, w)
    <2>1. /\ active' = [active EXCEPT ![r][w] = {}] /\ numbered' = numbered
          /\ gone' = gone \cup {<<r, w>>}
          /\ UNCHANGED <<uploads, began, broken>>
        BY <1>6 DEF Leave, Drop
    <2>2. QED
        BY <2>1, EmptiedParts
<1>7. QED
    BY <1>1, <1>2, <1>3, <1>4, <1>5, <1>6 DEF Writer

LEMMA StepParts == Inv /\ PartsInv /\ [BucketNext]_bucketVars => PartsInv'
<1> SUFFICES ASSUME Inv, PartsInv, [BucketNext]_bucketVars PROVE PartsInv'
    OBVIOUS
<1>1. CASE \E r \in Runs, w \in Writers : Writer(r, w)
    BY <1>1, WriterParts
<1>2. CASE UNCHANGED <<vars, began, gone, broken>> /\ uploads' \subseteq uploads
    BY <1>2 DEF vars, PartsInv, PartsExplained
<1>3. CASE DayPasses \/ Calcsize
    BY <1>2, <1>3
       DEF DayPasses, Calcsize, StartListing, ListPage, AbortUpload, SweepEnds, debris
<1>4. CASE Over \/ UNCHANGED bucketVars
    BY <1>2, <1>4 DEF Over, bucketVars, debris
<1>5. QED
    BY <1>1, <1>3, <1>4 DEF BucketNext

LEMMA InitParts == BucketInit => PartsInv
BY DEF BucketInit, Init, PartsInv, PartsExplained

(* abandon_active "aborts its multipart upload so it does not linger as      *)
(* billable parts", in every schedule: what lingers is a file still open,   *)
(* an upload the store refused to end, or one its worker walked away from.  *)
THEOREM NoUnexplainedParts == BucketSpec => []PartsExplained
<1>1. PartsInv => PartsExplained
    BY DEF PartsInv
<1>2. QED
    BY <1>1, InitParts, StepParts, BucketInv, PTL DEF BucketSpec
-----------------------------------------------------------------------------
(* What calcsize aborts. *)

LEMMA InitAge == BucketInit => AgeInv
BY DEF BucketInit, Init, AgeInv

LEMMA WriterAge ==
    ASSUME Inv, AgeInv, NEW r \in Runs, NEW w \in Writers, Writer(r, w)
    PROVE  AgeInv'
<1>1. /\ today' = today /\ sweep' = sweep /\ numbered \subseteq numbered'
    BY DEF Writer, SinkOpen, Open, OpenFails, TakeNumber, BeginUpload, vars,
           SinkClose, Close, SinkCloseFails, Abandon, Leave, Drop
<1>2. Upload \subseteq Upload'
    BY <1>1 DEF Upload
<1>3. CASE uploads' \subseteq uploads
    BY <1>1, <1>2, <1>3 DEF AgeInv
<1>4. CASE BeginUpload(r, w)
    <2>1. PICK f \in active[r][w] : uploads' = uploads \cup {[file |-> f, day |-> today]}
        BY <1>4 DEF BeginUpload
    <2>2. [file |-> f, day |-> today] \in Upload
        BY <2>1 DEF Inv, TypeOK, AgeInv, Upload
    <2>3. QED
        BY <1>1, <1>2, <2>1, <2>2 DEF AgeInv
<1>5. QED
    BY <1>3, <1>4 DEF Writer, SinkOpen, SinkClose, SinkCloseFails, Abandon, Leave, debris

LEMMA StepAge == Inv /\ AgeInv /\ [BucketNext]_bucketVars => AgeInv'
<1> SUFFICES ASSUME Inv, AgeInv, [BucketNext]_bucketVars PROVE AgeInv'
    OBVIOUS
<1>1. CASE \E r \in Runs, w \in Writers : Writer(r, w)
    BY <1>1, WriterAge
<1>2. CASE DayPasses
    <2>1. /\ today' = today + 1 /\ sweep' = sweep /\ uploads' = uploads /\ numbered' = numbered
        BY <1>2 DEF DayPasses, vars, debris
    <2>2. ASSUME NEW u \in sweep.todo, sweep.mode # "force"
          PROVE  today' - u.day > Cutoff
        <3>1. u \in Upload
            BY DEF AgeInv
        <3>2. u.day \in Nat /\ today \in Nat /\ today - u.day > Cutoff
            BY <2>2, <3>1 DEF AgeInv, Upload
        <3>3. QED
            BY <2>1, <3>2, BucketAssumption
    <2>3. QED
        BY <2>1, <2>2 DEF AgeInv, Upload
<1>3. CASE Calcsize
    <2>1. /\ today' = today /\ numbered' = numbered /\ uploads' \subseteq uploads
        BY <1>3 DEF Calcsize, StartListing, ListPage, AbortUpload, SweepEnds, vars, debris
    <2>2. Upload' = Upload
        BY <2>1 DEF Upload
    <2>3. CASE StartListing
        <3>1. PICK m \in Modes :
                sweep' = [sweep EXCEPT !.pc = "listing", !.mode = m, !.quiet = Idle]
            BY <2>3 DEF StartListing
        <3>2. /\ sweep'.pc = "listing" /\ sweep'.mode = m /\ sweep'.quiet = Idle
              /\ sweep'.todo = sweep.todo /\ sweep.todo = {}
              /\ sweep' \in [pc : {"off", "listing", "clearing", "done"},
                              mode : {"none", "keep", "stale", "force"},
                              found : SUBSET Upload, todo : SUBSET Upload,
                              failed : Nat, quiet : BOOLEAN]
            BY <2>3, <3>1, BucketAssumption DEF StartListing, AgeInv, Idle
        <3>3. QED
            BY <2>1, <2>2, <3>2 DEF AgeInv
    <2>4. CASE ListPage
        <3>1. PICK page \in SUBSET (uploads \ sweep.found) :
                /\ sweep.pc = "listing"
                /\ sweep' = IF ~LastPage(page) THEN [sweep EXCEPT !.found = @ \cup page]
                            ELSE LET found == sweep.found \cup page IN
                                 [sweep EXCEPT !.found = {},
                                     !.pc = IF sweep.mode = "keep" THEN "done" ELSE "clearing",
                                     !.todo = IF sweep.mode = "keep" THEN {} ELSE Stale(found)]
            BY <2>4 DEF ListPage
        <3>2. sweep.found \cup page \subseteq Upload
            BY DEF AgeInv
        <3>3. /\ Stale(sweep.found \cup page) \subseteq Upload
              /\ \A u \in Stale(sweep.found \cup page) :
                    sweep.mode = "force" \/ today - u.day > Cutoff
            BY <3>2 DEF Stale
        <3>4. CASE ~LastPage(page)
            <4>1. sweep' = [sweep EXCEPT !.found = sweep.found \cup page]
                BY <3>1, <3>4
            <4>2. QED
                BY <2>1, <2>2, <3>1, <3>2, <4>1 DEF AgeInv
        <3>5. CASE LastPage(page)
            <4>1. CASE sweep.mode = "keep"
                <5>1. sweep' = [sweep EXCEPT !.found = {}, !.pc = "done", !.todo = {}]
                    BY <3>1, <3>5, <4>1
                <5>2. QED
                    BY <2>1, <2>2, <5>1 DEF AgeInv
            <4>2. CASE sweep.mode # "keep"
                <5>1. sweep' = [sweep EXCEPT !.found = {}, !.pc = "clearing",
                                             !.todo = Stale(sweep.found \cup page)]
                    BY <3>1, <3>5, <4>2
                <5>2. QED
                    BY <2>1, <2>2, <3>3, <5>1 DEF AgeInv
            <4>3. QED
                BY <4>1, <4>2
        <3>6. QED
            BY <3>4, <3>5
    <2>5. CASE AbortUpload
        <3>1. PICK u \in sweep.todo :
                /\ sweep.pc = "clearing"
                /\ \/ sweep' = [sweep EXCEPT !.todo = sweep.todo \ {u}]
                   \/ sweep' = [sweep EXCEPT !.todo = sweep.todo \ {u},
                                             !.failed = sweep.failed + 1]
            BY <2>5 DEF AbortUpload
        <3>2. /\ sweep'.todo \subseteq sweep.todo /\ sweep'.mode = sweep.mode
              /\ sweep'.pc = "clearing"
            BY <3>1 DEF AgeInv
        <3>3. sweep' \in [pc : {"off", "listing", "clearing", "done"},
                          mode : {"none", "keep", "stale", "force"},
                          found : SUBSET Upload, todo : SUBSET Upload,
                          failed : Nat, quiet : BOOLEAN]
            <4>1. CASE sweep' = [sweep EXCEPT !.todo = sweep.todo \ {u}]
                BY <4>1 DEF AgeInv
            <4>2. CASE sweep' = [sweep EXCEPT !.todo = sweep.todo \ {u},
                                              !.failed = sweep.failed + 1]
                <5>1. sweep.failed + 1 \in Nat /\ sweep.todo \ {u} \in SUBSET Upload
                    BY DEF AgeInv
                <5>2. QED
                    BY <4>2, <5>1 DEF AgeInv
            <4>3. QED
                BY <3>1, <4>1, <4>2
        <3>4. QED
            BY <2>1, <2>2, <3>2, <3>3 DEF AgeInv
    <2>6. CASE SweepEnds
        BY <2>1, <2>2, <2>6 DEF SweepEnds, AgeInv
    <2>7. QED
        BY <1>3, <2>3, <2>4, <2>5, <2>6 DEF Calcsize
<1>4. CASE Over \/ UNCHANGED bucketVars
    <2>1. today' = today /\ sweep' = sweep /\ uploads' = uploads /\ numbered' = numbered
        BY <1>4 DEF Over, bucketVars, vars, debris
    <2>2. QED
        BY <2>1 DEF AgeInv, Upload
<1>5. QED
    BY <1>1, <1>2, <1>3, <1>4 DEF BucketNext

(* An upload that goes while its file is open was aborted by calcsize. *)
LEMMA OnlyCalcsizeTakes ==
    ASSUME Inv, AgeInv, [BucketNext]_bucketVars,
           NEW u \in uploads \ uploads', u.file \in active'[u.file.run][u.file.writer]
    PROVE  sweep.mode = "force" \/ today - u.day > Cutoff
<1>1. CASE AbortUpload
    BY <1>1 DEF AbortUpload, AgeInv
<1>2. CASE \E r \in Runs, w \in Writers : Writer(r, w)
    <2>1. PICK r \in Runs, w \in Writers : Writer(r, w)
        BY <1>2
    <2>2. SinkClose(r, w) \/ Abandon(r, w)
        BY <2>1 DEF Writer, SinkOpen, BeginUpload, SinkCloseFails, Leave, debris
    <2>3. active' = [active EXCEPT ![r][w] = {}] /\ u.file \in active[r][w]
        BY <2>2 DEF SinkClose, UploadsOf, Close, Abandon, Drop
    <2>4. u.file.run = r /\ u.file.writer = w
        BY <2>3 DEF Inv, IndexInv
    <2>5. active'[r][w] = {}
        BY <2>3 DEF Inv, TypeOK
    <2>6. QED
        BY <2>4, <2>5
<1>3. CASE ~AbortUpload /\ ~\E r \in Runs, w \in Writers : Writer(r, w)
    BY <1>3 DEF BucketNext, DayPasses, Calcsize, StartListing, ListPage, SweepEnds,
                Over, bucketVars, debris
<1>4. QED
    BY <1>1, <1>2, <1>3

(* calcsize leaves the upload of a file being written alone until it is      *)
(* older than the cutoff ("left intact"), unless --force-abort is given:    *)
(* whatever the pages it reads and the days that pass meanwhile.           *)
THEOREM FreshUploadsSpared == BucketSpec => SparesTheFresh
<1>1. Inv /\ AgeInv /\ [BucketNext]_bucketVars =>
        [\A u \in uploads \ uploads' :
            u.file \in active'[u.file.run][u.file.writer]
            => sweep.mode = "force" \/ today - u.day > Cutoff]_bucketVars
    BY OnlyCalcsizeTakes
<1>2. QED
    BY <1>1, InitAge, StepAge, BucketInv, PTL DEF BucketSpec, SparesTheFresh
-----------------------------------------------------------------------------
(* What --force-abort leaves. *)

LEMMA InitQuiet == BucketInit => QuietInv
BY DEF BucketInit, QuietInv

(* Nobody writes in a quiet bucket. *)
LEMMA IdleWriter ==
    ASSUME Idle, NEW r \in Runs, NEW w \in Writers PROVE ~Writer(r, w)
<1>1. /\ active[r][w] = {}
      /\ \/ file_index[r][w] = MaxFiles \/ <<r, w>> \in gone
         \/ Cardinality(numbered) = MaxNumbered
    BY DEF Idle
<1>2. ~SinkOpen(r, w)
    BY <1>1, ObjectLayoutAssumption, BucketAssumption
       DEF SinkOpen, Open, OpenFails, TakeNumber
<1>3. ~(BeginUpload(r, w) \/ SinkClose(r, w))
    BY <1>1 DEF BeginUpload, SinkClose
<1>4. ~(SinkCloseFails(r, w) \/ Abandon(r, w) \/ Leave(r, w))
    BY <1>1 DEF SinkCloseFails, Abandon, Leave, Drop
<1>5. QED
    BY <1>2, <1>3, <1>4 DEF Writer

LEMMA StepQuiet == AgeInv /\ QuietInv /\ [BucketNext]_bucketVars => QuietInv'
<1> SUFFICES ASSUME AgeInv, QuietInv, [BucketNext]_bucketVars PROVE QuietInv'
    OBVIOUS
<1>1. CASE \E r \in Runs, w \in Writers : Writer(r, w)
    <2>1. sweep' = sweep /\ ~Idle
        BY <1>1, IdleWriter DEF Writer
    <2>2. QED
        BY <2>1 DEF QuietInv
<1>2. CASE DayPasses \/ Over \/ UNCHANGED bucketVars
    <2>1. UNCHANGED <<vars, debris, sweep>>
        BY <1>2 DEF DayPasses, Over, bucketVars
    <2>2. QED
        BY <2>1 DEF QuietInv, Idle, vars, debris
<1>3. CASE Calcsize
    <2>1. UNCHANGED <<vars, gone>>
        BY <1>3 DEF Calcsize, StartListing, ListPage, AbortUpload, SweepEnds, debris
    <2>2. Idle' = Idle
        BY <2>1 DEF Idle, vars
    <2>3. CASE StartListing
        <3>1. sweep'.pc = "listing" /\ sweep'.quiet = Idle
            BY <2>3 DEF StartListing, AgeInv
        <3>2. QED
            BY <2>2, <3>1 DEF QuietInv
    <2>4. CASE ListPage
        <3>1. PICK page \in SUBSET (uploads \ sweep.found) :
                /\ sweep.pc = "listing" /\ uploads' = uploads
                /\ sweep' = IF ~LastPage(page) THEN [sweep EXCEPT !.found = @ \cup page]
                            ELSE LET found == sweep.found \cup page IN
                                 [sweep EXCEPT !.found = {},
                                     !.pc = IF sweep.mode = "keep" THEN "done" ELSE "clearing",
                                     !.todo = IF sweep.mode = "keep" THEN {} ELSE Stale(found)]
            BY <2>4 DEF ListPage, debris
        <3>2. CASE ~LastPage(page)
            <4>1. sweep'.pc = "listing" /\ sweep'.quiet = sweep.quiet
                BY <3>1, <3>2 DEF AgeInv
            <4>2. QED
                BY <2>2, <3>1, <4>1 DEF QuietInv
        <3>3. CASE LastPage(page) /\ sweep.mode = "keep"
            <4>1. sweep' = [sweep EXCEPT !.found = {}, !.pc = "done", !.todo = {}]
                BY <3>1, <3>3
            <4>2. /\ sweep'.mode = "keep" /\ sweep'.todo = {}
                  /\ sweep'.quiet = sweep.quiet
                BY <3>3, <4>1 DEF AgeInv
            <4>3. QED
                BY <2>2, <3>1, <4>2 DEF QuietInv
        <3>4. CASE LastPage(page) /\ sweep.mode # "keep"
            <4>1. sweep' = [sweep EXCEPT !.found = {}, !.pc = "clearing",
                                         !.todo = Stale(sweep.found \cup page)]
                BY <3>1, <3>4
            <4>2. /\ sweep'.pc = "clearing" /\ sweep'.mode = sweep.mode
                  /\ sweep'.todo = Stale(sweep.found \cup page)
                  /\ sweep'.quiet = sweep.quiet
                BY <4>1 DEF AgeInv
            <4>3. sweep.mode = "force" => uploads \subseteq sweep'.todo
                BY <3>4, <4>2 DEF LastPage, Stale
            <4>4. QED
                BY <2>2, <3>1, <4>2, <4>3 DEF QuietInv
        <3>5. QED
            BY <3>2, <3>3, <3>4
    <2>5. CASE AbortUpload
        <3>1. PICK u \in sweep.todo :
                /\ sweep.pc = "clearing"
                /\ \/ /\ uploads' = uploads \ {u}
                      /\ sweep' = [sweep EXCEPT !.todo = sweep.todo \ {u}]
                   \/ /\ uploads' = uploads
                      /\ sweep' = [sweep EXCEPT !.todo = sweep.todo \ {u},
                                                !.failed = sweep.failed + 1]
            BY <2>5 DEF AbortUpload
        <3>2. CASE /\ uploads' = uploads \ {u}
                   /\ sweep' = [sweep EXCEPT !.todo = sweep.todo \ {u}]
            <4>1. /\ sweep'.pc = "clearing" /\ sweep'.mode = sweep.mode
                  /\ sweep'.todo = sweep.todo \ {u} /\ sweep'.failed = sweep.failed
                  /\ sweep'.quiet = sweep.quiet
                BY <3>1, <3>2 DEF AgeInv
            <4>2. QED
                BY <2>2, <3>1, <3>2, <4>1 DEF QuietInv
        <3>3. CASE sweep' = [sweep EXCEPT !.todo = sweep.todo \ {u},
                                          !.failed = sweep.failed + 1]
            <4>1. /\ sweep'.pc = "clearing" /\ sweep'.failed = sweep.failed + 1
                  /\ sweep.failed \in Nat /\ sweep'.quiet = sweep.quiet
                BY <3>1, <3>3 DEF AgeInv
            <4>2. sweep'.failed # 0
                BY <4>1
            <4>3. QED
                BY <2>2, <3>1, <4>1, <4>2 DEF QuietInv
        <3>4. QED
            BY <3>1, <3>2, <3>3
    <2>6. CASE SweepEnds
        <3>1. /\ sweep.pc = "clearing" /\ sweep.todo = {} /\ uploads' = uploads
              /\ sweep' = [sweep EXCEPT !.pc = "done"]
            BY <2>6 DEF SweepEnds, debris
        <3>2. /\ sweep'.pc = "done" /\ sweep'.todo = {} /\ sweep'.mode = sweep.mode
              /\ sweep'.failed = sweep.failed /\ sweep'.quiet = sweep.quiet
            BY <3>1 DEF AgeInv
        <3>3. QED
            BY <2>2, <3>1, <3>2 DEF QuietInv
    <2>7. QED
        BY <1>3, <2>3, <2>4, <2>5, <2>6 DEF Calcsize
<1>4. QED
    BY <1>1, <1>2, <1>3 DEF BucketNext

(* --force-abort after the last writer has ended takes every upload, however *)
(* many there are and whatever pages the store lists them in, unless it     *)
(* says that one could not be aborted.                                      *)
THEOREM ForcedSweepEmpties == BucketSpec => []SweptClean
<1>1. QuietInv => SweptClean
    BY DEF QuietInv, SweptClean
<1>2. QED
    BY <1>1, InitAge, StepAge, InitQuiet, StepQuiet, BucketInv, PTL DEF BucketSpec
=============================================================================
