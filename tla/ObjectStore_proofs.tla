------------------------- MODULE ObjectStore_proofs -------------------------
(***************************************************************************)
(* Proofs about ObjectStore, for any tree, any number of classes, calls,   *)
(* failures and restarts.  Whatever rules the application breaks, a save   *)
(* that is cut short leaves the object in its backup file, if the old      *)
(* archive could be renamed, and what it was told is loaded has all of its *)
(* dependencies.  If only objects are saved that the application was told  *)
(* are in memory (NotBlind), a saved tree can be loaded.  If it keeps all  *)
(* of its rules (Careful), what it was told was loaded is one whole state: *)
(* what was saved last, or what a save that was cut short since left.      *)
(***************************************************************************)
EXTENDS ObjectStore, AgQueue_proofs, WellFoundedInduction

\* The functions that the argument is about have an entry for every object.
Shape ==
  /\ file = [o \in Objects |-> file[o]] /\ bak = [o \in Objects |-> bak[o]]
  /\ saved = [o \in Objects |-> saved[o]]
  /\ cut \in [Objects -> 0 .. 2]

\* A dataset: a value for each class.
IsDataset(d) == d = [i \in Classes |-> d[i]]

\* What has been written of the object o that is being saved is what is in memory.
Written(o) ==
  LET f == file[o] IN
  /\ IsDataset(f.data)
  /\ f.len \in 2 .. Whole
  /\ f.gen = gen[o]
  /\ \A i \in Classes : i + 2 <= f.len => f.data[i] = data[o][i]

\* An object of which the datafile has been moved away counts as cut.
Phases ==
  /\ job.at \in {"idle", "backup", "open", "class"}
  /\ \A o \in Objects : o = Head(job.todo) =>
       /\ At("open") => cut[o] >= 1
       /\ At("class") => cut[o] >= 1 /\ Written(o)

SaveInv == Shape /\ Phases /\ Recoverable

LEMMA WholeNat == NHier \in Nat /\ Whole \in Nat /\ Whole >= 3
  BY BoundsAssumption DEF Whole

\* Calls that neither write files nor take part in a save.
LEMMA Quiet ==
  ASSUME SaveInv, Idle, UNCHANGED <<file, bak, unmoved, saved, cut, job>>
  PROVE  SaveInv'
<1>1. job.at = "idle"  BY DEF Idle, NoJob
<1>2. Shape' /\ Recoverable'  BY DEF SaveInv, Shape, Recoverable, Holds, Complete
<1>3. Phases'  BY <1>1 DEF SaveInv, Phases, At
<1> QED  BY <1>2, <1>3 DEF SaveInv

\* A call that starts a save.
LEMMA Starts ==
  ASSUME SaveInv, NEW op, NEW todo, Begins(op, todo)
  PROVE  SaveInv'
<1>1. UNCHANGED <<file, bak, unmoved, saved, cut>> /\ job'.at = "backup"
  BY DEF Begins, disk, belief
<1>2. Shape' /\ Recoverable'  BY <1>1 DEF SaveInv, Shape, Recoverable, Holds, Complete
<1>3. Phases'  BY <1>1 DEF Phases, At
<1> QED  BY <1>2, <1>3 DEF SaveInv

\* The program ends, and nothing was being written.
LEMMA Ends ==
  ASSUME SaveInv, Restarts, UNCHANGED file
  PROVE  SaveInv'
<1>1. UNCHANGED <<bak, unmoved, saved, cut>> /\ job'.at = "idle"  BY DEF Restarts, NoJob
<1>2. Shape' /\ Recoverable'  BY <1>1 DEF SaveInv, Shape, Recoverable, Holds, Complete
<1>3. Phases'  BY <1>1 DEF Phases, At
<1> QED  BY <1>2, <1>3 DEF SaveInv

LEMMA InitSaveInv == Init => SaveInv
<1> SUFFICES ASSUME Init PROVE SaveInv  OBVIOUS
<1>1. Shape  BY DEF Init, Shape
<1>2. Phases  BY DEF Init, Phases, NoJob, At
<1>3. Recoverable
  <2> SUFFICES ASSUME NEW o \in Objects, saved[o] # Missing
               PROVE  Holds(file[o], saved[o])
    BY DEF Recoverable, Init
  <2>1. saved[o] = Fresh /\ file[o] = NewArchive(o)  BY DEF Init
  <2>2. NewArchive(o) # Missing  BY WholeNat DEF NewArchive, Missing
  <2> QED  BY <2>1, <2>2 DEF Holds, Complete, NewArchive, Fresh, Nothing
<1> QED  BY <1>1, <1>2, <1>3 DEF SaveInv

\* A complete datafile becomes the backup; a second save begun in a row gives up both.
LEMMA BackupStep == SaveInv /\ Backup => SaveInv'
<1> SUFFICES ASSUME SaveInv, Backup PROVE SaveInv'  OBVIOUS
<1> DEFINE h == Head(job.todo)
<1>1. /\ cut' = [cut EXCEPT ![h] = IF @ < 2 THEN @ + 1 ELSE 2]
      /\ saved' = saved /\ job' = [job EXCEPT !.at = "open"]
  BY DEF Backup, Goes
<1>7. \/ /\ bak' = IF file[h] # Missing THEN [bak EXCEPT ![h] = file[h]] ELSE bak
         /\ file' = [file EXCEPT ![h] = Missing]
         /\ unmoved' = unmoved \ {h}
      \/ unmoved' = unmoved \cup {h} /\ UNCHANGED <<file, bak>>
  BY DEF Backup, BackupObjectFile
<1>2. Shape'
  <2>1. cut' \in [Objects -> 0 .. 2]
    <3>1. cut \in [Objects -> 0 .. 2]  BY DEF SaveInv, Shape
    <3>2. cut' = [o \in Objects |-> IF o = h THEN (IF cut[o] < 2 THEN cut[o] + 1 ELSE 2) ELSE cut[o]]
      BY <1>1, <3>1
    <3> HIDE DEF h
    <3> QED  BY <3>1, <3>2
  <2>2. file' = [o \in Objects |-> file'[o]]  BY <1>7 DEF SaveInv, Shape
  <2>3. bak' = [o \in Objects |-> bak'[o]]
    <3>1. CASE file[h] = Missing  BY <1>7, <3>1 DEF SaveInv, Shape
    <3>2. CASE file[h] # Missing  BY <1>7, <3>2 DEF SaveInv, Shape
    <3> QED  BY <3>1, <3>2
  <2>4. saved' = [o \in Objects |-> saved'[o]]  BY <1>1 DEF SaveInv, Shape
  <2> QED  BY <2>1, <2>2, <2>3, <2>4 DEF Shape
<1>3. \A o \in Objects : o = h => cut'[o] >= 1  BY <1>1 DEF SaveInv, Shape
<1>4. job'.at = "open" /\ Head(job'.todo) = h
  <2>1. job.at = "backup"  BY DEF Backup, At
  <2> QED  BY <1>1, <2>1
<1>5. Phases'  BY <1>3, <1>4 DEF Phases, At
<1>6. Recoverable'
  <2> SUFFICES ASSUME NEW o \in Objects, saved[o] # Missing
               PROVE  /\ cut'[o] = 0 => Holds(file'[o], saved[o])
                      /\ cut'[o] = 1 /\ o \notin unmoved' => Holds(bak'[o], saved[o])
    BY <1>1 DEF Recoverable, Holds, Complete
  <2>1. /\ cut[o] = 0 => Holds(file[o], saved[o])
        /\ cut[o] = 1 /\ o \notin unmoved => Holds(bak[o], saved[o])
    BY DEF SaveInv, Recoverable
  <2>2. CASE o # h
    <3>1. cut'[o] = cut[o] /\ file'[o] = file[o] /\ bak'[o] = bak[o]
      BY <1>1, <1>7, <2>2 DEF SaveInv, Shape
    <3>2. o \in unmoved <=> o \in unmoved'  BY <1>7, <2>2
    <3> QED  BY <2>1, <3>1, <3>2
  <2>3. CASE o = h
    <3>1. cut[o] \in 0 .. 2 /\ cut'[o] = IF cut[o] < 2 THEN cut[o] + 1 ELSE 2
      BY <1>1, <2>3 DEF SaveInv, Shape
    <3>2. CASE cut[o] = 0
      <4>1. file[o] # Missing  BY <2>1, <3>2 DEF Holds, Complete
      <4>2. bak'[o] = file[o] \/ o \in unmoved'
        BY <1>7, <2>3, <4>1 DEF SaveInv, Shape
      <4> QED  BY <2>1, <3>1, <3>2, <4>2
    <3>3. CASE cut[o] # 0
      BY <3>1, <3>3
    <3> QED  BY <3>2, <3>3
  <2> QED  BY <2>2, <2>3
<1> QED  BY <1>2, <1>5, <1>6 DEF SaveInv

\* The datafile of an object of which a save was begun may be anything.
LEMMA FileMayChange ==
  ASSUME SaveInv, NEW h, NEW v, \A o \in Objects : o = h => cut[o] >= 1,
         file' = [file EXCEPT ![h] = v], UNCHANGED <<bak, unmoved, saved, cut>>
  PROVE  Shape' /\ Recoverable'
<1>1. Shape'  BY DEF SaveInv, Shape
<1>2. Recoverable'
  <2> SUFFICES ASSUME NEW o \in Objects, saved[o] # Missing
               PROVE  /\ cut[o] = 0 => Holds(file'[o], saved[o])
                      /\ cut[o] = 1 /\ o \notin unmoved => Holds(bak[o], saved[o])
    BY DEF Recoverable, Holds, Complete
  <2>1. /\ cut[o] = 0 => Holds(file[o], saved[o])
        /\ cut[o] = 1 /\ o \notin unmoved => Holds(bak[o], saved[o])
    BY DEF SaveInv, Recoverable
  <2>2. o # h => file'[o] = file[o]  BY DEF SaveInv, Shape
  <2> QED  BY <2>1, <2>2 DEF SaveInv, Shape
<1> QED  BY <1>1, <1>2

LEMMA SaveFailsStep == SaveInv /\ SaveFails => SaveInv'
<1> SUFFICES ASSUME SaveInv, SaveFails PROVE SaveInv'  OBVIOUS
<1>1. UNCHANGED <<file, bak, unmoved, saved, cut>> /\ job'.at = "idle"
  BY DEF SaveFails, NoJob, disk, belief
<1>2. Shape' /\ Recoverable'  BY <1>1 DEF SaveInv, Shape, Recoverable, Holds, Complete
<1>3. Phases'  BY <1>1 DEF Phases, At
<1> QED  BY <1>2, <1>3 DEF SaveInv

LEMMA SerializeGenericStep == SaveInv /\ SerializeGeneric => SaveInv'
<1> SUFFICES ASSUME SaveInv, SerializeGeneric PROVE SaveInv'  OBVIOUS
<1> DEFINE h == Head(job.todo)
           a == [len |-> 2, gen |-> gen[h], data |-> Nothing,
                 deps |-> {d \in Objects : deps[h][d] # "none"},
                 kids |-> IF h = Root THEN kids ELSE <<>>]
<1>1. /\ file' = [file EXCEPT ![h] = a] /\ job' = [job EXCEPT !.at = "class"] /\ job.at = "open"
      /\ UNCHANGED <<bak, unmoved, saved, cut, gen, data>>
  BY DEF SerializeGeneric, Goes, At, memory, belief
<1>2. \A o \in Objects : o = h => cut[o] >= 1  BY <1>1 DEF SaveInv, Phases, At
<1>3. Shape' /\ Recoverable'
  <2> HIDE DEF a, h
  <2> QED  BY <1>1, <1>2, FileMayChange
<1>4. job'.at = "class" /\ Head(job'.todo) = h  BY <1>1
<1>5. ASSUME NEW o \in Objects, o = h PROVE Written(o)'
  <2>1. file'[o] = a  BY <1>1, <1>5 DEF SaveInv, Shape
  <2>2. IsDataset(a.data)  BY DEF Nothing, IsDataset
  <2>3. 2 \in 2 .. Whole /\ \A i \in Classes : ~(i + 2 <= 2)  BY WholeNat DEF Classes
  <2> QED  BY <1>1, <1>5, <2>1, <2>2, <2>3 DEF Written
<1>6. Phases'  BY <1>1, <1>2, <1>4, <1>5 DEF Phases, At
<1> QED  BY <1>3, <1>6 DEF SaveInv

\* Writing one more class keeps what was written, and adds that class.
LEMMA ClassWritten ==
  ASSUME NEW f, NEW d, IsDataset(f.data),
         f.len \in 2 .. Whole, f.len < Whole,
         \A i \in Classes : i + 2 <= f.len => f.data[i] = d[i],
         NEW a, a = WithClass(f, f.len - 1, d[f.len - 1])
  PROVE  /\ a.len = f.len + 1 /\ a.len \in 2 .. Whole /\ a.gen = f.gen
         /\ IsDataset(a.data)
         /\ \A i \in Classes : i + 2 <= a.len => a.data[i] = d[i]
<1> DEFINE n == f.len - 1
<1>1. a.len = f.len + 1 /\ a.gen = f.gen /\ a.data = [f.data EXCEPT ![n] = d[n]]
  BY DEF WithClass
<1>2. f.len \in Int /\ a.len \in 2 .. Whole  BY <1>1, WholeNat
<1>3. a.data = [i \in Classes |-> IF i = n THEN d[n] ELSE f.data[i]]
  <2> HIDE DEF n
  <2> QED  BY <1>1 DEF IsDataset
<1>4. ASSUME NEW i \in Classes, i + 2 <= a.len PROVE a.data[i] = d[i]
  <2>1. CASE i = n
    <3> HIDE DEF n
    <3> QED  BY <1>3, <2>1
  <2>2. CASE i # n
    <3>1. i + 2 <= f.len  BY <1>1, <1>2, <1>4, <2>2 DEF Classes
    <3>2. a.data[i] = f.data[i]  BY <1>3, <2>2
    <3> QED  BY <3>1, <3>2
  <2> QED  BY <2>1, <2>2
<1>5. IsDataset(a.data)  BY <1>3 DEF IsDataset
<1> QED  BY <1>1, <1>2, <1>4, <1>5

LEMMA SerializeClassStep == SaveInv /\ SerializeClass => SaveInv'
<1> SUFFICES ASSUME SaveInv, SerializeClass PROVE SaveInv'  OBVIOUS
<1> DEFINE h == Head(job.todo)
           f == file[h]
           i == f.len - 1
           a == WithClass(f, i, data[h][i])
<1>1. /\ job.at = "class" /\ f.len < Whole
      /\ UNCHANGED <<bak, unmoved, saved, cut, gen, data, job>>
  BY DEF SerializeClass, At, memory, belief
<1>2. \A o \in Objects : o = h => cut[o] >= 1  BY <1>1 DEF SaveInv, Phases, At
<1>3. CASE h \in Objects
  <2>1. Written(h)  BY <1>1, <1>3 DEF SaveInv, Phases, At
  <2>2. file' = [file EXCEPT ![h] = a]
    <3>1. file' = [file EXCEPT ![h] = WithClass(@, i, data[h][i])]  BY DEF SerializeClass
    <3> QED  BY <3>1
  <2>3. file'[h] = a  BY <1>3, <2>2 DEF SaveInv, Shape
  <2>4. /\ IsDataset(f.data) /\ f.len \in 2 .. Whole /\ f.gen = gen[h]
        /\ \A k \in Classes : k + 2 <= f.len => f.data[k] = data[h][k]
    BY <2>1 DEF Written
  <2>5. /\ a.len = f.len + 1 /\ a.len \in 2 .. Whole /\ a.gen = f.gen
        /\ IsDataset(a.data)
        /\ \A k \in Classes : k + 2 <= a.len => a.data[k] = data[h][k]
    <3> DEFINE m == data[h]
    <3>1. a = WithClass(f, f.len - 1, m[f.len - 1])  OBVIOUS
    <3>2. /\ IsDataset(f.data) /\ f.len \in 2 .. Whole /\ f.len < Whole
          /\ \A k \in Classes : k + 2 <= f.len => f.data[k] = m[k]
      BY <1>1, <2>4
    <3> HIDE DEF a, f, m
    <3>3. /\ a.len = f.len + 1 /\ a.len \in 2 .. Whole /\ a.gen = f.gen
          /\ IsDataset(a.data)
          /\ \A k \in Classes : k + 2 <= a.len => a.data[k] = m[k]
      BY ONLY <3>1, <3>2, ClassWritten
    <3> QED  BY <3>3 DEF m
  <2>7. Written(h)'
    <3>1. a.gen = gen[h]  BY <2>4, <2>5
    <3>2. gen'[h] = gen[h] /\ data'[h] = data[h]  BY <1>1
    <3> HIDE DEF a, f
    <3>3. job' = job  BY <1>1
    <3>4. h' = h  BY <3>3
    <3> HIDE DEF h
    <3> QED  BY <2>3, <2>5, <3>1, <3>2, <3>4 DEF Written
  <2>8. Shape' /\ Recoverable'
    <3> HIDE DEF a, h
    <3> QED  BY <1>1, <1>2, <2>2, FileMayChange
  <2>9. Phases'
    <3>1. job' = job /\ cut' = cut  BY <1>1
    <3>2. Phases  BY DEF SaveInv
    <3> QED  BY <1>1, <1>2, <2>7, <3>1, <3>2 DEF Phases, At
  <2> QED  BY <2>8, <2>9 DEF SaveInv
<1>4. CASE h \notin Objects
  <2>1. file' = file  BY <1>4 DEF SerializeClass, SaveInv, Shape
  <2>2. Shape' /\ Recoverable'  BY <1>1, <2>1 DEF SaveInv, Shape, Recoverable, Holds, Complete
  <2>3. Phases'  BY <1>1, <1>4 DEF SaveInv, Phases, At
  <2> QED  BY <2>2, <2>3 DEF SaveInv
<1> QED  BY <1>3, <1>4

\* What is then saved is what the complete file holds.
LEMMA CloseFileStep == SaveInv /\ CloseFile => SaveInv'
<1> SUFFICES ASSUME SaveInv, CloseFile PROVE SaveInv'  OBVIOUS
<1> DEFINE h == Head(job.todo)
           s == [gen |-> gen[h], data |-> data[h]]
<1>1. /\ job.at = "class" /\ file[h].len = Whole
      /\ job' = IF Len(job.todo) = 1 THEN NoJob
                ELSE [job EXCEPT !.todo = Tail(@), !.at = "backup"]
      /\ saved' = [saved EXCEPT ![h] = s] /\ cut' = [cut EXCEPT ![h] = 0]
      /\ UNCHANGED <<file, bak, unmoved>>
  BY DEF CloseFile, At, disk
<1>2. Shape'
  <2>1. cut' \in [Objects -> 0 .. 2]
    <3>1. cut \in [Objects -> 0 .. 2] /\ 0 \in 0 .. 2  BY DEF SaveInv, Shape
    <3>2. cut' = [cut EXCEPT ![h] = 0]  BY <1>1
    <3> HIDE DEF h
    <3> QED  BY <3>1, <3>2
  <2>2. saved' = [o \in Objects |-> saved'[o]]  BY <1>1 DEF SaveInv, Shape
  <2>3. file' = [o \in Objects |-> file'[o]] /\ bak' = [o \in Objects |-> bak'[o]]
    BY <1>1 DEF SaveInv, Shape
  <2> QED  BY <2>1, <2>2, <2>3 DEF Shape
<1>3. job'.at \in {"idle", "backup"}
  <2>1. CASE Len(job.todo) = 1  BY <1>1, <2>1 DEF NoJob
  <2>2. CASE Len(job.todo) # 1  BY <1>1, <2>2
  <2> QED  BY <2>1, <2>2
<1>4. Phases'  BY <1>3 DEF Phases, At
<1>5. Recoverable'
  <2> SUFFICES ASSUME NEW o \in Objects, saved'[o] # Missing
               PROVE  /\ cut'[o] = 0 => Holds(file[o], saved'[o])
                      /\ cut'[o] = 1 /\ o \notin unmoved' => Holds(bak[o], saved'[o])
    BY <1>1 DEF Recoverable, Holds, Complete
  <2>1. CASE o # h
    <3>1. saved'[o] = saved[o] /\ cut'[o] = cut[o]  BY <1>1, <2>1 DEF SaveInv, Shape
    <3>2. unmoved' = unmoved  BY <1>1
    <3> QED  BY <2>1, <3>1, <3>2 DEF SaveInv, Recoverable
  <2>2. CASE o = h
    <3>1. saved'[o] = s /\ cut'[o] = 0  BY <1>1, <2>2 DEF SaveInv, Shape
    <3>2. Written(o)  BY <1>1, <2>2 DEF SaveInv, Phases, At
    <3>3. file[o] # Missing  BY <1>1, <2>2, WholeNat DEF Missing
    <3>4. \A i \in Classes : file[o].data[i] = data[o][i]
      BY <1>1, <2>2, <3>2, BoundsAssumption DEF Written, Classes, Whole
    <3>5. Complete(file[o])  BY <1>1, <2>2, <3>3 DEF Complete
    <3>6. file[o].gen = gen[o]  BY <3>2 DEF Written
    <3>7. Holds(file[o], s)  BY <2>2, <3>4, <3>5, <3>6 DEF Holds
    <3> QED  BY <3>1, <3>7
  <2> QED  BY <2>1, <2>2
<1> QED  BY <1>2, <1>4, <1>5 DEF SaveInv

\* Only the file that is being written is cut short.
LEMMA CrashStep == SaveInv /\ Crash => SaveInv'
<1> SUFFICES ASSUME SaveInv, Crash PROVE SaveInv'  OBVIOUS
<1> DEFINE h == Head(job.todo)
<1>1. UNCHANGED <<bak, unmoved, saved, cut>> /\ job'.at = "idle"  BY DEF Crash, Restarts, NoJob
<1>2. Phases'  BY <1>1 DEF Phases, At
<1>3. CASE At("class")
  <2>1. PICK n : file' = [file EXCEPT ![h] = Prefix(@, n)]  BY <1>3 DEF Crash
  <2>2. \A o \in Objects : o = h => cut[o] >= 1  BY <1>3 DEF SaveInv, Phases
  <2>3. file' = [file EXCEPT ![h] = Prefix(file[h], n)]  BY <2>1
  <2>4. Shape' /\ Recoverable'
    <3> DEFINE v == Prefix(file[h], n)
    <3> HIDE DEF h, v
    <3> QED  BY <1>1, <2>2, <2>3, FileMayChange DEF v
  <2> QED  BY <1>2, <2>4 DEF SaveInv
<1>4. CASE ~At("class")  BY <1>4, Ends DEF Crash
<1> QED  BY <1>3, <1>4

LEMMA DeleteStep == SaveInv /\ (\E k \in Kids : Delete(k)) => SaveInv'
<1> SUFFICES ASSUME SaveInv, NEW k \in Kids, Delete(k) PROVE SaveInv'  OBVIOUS
<1>1. /\ file' = [file EXCEPT ![k] = Missing] /\ saved' = [saved EXCEPT ![k] = Missing]
      /\ cut' = [cut EXCEPT ![k] = 0] /\ UNCHANGED <<bak, unmoved, job>> /\ job.at = "idle"
  BY DEF Delete, Calls, Idle, NoJob
<1>2. Phases'  BY <1>1 DEF SaveInv, Phases, At
<1>3. k \in Objects  BY DEF Objects
<1>4. cut' \in [Objects -> 0 .. 2]
  <2>1. cut \in [Objects -> 0 .. 2] /\ 0 \in 0 .. 2  BY DEF SaveInv, Shape
  <2> QED  BY <1>1, <2>1
<1>5. Shape'  BY <1>1, <1>4 DEF SaveInv, Shape
<1>6. Recoverable'
  <2> SUFFICES ASSUME NEW o \in Objects, saved'[o] # Missing
               PROVE  /\ cut'[o] = 0 => Holds(file'[o], saved'[o])
                      /\ cut'[o] = 1 /\ o \notin unmoved' => Holds(bak'[o], saved'[o])
    BY DEF Recoverable, Holds, Complete
  <2>1. o # k  BY <1>1 DEF SaveInv, Shape
  <2>2. file'[o] = file[o] /\ saved'[o] = saved[o] /\ cut'[o] = cut[o] /\ bak'[o] = bak[o]
    BY <1>1, <2>1 DEF SaveInv, Shape
  <2>3. unmoved' = unmoved  BY <1>1
  <2> QED  BY <2>2, <2>3 DEF SaveInv, Recoverable
<1> QED  BY <1>2, <1>5, <1>6 DEF SaveInv

\* Loading writes no files.
LEMMA PageInStep == SaveInv /\ (\E o \in Objects : PageIn(o)) => SaveInv'
<1> SUFFICES ASSUME SaveInv, NEW o \in Objects, PageIn(o) PROVE SaveInv'  OBVIOUS
<1>1. \/ Restarts /\ UNCHANGED file
      \/ UNCHANGED <<file, bak, unmoved, saved, cut, job>>
  BY DEF PageIn, disk
<1>2. Idle  BY DEF PageIn, Calls
<1> QED  BY <1>1, <1>2, Ends, Quiet

LEMMA LoadStep == SaveInv /\ Load => SaveInv'
<1> SUFFICES ASSUME SaveInv, Load PROVE SaveInv'  OBVIOUS
<1>1. \/ Restarts /\ UNCHANGED file
      \/ UNCHANGED <<file, bak, unmoved, saved, cut, job>>
  BY DEF Load, disk
<1>2. Idle  BY DEF Load, Calls
<1> QED  BY <1>1, <1>2, Ends, Quiet

LEMMA NextSaveInv == SaveInv /\ [Next]_vars => SaveInv'
<1> SUFFICES ASSUME SaveInv, [Next]_vars PROVE SaveInv'  OBVIOUS
<1>1. CASE \E k \in Kids : AddChild(k)
  BY <1>1, Quiet DEF AddChild, Calls, disk
<1>2. CASE \E k \in Kids : Delete(k)  BY <1>2, DeleteStep
<1>3. CASE \E o \in Objects : Save(o) \/ PageOut(o)  BY <1>3, Starts DEF Save, PageOut
<1>4. CASE SaveAll  BY <1>4, Starts DEF SaveAll
<1>5. CASE \E o \in Objects : PageIn(o)  BY <1>5, PageInStep
<1>6. CASE \E o \in Objects, v \in Values \ {0} : Edit(o, v)
  BY <1>6, Quiet DEF Edit, Calls, disk
<1>7. CASE \E p \in Links : AddDep(p[1], p[2]) \/ DelDep(p[1], p[2])
  BY <1>7, Quiet DEF AddDep, DelDep, Calls, disk, belief
<1>8. CASE Saving
  BY <1>8, BackupStep, SaveFailsStep, SerializeGenericStep, SerializeClassStep, CloseFileStep
     DEF Saving
<1>9. CASE Load  BY <1>9, LoadStep
<1>10. CASE Restart  BY <1>10, Ends DEF Restart
<1>11. CASE Crash  BY <1>11, CrashStep
<1>12. CASE UNCHANGED vars
  <2>1. UNCHANGED <<file, bak, unmoved, saved, cut, job, gen, data>>
    BY <1>12 DEF vars, disk, memory, belief
  <2> QED  BY <2>1 DEF SaveInv, Shape, Phases, Recoverable, Holds, Complete, Written, At
<1> QED  BY <1>1, <1>2, <1>3, <1>4, <1>5, <1>6, <1>7, <1>8, <1>9, <1>10, <1>11, <1>12 DEF Next

(* For any tree, any numbers of classes, of failed saves and of crashes, and
   whatever the application does: until a second save of an object is begun
   after one that was cut short, what it saved last is whole on disk, unless the
   rename of the old archive failed, which BackupObjectFile does not notice. *)
THEOREM RecoverableTheorem == Spec => []Recoverable
<1>1. Init => SaveInv  BY InitSaveInv
<1>2. SaveInv /\ [Next]_vars => SaveInv'  BY NextSaveInv
<1>3. SaveInv => Recoverable  BY DEF SaveInv
<1> QED  BY <1>1, <1>2, <1>3, PTL DEF Spec

\* Adding to the children, and deleting one.
LEMMA ChildrenChange ==
  ASSUME NEW s \in Seq(Kids), NEW k \in Kids
  PROVE  /\ TailqInsertTail(s, k) \in Seq(Kids)
         /\ Range(TailqInsertTail(s, k)) = Range(s) \cup {k}
         /\ k \in Range(s) =>
              /\ TailqRemove(s, k) \in Seq(Kids)
              /\ Range(s) \ {k} \subseteq Range(TailqRemove(s, k))
              /\ Range(TailqRemove(s, k)) \subseteq Range(s)
<1> PICK n \in Nat : n = Len(s) /\ DOMAIN s = 1 .. n  BY LenProperties
<1>1. /\ TailqInsertTail(s, k) \in Seq(Kids)
      /\ Range(TailqInsertTail(s, k)) = Range(s) \cup {k}
  <2> PICK t : t = TailqInsertTail(s, k)  OBVIOUS
  <2>1. /\ t \in Seq(Kids) /\ DOMAIN t = 1 .. n + 1
        /\ t[n + 1] = k /\ \A i \in 1 .. n : t[i] = s[i]
    BY DEF TailqInsertTail
  <2>2. DOMAIN t = DOMAIN s \cup {n + 1} /\ \A i \in DOMAIN s : t[i] = s[i]
    BY <2>1
  <2> QED  BY <2>1, <2>2 DEF Range
<1>2. ASSUME k \in Range(s)
      PROVE  /\ TailqRemove(s, k) \in Seq(Kids)
             /\ Range(s) \ {k} \subseteq Range(TailqRemove(s, k))
             /\ Range(TailqRemove(s, k)) \subseteq Range(s)
  <2> PICK t : t = TailqRemove(s, k)  OBVIOUS
  <2> PICK i : i = Pos(s, k)  OBVIOUS
  <2>1. k \in Entries(s)  BY <1>2 DEF Range, Entries
  <2>2. i \in 1 .. n /\ s[i] = k  BY <2>1, PosProperties
  <2>3. /\ t \in Seq(Kids) /\ DOMAIN t = 1 .. n - 1
        /\ \A j \in 1 .. n - 1 : t[j] = IF j < i THEN s[j] ELSE s[j + 1]
    BY <2>1, RemovedAt
  <2>4. ASSUME NEW j \in 1 .. n, j # i  PROVE \E m \in 1 .. n - 1 : t[m] = s[j]
    <3>1. CASE j < i
      <4>1. j \in 1 .. n - 1  BY <2>2, <3>1
      <4> QED  BY <2>3, <3>1, <4>1
    <3>2. CASE ~(j < i)
      <4>1. j - 1 \in 1 .. n - 1 /\ ~(j - 1 < i) /\ j - 1 + 1 = j  BY <2>2, <2>4, <3>2
      <4> QED  BY <2>3, <4>1
    <3> QED  BY <3>1, <3>2
  <2>5. ASSUME NEW j \in 1 .. n - 1  PROVE \E m \in 1 .. n : t[j] = s[m]
    <3>1. j \in 1 .. n /\ j + 1 \in 1 .. n  OBVIOUS
    <3> QED  BY <2>3, <3>1
  <2>6. ASSUME NEW x \in Range(s) \ {k}  PROVE x \in Range(t)
    <3> PICK j \in 1 .. n : s[j] = x  BY DEF Range
    <3>1. PICK m \in 1 .. n - 1 : t[m] = x  BY <2>2, <2>4
    <3> QED  BY <2>3, <3>1 DEF Range
  <2>7. ASSUME NEW x \in Range(t)  PROVE x \in Range(s)
    <3> PICK j \in 1 .. n - 1 : t[j] = x  BY <2>3 DEF Range
    <3> QED  BY <2>5 DEF Range
  <2> QED  BY <2>3, <2>6, <2>7
<1> QED  BY <1>1, <1>2

\* The children that a load finds, or makes.
LEMMA FoundOrMadeFacts ==
  ASSUME kids \in Seq(Kids), NEW names \in Seq(Kids)
  PROVE  /\ FoundOrMade(names) \in Seq(Kids)
         /\ Range(FoundOrMade(names)) = Range(kids) \cup Range(names)
<1> DEFINE n == Len(names)
           Step(i, s) == IF names[i] \in Range(s) THEN s ELSE TailqInsertTail(s, names[i])
           Rec(F) == F = [i \in 0 .. n |-> IF i = 0 THEN kids
                                           ELSE IF names[i] \in Range(F[i - 1]) THEN F[i - 1]
                                           ELSE TailqInsertTail(F[i - 1], names[i])]
           after == CHOOSE F : Rec(F)
           first(m) == {names[j] : j \in 1 .. m}
<1>1. n \in Nat /\ \A i \in 1 .. n : names[i] \in Kids  OBVIOUS
<1>2. ASSUME NEW s \in Seq(Kids), NEW c \in Kids
      PROVE  TailqInsertTail(s, c) \in Seq(Kids) /\ Range(TailqInsertTail(s, c)) = Range(s) \cup {c}
  BY ChildrenChange
<1>3. \E F : Rec(F)
  <2> DEFINE step == [p \in (1 .. n) \X Seq(Kids) |-> Step(p[1], p[2])]
  <2>1. step \in [(1 .. n) \X Seq(Kids) -> Seq(Kids)]  BY <1>1, <1>2
  <2>2. PICK F \in [0 .. n -> Seq(Kids)] :
          F[0] = kids /\ \A i \in 1 .. n : F[i] = step[<<i, F[i - 1]>>]
    <3> PICK a \in Seq(Kids) : a = kids  OBVIOUS
    <3> PICK K : K = Seq(Kids)  OBVIOUS
    <3> PICK m \in Nat : m = n  BY <1>1
    <3> PICK st : st = step  OBVIOUS
    <3> HIDE DEF step, n
    <3>1. a \in K /\ st \in Steps(m, K)  BY <2>1 DEF Steps
    <3>2. \E F : ByStep(F, m, K, a, st)  BY <3>1, StepByStep
    <3> QED  BY <3>2 DEF ByStep
  <2>3. ASSUME NEW i \in 0 .. n
        PROVE  F[i] = IF i = 0 THEN kids ELSE Step(i, F[i - 1])
    <3>1. CASE i # 0
      <4>1. i \in 1 .. n /\ i - 1 \in 0 .. n  BY <1>1, <3>1
      <4>2. F[i - 1] \in Seq(Kids)  BY <4>1
      <4> QED  BY <2>2, <3>1, <4>1, <4>2
    <3> QED  BY <2>2, <3>1
  <2>4. F = [i \in 0 .. n |-> F[i]]  OBVIOUS
  <2>5. Rec(F)  BY <2>3, <2>4
  <2> QED  BY <2>5
<1>4. Rec(after)  BY <1>3
<1>5. FoundOrMade(names) = after[n]  BY DEF FoundOrMade
<1> HIDE DEF after
<1>6. /\ after[0] = kids
      /\ \A i \in 1 .. n : after[i] = Step(i, after[i - 1])
  <2>1. 0 \in 0 .. n /\ \A i \in 1 .. n : i \in 0 .. n /\ i # 0  BY <1>1
  <2>2. \A i \in 0 .. n : after[i] = IF i = 0 THEN kids ELSE Step(i, after[i - 1])
    BY <1>4, Zenon
  <2> HIDE DEF Step
  <2> QED  BY <2>1, <2>2
<1> HIDE DEF Rec
<1> DEFINE S == {m \in 0 .. n : /\ after[m] \in Seq(Kids)
                                /\ Range(after[m]) = Range(kids) \cup first(m)}
<1>7. 0 \in S  BY <1>1, <1>6
<1>8. ASSUME NEW m \in 0 .. n, m # n, m \in S  PROVE m + 1 \in S
  <2>1. m + 1 \in 1 .. n /\ m + 1 \in 0 .. n /\ m + 1 - 1 = m  BY <1>1, <1>8
  <2>2. after[m + 1] = Step(m + 1, after[m])  BY <1>6, <2>1
  <2>3. names[m + 1] \in Kids  BY <1>1, <2>1
  <2>4. /\ after[m + 1] \in Seq(Kids)
        /\ Range(after[m + 1]) = Range(after[m]) \cup {names[m + 1]}
    <3>1. CASE names[m + 1] \in Range(after[m])  BY <1>8, <2>2, <3>1
    <3>2. CASE names[m + 1] \notin Range(after[m])
      <4>1. after[m + 1] = TailqInsertTail(after[m], names[m + 1])  BY <2>2, <3>2
      <4>2. after[m] \in Seq(Kids)  BY <1>8
      <4> QED  BY <1>2, <2>3, <4>1, <4>2
    <3> QED  BY <3>1, <3>2
  <2>5. first(m + 1) = first(m) \cup {names[m + 1]}
    <3>1. 1 .. m + 1 = (1 .. m) \cup {m + 1}  BY <1>1
    <3> QED  BY <3>1
  <2> HIDE DEF first
  <2> QED  BY <1>8, <2>1, <2>4, <2>5
<1>9. n \in S
  <2>1. n \in 0 .. n  BY <1>1
  <2>2. \A m \in 0 .. n : m # n /\ m \in S => m + 1 \in S  BY <1>8
  <2> HIDE DEF S
  <2> QED  BY <1>1, <1>7, <2>1, <2>2, UpTo
<1>10. first(n) = Range(names)  BY DEF Range
<1> QED  BY <1>5, <1>9, <1>10

\* The children that a load tries are those of the table, up to the first that fails.
LEMMA TriedFacts ==
  ASSUME NEW tab \in Seq(Kids)
  PROVE  /\ Tried(tab) \in Seq(Kids)
         /\ Range(Tried(tab)) \subseteq Kids
         /\ Stop(tab) = {} => /\ Tried(tab) = tab
                              /\ \A o \in Range(tab) : Status(file[o]) = "ok"
<1>1. CASE Stop(tab) = {}
  BY <1>1 DEF Tried, Stop, Range
<1>2. CASE Stop(tab) # {}
  <2> DEFINE i == CHOOSE i \in Stop(tab) : \A j \in Stop(tab) : i <= j
  <2>1. Stop(tab) \in SUBSET Nat /\ Stop(tab) \subseteq DOMAIN tab  BY DEF Stop
  <2>2. \E m \in Stop(tab) : \A j \in Stop(tab) : m <= j
    <3> PICK S : S = Stop(tab)  OBVIOUS
    <3>1. S \in SUBSET Nat /\ S # {}  BY <1>2, <2>1
    <3>2. \E m \in S : \A j \in S : m <= j  BY <3>1, Least
    <3> QED  BY <3>2
  <2>3. i \in DOMAIN tab  BY <2>1, <2>2
  <2>4. Tried(tab) = SubSeq(tab, 1, i)  BY <1>2 DEF Tried
  <2> HIDE DEF i
  <2>5. i \in 1 .. Len(tab) /\ Len(tab) \in Nat  BY <2>3
  <2> PICK t : t = SubSeq(tab, 1, i)  OBVIOUS
  <2>6. t \in Seq(Kids)  BY <2>5
  <2>7. Range(t) \subseteq Kids  BY <2>6 DEF Range
  <2> QED  BY <1>2, <2>4, <2>6, <2>7
<1> QED  BY <1>1, <1>2

-----------------------------------------------------------------------------
(* The invariants of the objects in memory *)

Dataset == [Classes -> Values]
Contents == [gen : Values, data : Dataset]
Archive == [len : 0 .. Whole, gen : Values, deps : SUBSET Objects, kids : Seq(Kids),
            data : Dataset]
Jobs == [op : {"save", "saveall", "pageout"}, todo : Seq(Objects) \ {<< >>},
         at : {"backup", "open", "class"}]

MemoryType ==
  /\ gen \in [Objects -> Values] /\ data \in [Objects -> Dataset]
  /\ deps \in [Objects -> [Objects -> {"none", "path", "obj"}]]
  /\ kids \in Seq(Kids)
  /\ want \in [Objects -> Contents] /\ held \in [Objects -> SUBSET Both]

DiskType ==
  /\ \A o \in Objects : file[o] = Missing \/ file[o] \in Archive
  /\ \A o \in Objects : saved[o] = Missing \/ saved[o] \in Contents

\* What some of what follows assumes: an object is saved only when the application
\* has reason to think that it is in memory.
NotBlind == "blind" \notin Liberties

\* An object whose variables the application was told are in memory has no dependency
\* that is a path alone: those that a save goes through are such objects.
Resolvable ==
  /\ job = NoJob \/ job \in Jobs
  /\ \A o \in Objects : "gen" \in held[o] => \A d \in Objects : deps[o][d] # "path"
  /\ job # NoJob => \A o \in Range(job.todo) : o \in Attached /\ (NotBlind => held[o] = Both)
  /\ job.op = "pageout" => Len(job.todo) = 1

\* Objects depend on objects that are in the tree.
InTree ==
  \A o \in Objects, d \in Objects :
    /\ deps[o][d] = "obj" => d \in Attached
    /\ o \notin Attached => deps[o][d] = "none"

\* The archive of o names what is in the tree, that of the root all children.
Names(o) == file[o].deps \subseteq Attached /\ (o = Root => file[o].kids = kids)

\* AG_ObjectSaveAll has written the objects that are not left to do.
NamesWritten == NotBlind /\ job.at = "class" => Names(Head(job.todo))
TreeWritten ==
  NotBlind /\ job.op = "saveall" =>
    \A o \in Attached : o \in Range(job.todo) \/ (Complete(file[o]) /\ Names(o))

Reloads == NotBlind => Reloadable

TreeInv ==
  /\ SaveInv /\ MemoryType /\ DiskType /\ Resolvable /\ InTree
  /\ NamesWritten /\ TreeWritten
  /\ tree => job.at \in {"idle", "backup"}
  /\ Reloads

LEMMA Constants ==
  /\ 0 \in Values /\ Nothing \in Dataset /\ Fresh \in Contents
  /\ Root \in Objects /\ Kids \subseteq Objects /\ Root \notin Kids
  /\ NoDeps \in [Objects -> {"none", "path", "obj"}] /\ \A d \in Objects : NoDeps[d] = "none"
  /\ NoJob.op = "none" /\ NoJob.at = "idle" /\ NoJob.todo = << >>
  /\ NoJob \notin Jobs
<1>1. 0 \in Values  BY BoundsAssumption DEF Values
<1>2. Nothing \in Dataset /\ Fresh \in Contents  BY <1>1 DEF Nothing, Dataset, Fresh, Contents
<1>3. NoJob.op = "none" /\ NoJob.at = "idle" /\ NoJob.todo = << >> /\ NoJob \notin Jobs
  BY DEF NoJob, Jobs
<1> QED  BY <1>1, <1>2, <1>3, ObjectsAssumption DEF Objects, NoDeps

\* What is attached are objects.
LEMMA AttachedObjects ==
  kids \in Seq(Kids) => Attached \subseteq Objects /\ Range(kids) \subseteq Kids
BY Constants DEF Attached, Objects, Range

\* While no save goes on and none was cut short by this step, the files are as they were.
LEMMA NoSaveGoesOn ==
  ASSUME TreeInv, SaveInv', MemoryType', job' = NoJob, UNCHANGED saved,
         \A o \in Objects : "gen" \in held'[o] => \A d \in Objects : deps'[o][d] # "path",
         InTree', file' = file \/ (~tree /\ DiskType'), tree' = tree
  PROVE  TreeInv'
<1>1. DiskType'  BY DEF TreeInv, DiskType
<1>2. job'.op = "none" /\ job'.at = "idle"  BY Constants
<1>3. Resolvable'  BY <1>2 DEF Resolvable, NotBlind
<1>4. NamesWritten' /\ TreeWritten'  BY <1>2 DEF NamesWritten, TreeWritten, NotBlind
<1>5. Reloads'  BY DEF TreeInv, Reloads, Reloadable, Complete, NotBlind
<1> QED  BY <1>1, <1>2, <1>3, <1>4, <1>5 DEF TreeInv

LEMMA InitTreeInv == Init => TreeInv
<1> SUFFICES ASSUME Init PROVE TreeInv  OBVIOUS
<1>1. MemoryType
  <2>1. kids \in Seq(Kids)  BY ObjectsAssumption DEF Init
  <2>2. Both \in SUBSET Both /\ {} \in SUBSET Both  OBVIOUS
  <2> QED  BY <2>1, <2>2, Constants DEF Init, MemoryType
<1>2. ASSUME NEW o \in Objects
      PROVE  /\ NewArchive(o) \in Archive /\ Complete(NewArchive(o))
             /\ NewArchive(o).deps \subseteq AtStart /\ (o = Root => NewArchive(o).kids = Started)
  <2>1. Started \in Seq(Kids) /\ << >> \in Seq(Kids)  BY ObjectsAssumption
  <2>2. AtStart \subseteq Objects  BY <2>1, Constants DEF AtStart, Range, Objects
  <2>3. Whole \in 0 .. Whole  BY WholeNat
  <2>4. NewArchive(o) \in Archive
    BY <2>1, <2>2, <2>3, Constants DEF NewArchive, Archive
  <2>5. NewArchive(o).len # Missing.len  BY WholeNat DEF NewArchive, Missing
  <2> QED  BY <2>4, <2>5 DEF NewArchive, Complete
<1>3. DiskType
  BY <1>2, Constants DEF Init, DiskType
<1>4. job.op = "none" /\ job.at = "idle" /\ job = NoJob  BY Constants DEF Init
<1>5. Resolvable /\ InTree
  BY <1>4, Constants DEF Init, Resolvable, InTree, NotBlind
<1>6. NamesWritten /\ TreeWritten  BY <1>4 DEF NamesWritten, TreeWritten, NotBlind
<1>7. Reloadable
  <2> SUFFICES ASSUME tree
               PROVE  \A o \in {Root} \cup Range(file[Root].kids) :
                        Complete(file[o]) /\ file[o].deps \subseteq {Root} \cup Range(file[Root].kids)
    BY DEF Reloads, Reloadable, NotBlind
  <2>1. AtStart \subseteq Objects  BY ObjectsAssumption, Constants DEF AtStart, Range, Objects
  <2>2. \A o \in AtStart : file[o] = NewArchive(o)  BY <2>1 DEF Init
  <2>3. Root \in AtStart /\ AtStart = {Root} \cup Range(Started)  BY DEF AtStart
  <2>4. file[Root].kids = Started  BY <1>2, <2>2, <2>3, Constants
  <2> QED  BY <1>2, <2>1, <2>2, <2>3, <2>4
<1> QED  BY <1>1, <1>3, <1>4, <1>5, <1>6, <1>7, InitSaveInv DEF TreeInv, Reloads

-----------------------------------------------------------------------------
(* Calls that write no file *)

LEMMA AddChildTree ==
  ASSUME TreeInv, SaveInv', NEW k \in Kids, AddChild(k)
  PROVE  TreeInv'
<1>1. /\ k \notin Attached /\ job = NoJob /\ job' = NoJob
      /\ kids' = TailqInsertTail(kids, k)
      /\ gen' = [gen EXCEPT ![k] = 0] /\ data' = [data EXCEPT ![k] = Nothing]
      /\ deps' = [deps EXCEPT ![k] = NoDeps]
      /\ want' = [want EXCEPT ![k] = Fresh] /\ held' = [held EXCEPT ![k] = Both]
      /\ UNCHANGED <<file, saved, tree>>
  BY DEF AddChild, Calls, Idle, disk
<1>2. MemoryType  BY DEF TreeInv
<1>3. k \in Objects /\ Both \in SUBSET Both  BY Constants
<1>4. kids' \in Seq(Kids) /\ Attached' = Attached \cup {k}
  BY <1>1, <1>2, ChildrenChange DEF MemoryType, Attached
<1>5. gen' \in [Objects -> Values] /\ data' \in [Objects -> Dataset]
  BY <1>1, <1>2, Constants DEF MemoryType
<1>6. deps' \in [Objects -> [Objects -> {"none", "path", "obj"}]]
  BY <1>1, <1>2, Constants DEF MemoryType
<1>7. want' \in [Objects -> Contents] /\ held' \in [Objects -> SUBSET Both]
  BY <1>1, <1>2, <1>3, Constants DEF MemoryType
<1>8. MemoryType'  BY <1>4, <1>5, <1>6, <1>7 DEF MemoryType
<1>9. \A o \in Objects : deps'[o] = IF o = k THEN NoDeps ELSE deps[o]
  BY <1>1, <1>2 DEF MemoryType
<1>10. \A o \in Objects : o # k => held'[o] = held[o]
  BY <1>1, <1>2 DEF MemoryType
<1>11. \A o \in Objects : "gen" \in held'[o] => \A d \in Objects : deps'[o][d] # "path"
  BY <1>9, <1>10, Constants DEF TreeInv, Resolvable, NotBlind
<1>12. InTree'
  BY <1>4, <1>9, Constants DEF TreeInv, InTree
<1> QED  BY <1>1, <1>8, <1>11, <1>12, NoSaveGoesOn

LEMMA EditTree ==
  ASSUME TreeInv, SaveInv', NEW o \in Objects, NEW v \in Values, Edit(o, v)
  PROVE  TreeInv'
<1>1. /\ job = NoJob /\ job' = NoJob
      /\ gen' = [gen EXCEPT ![o] = v] /\ data' = [data EXCEPT ![o] = Filled(v)]
      /\ want' = [want EXCEPT ![o] = [gen |-> v, data |-> Filled(v)]]
      /\ UNCHANGED <<file, saved, tree, deps, kids, held>>
  BY DEF Edit, Calls, Idle, disk
<1>2. MemoryType  BY DEF TreeInv
<1>3. Filled(v) \in Dataset /\ [gen |-> v, data |-> Filled(v)] \in Contents
  BY DEF Filled, Dataset, Contents
<1>4. MemoryType'
  <2>1. gen' \in [Objects -> Values] /\ data' \in [Objects -> Dataset]
    BY <1>1, <1>2, <1>3 DEF MemoryType
  <2>2. want' \in [Objects -> Contents]  BY <1>1, <1>2, <1>3 DEF MemoryType
  <2> QED  BY <1>1, <1>2, <2>1, <2>2 DEF MemoryType
<1>5. InTree'  BY <1>1 DEF TreeInv, InTree, Attached
<1>6. \A x \in Objects : "gen" \in held'[x] => \A d \in Objects : deps'[x][d] # "path"
  BY <1>1 DEF TreeInv, Resolvable, NotBlind
<1> QED  BY <1>1, <1>4, <1>5, <1>6, NoSaveGoesOn

LEMMA DepTree ==
  ASSUME TreeInv, SaveInv', NEW o \in Objects, NEW d \in Objects, AddDep(o, d) \/ DelDep(o, d)
  PROVE  TreeInv'
<1>1. PICK x \in {"none", "obj"} :
        /\ deps' = [deps EXCEPT ![o][d] = x] /\ o \in Attached /\ (x = "obj" => d \in Attached)
  BY DEF AddDep, DelDep
<1>2. /\ job = NoJob /\ job' = NoJob
      /\ UNCHANGED <<file, saved, tree, gen, data, kids, want, held>>
  BY DEF AddDep, DelDep, Calls, Idle, disk, belief
<1>3. deps \in [Objects -> [Objects -> {"none", "path", "obj"}]]  BY DEF TreeInv, MemoryType
<1>4. deps' \in [Objects -> [Objects -> {"none", "path", "obj"}]]  BY <1>1, <1>3
<1>5. \A y \in Objects, e \in Objects : deps'[y][e] = IF y = o /\ e = d THEN x ELSE deps[y][e]
  BY <1>1, <1>3
<1>6. MemoryType'  BY <1>2, <1>4 DEF TreeInv, MemoryType
<1>7. InTree'  BY <1>1, <1>2, <1>5 DEF TreeInv, InTree, Attached
<1>8. \A y \in Objects : "gen" \in held'[y] => \A e \in Objects : deps'[y][e] # "path"
  BY <1>2, <1>5 DEF TreeInv, Resolvable, NotBlind
<1> QED  BY <1>2, <1>6, <1>7, <1>8, NoSaveGoesOn

LEMMA DeleteTree ==
  ASSUME TreeInv, SaveInv', NEW k \in Kids, Delete(k)
  PROVE  TreeInv'
<1>1. /\ k \in Range(kids) /\ ~InUse(k) /\ job = NoJob /\ job' = NoJob
      /\ file' = [file EXCEPT ![k] = Missing]
      /\ kids' = TailqRemove(kids, k)
      /\ gen' = [gen EXCEPT ![k] = 0] /\ data' = [data EXCEPT ![k] = Nothing]
      /\ deps' = [deps EXCEPT ![k] = NoDeps]
      /\ want' = [want EXCEPT ![k] = Fresh] /\ held' = [held EXCEPT ![k] = {}]
      /\ saved' = [saved EXCEPT ![k] = Missing] /\ tree' = FALSE
  BY DEF Delete, Calls, Idle
<1>2. MemoryType /\ DiskType /\ Shape  BY DEF TreeInv, SaveInv
<1>3. k \in Objects /\ {} \in SUBSET Both  BY Constants
<1>4. /\ kids' \in Seq(Kids) /\ Range(kids) \ {k} \subseteq Range(kids')
      /\ Range(kids') \subseteq Range(kids)
  BY <1>1, <1>2, ChildrenChange DEF MemoryType
<1>5. gen' \in [Objects -> Values] /\ data' \in [Objects -> Dataset]
  BY <1>1, <1>2, Constants DEF MemoryType
<1>6. deps' \in [Objects -> [Objects -> {"none", "path", "obj"}]]
  BY <1>1, <1>2, Constants DEF MemoryType
<1>7. want' \in [Objects -> Contents] /\ held' \in [Objects -> SUBSET Both]
  BY <1>1, <1>2, <1>3, Constants DEF MemoryType
<1>8. MemoryType'  BY <1>4, <1>5, <1>6, <1>7 DEF MemoryType
<1>9. DiskType'
  <2>1. \A o \in Objects : file'[o] \in {Missing, file[o]} /\ saved'[o] \in {Missing, saved[o]}
    BY <1>1, <1>2 DEF Shape
  <2> QED  BY <1>2, <2>1 DEF DiskType
<1>10. \A o \in Objects : deps'[o] = IF o = k THEN NoDeps ELSE deps[o]
  BY <1>1, <1>2 DEF MemoryType
<1>11. \A o \in Objects : held'[o] = IF o = k THEN {} ELSE held[o]
  BY <1>1, <1>2 DEF MemoryType
<1>12. Resolvable'
  BY <1>1, <1>10, <1>11, Constants DEF TreeInv, Resolvable, NotBlind
<1>13. InTree'
  <2>1. \A o \in Attached : o # k => o \in Attached'  BY <1>4 DEF Attached
  <2>2. \A o \in Attached : o # k => deps[o][k] # "obj"
    BY <1>1 DEF InUse, FindObjectInUse
  <2>3. \A o \in Objects : o # k => deps[o][k] # "obj"
    BY <1>3, <2>2 DEF TreeInv, InTree
  <2> QED  BY <1>10, <2>1, <2>3, Constants DEF TreeInv, InTree
<1>14. job'.op = "none" /\ job'.at = "idle"  BY <1>1, Constants
<1>15. NamesWritten' /\ TreeWritten' /\ Reloads'
  BY <1>1, <1>14 DEF NamesWritten, TreeWritten, Reloads, Reloadable, NotBlind
<1> QED  BY <1>1, <1>8, <1>9, <1>12, <1>13, <1>15 DEF TreeInv

-----------------------------------------------------------------------------
(* Saving *)

\* The object that is being saved is in the tree, and in memory.
LEMMA AtWork ==
  ASSUME TreeInv, job.at # "idle"
  PROVE  LET h == Head(job.todo) IN
         /\ job \in Jobs /\ job # NoJob
         /\ h \in Objects /\ h \in Attached /\ h \in Range(job.todo)
         /\ NotBlind => held[h] = Both
         /\ \A o \in Range(job.todo) : o = h \/ o \in Range(Tail(job.todo))
         /\ Len(job.todo) # 1 => Tail(job.todo) \in Seq(Objects) \ {<< >>}
         /\ Range(Tail(job.todo)) \subseteq Range(job.todo)
<1>1. job # NoJob  BY Constants
<1>2. job \in Jobs  BY <1>1 DEF TreeInv, Resolvable, NotBlind
<1> PICK s : s = job.todo  OBVIOUS
<1> PICK n : n = Len(s)  OBVIOUS
<1>3. s \in Seq(Objects) /\ s # << >>  BY <1>2 DEF Jobs
<1>4. n \in Nat /\ n >= 1 /\ DOMAIN s = 1 .. n /\ \A i \in 1 .. n : s[i] \in Objects
  BY <1>3, LenProperties, EmptySeq
<1>5. Head(s) = s[1] /\ 1 \in 1 .. n  BY <1>3, <1>4
<1> PICK t : t = Tail(s)  OBVIOUS
<1>6. t \in Seq(Objects) /\ Len(t) = n - 1 /\ \A i \in 1 .. n - 1 : t[i] = s[i + 1]
  BY <1>3, <1>4, HeadTailProperties
<1>7. DOMAIN t = 1 .. n - 1  BY <1>6, LenProperties
<1>8. Head(s) \in Range(s) /\ Head(s) \in Objects  BY <1>4, <1>5 DEF Range
<1>9. ASSUME NEW o \in Range(s), o # Head(s)  PROVE o \in Range(t)
  <2> PICK i \in 1 .. n : s[i] = o  BY <1>4 DEF Range
  <2>1. i - 1 \in 1 .. n - 1 /\ i - 1 + 1 = i  BY <1>4, <1>5, <1>9
  <2> QED  BY <1>6, <1>7, <2>1, ZenonT(30) DEF Range
<1>10. ASSUME NEW o \in Range(t)  PROVE o \in Range(s)
  <2> PICK i \in 1 .. n - 1 : t[i] = o  BY <1>7 DEF Range
  <2>1. i + 1 \in 1 .. n  BY <1>4
  <2> QED  BY <1>4, <1>6, <2>1 DEF Range
<1>11. n # 1 => t # << >>
  <2>1. n # 1 => Len(t) # 0  BY <1>4, <1>6
  <2> QED  BY <1>6, <2>1, EmptySeq
<1>12. Head(s) \in Attached /\ (NotBlind => held[Head(s)] = Both)
  BY <1>1, <1>8 DEF TreeInv, Resolvable, NotBlind
<1> QED  BY <1>1, <1>2, <1>6, <1>8, <1>9, <1>10, <1>11, <1>12

\* The application begins to save objects that are in memory.
LEMMA BeginsTree ==
  ASSUME TreeInv, SaveInv',
         NEW op \in {"save", "saveall", "pageout"}, NEW todo \in Seq(Objects) \ {<< >>},
         Begins(op, todo), \A o \in Range(todo) : o \in Attached /\ MaySave(o),
         op = "pageout" => Len(todo) = 1,
         op = "saveall" => Attached \subseteq Range(todo)
  PROVE  TreeInv'
<1>1. /\ job' = [op |-> op, todo |-> todo, at |-> "backup"]
      /\ UNCHANGED <<file, saved, gen, data, deps, kids, want, held, tree>>
  BY DEF Begins, disk, memory, belief
<1>2. MemoryType' /\ DiskType' /\ InTree'
  BY <1>1 DEF TreeInv, MemoryType, DiskType, InTree, Attached
<1>3. job' \in Jobs /\ job'.op = op /\ job'.todo = todo /\ job'.at = "backup"
  BY <1>1 DEF Jobs
<1>4. Attached' = Attached /\ held' = held /\ deps' = deps  BY <1>1 DEF Attached
<1>5. Resolvable'
  <2>1. \A o \in Range(todo) : o \in Attached /\ (NotBlind => held[o] = Both)
    BY DEF MaySave, NotBlind
  <2> QED  BY <1>3, <1>4, <2>1 DEF TreeInv, Resolvable, NotBlind
<1>6. NamesWritten' /\ TreeWritten'
  BY <1>3, <1>4 DEF NamesWritten, TreeWritten, NotBlind
<1>7. Reloads'  BY <1>1 DEF TreeInv, Reloads, Reloadable, Complete, NotBlind
<1> QED  BY <1>2, <1>3, <1>5, <1>6, <1>7 DEF TreeInv

LEMMA SaveCallsTree ==
  ASSUME TreeInv, SaveInv',
         SaveAll \/ \E o \in Objects : Save(o) \/ PageOut(o)
  PROVE  TreeInv'
<1>1. ASSUME NEW o \in Objects, Save(o) \/ PageOut(o)  PROVE TreeInv'
  <2>1. Range(<<o>>) = {o} /\ Len(<<o>>) = 1 /\ <<o>> \in Seq(Objects) \ {<< >>}
    BY DEF Range
  <2>2. o \in Attached /\ MaySave(o) /\ (Begins("save", <<o>>) \/ Begins("pageout", <<o>>))
    BY <1>1 DEF Save, PageOut
  <2> QED  BY <2>1, <2>2, BeginsTree
<1>2. CASE SaveAll
  <2> PICK s : s = kids  OBVIOUS
  <2>1. s \in Seq(Kids) /\ s \in Seq(Objects) /\ Root \in Objects
    <3>1. s \in Seq(Kids)  BY DEF TreeInv, MemoryType
    <3> QED  BY <3>1, Constants
  <2> PICK t : t = <<Root>> \o s  OBVIOUS
  <2> PICK n \in Nat : n = Len(s) /\ DOMAIN s = 1 .. n  BY <2>1
  <2>2. /\ t \in Seq(Objects) /\ DOMAIN t = 1 .. n + 1 /\ t[1] = Root
        /\ \A i \in 1 .. n : t[i + 1] = s[i]
    BY <2>1
  <2>3. t # << >>
    <3>1. 1 \in DOMAIN t  BY <2>2
    <3> QED  BY <3>1
  <2>4. \A i \in 1 .. n + 1 : i = 1 \/ (i - 1 \in 1 .. n /\ t[i] = s[i - 1])
    BY <2>2
  <2>5. \A o \in Range(t) : o = Root \/ o \in Range(s)
    BY <2>2, <2>4 DEF Range
  <2>6. Root \in Range(t) /\ \A o \in Range(s) : o \in Range(t)
    <3>1. \A i \in 1 .. n : i + 1 \in 1 .. n + 1  OBVIOUS
    <3>2. 1 \in 1 .. n + 1  OBVIOUS
    <3>3. Root \in Range(t)  BY <2>2, <3>2 DEF Range
    <3>4. ASSUME NEW o \in Range(s)  PROVE o \in Range(t)
      <4> PICK i \in 1 .. n : s[i] = o  BY DEF Range
      <4> QED  BY <2>2, <3>1 DEF Range
    <3> QED  BY <3>3, <3>4
  <2>7. Begins("saveall", t) /\ \A o \in Attached : MaySave(o)  BY <1>2 DEF SaveAll
  <2> QED  BY <2>2, <2>3, <2>5, <2>6, <2>7, BeginsTree DEF Attached
<1> QED  BY <1>1, <1>2

LEMMA BackupTree ==
  ASSUME TreeInv, SaveInv', Backup
  PROVE  TreeInv'
<1> DEFINE h == Head(job.todo)
<1>1. /\ job.at = "backup" /\ job' = [job EXCEPT !.at = "open"]
      /\ file' = [file EXCEPT ![h] = Missing] \/ file' = file
      /\ tree' = FALSE
      /\ UNCHANGED <<saved, gen, data, deps, kids, want, held>>
  BY DEF Backup, BackupObjectFile, At, Goes, memory
<1>2. job \in Jobs /\ job # NoJob /\ h \in Objects /\ h \in Range(job.todo)  BY <1>1, AtWork
<1>3. job' \in Jobs /\ job'.op = job.op /\ job'.todo = job.todo /\ job'.at = "open"
  BY <1>1, <1>2 DEF Jobs
<1>4. /\ file'[h] = Missing \/ file'[h] = file[h]
      /\ \A o \in Objects : o # h => file'[o] = file[o]
  BY <1>1, <1>2 DEF TreeInv, SaveInv, Shape
<1>5. MemoryType' /\ DiskType' /\ InTree'
  BY <1>1, <1>4 DEF TreeInv, MemoryType, DiskType, InTree, Attached
<1>6. Resolvable'
  BY <1>1, <1>2, <1>3 DEF TreeInv, Resolvable, Attached, NotBlind
<1>7. NamesWritten' /\ Reloads'  BY <1>1, <1>3 DEF NamesWritten, Reloads, Reloadable, NotBlind
<1>8. TreeWritten'
  <2> HIDE DEF h
  <2>1. Attached' = Attached /\ Attached \subseteq Objects
    BY <1>1, AttachedObjects DEF Attached, TreeInv, MemoryType
  <2>2. ASSUME NotBlind, job.op = "saveall", NEW o \in Attached, o \notin Range(job.todo)
        PROVE  (Complete(file[o]) /\ Names(o))'
    <3>1. Complete(file[o]) /\ Names(o)  BY <2>2 DEF TreeInv, TreeWritten, NotBlind
    <3>2. file'[o] = file[o] /\ kids' = kids  BY <1>1, <1>2, <1>4, <2>1, <2>2
    <3> QED  BY <2>1, <3>1, <3>2 DEF Complete, Names
  <2> QED  BY <1>3, <2>1, <2>2 DEF TreeWritten, NotBlind
<1> QED  BY <1>1, <1>5, <1>6, <1>7, <1>8 DEF TreeInv

LEMMA SaveFailsTree ==
  ASSUME TreeInv, SaveInv', SaveFails
  PROVE  TreeInv'
<1>1. /\ job' = NoJob
      /\ UNCHANGED <<file, saved, gen, data, deps, kids, want, held, tree>>
  BY DEF SaveFails, disk, memory, belief
<1>2. MemoryType' /\ InTree'  BY <1>1 DEF TreeInv, MemoryType, InTree, Attached
<1>3. \A o \in Objects : "gen" \in held'[o] => \A d \in Objects : deps'[o][d] # "path"
  BY <1>1 DEF TreeInv, Resolvable, NotBlind
<1> QED  BY <1>1, <1>2, <1>3, NoSaveGoesOn

\* A step of a save that writes to the file of the object, which goes on to be written.
LEMMA WritesTree ==
  ASSUME TreeInv, SaveInv', job.at \in {"open", "class"},
         job' = [job EXCEPT !.at = "class"],
         NEW a \in Archive, file' = [file EXCEPT ![Head(job.todo)] = a],
         NotBlind => a.deps \subseteq Attached /\ (Head(job.todo) = Root => a.kids = kids),
         UNCHANGED <<saved, gen, data, deps, kids, want, held, tree>>
  PROVE  TreeInv'
<1> DEFINE h == Head(job.todo)
<1>1. job \in Jobs /\ job # NoJob /\ h \in Objects /\ h \in Range(job.todo)  BY AtWork
<1>2. /\ job' \in Jobs /\ job'.op = job.op /\ job'.todo = job.todo /\ job'.at = "class"
      /\ ~tree
  BY <1>1 DEF Jobs, TreeInv
<1>3. file'[h] = a /\ \A o \in Objects : o # h => file'[o] = file[o]
  BY <1>1 DEF TreeInv, SaveInv, Shape
<1>4. MemoryType' /\ DiskType' /\ InTree'
  BY <1>3 DEF TreeInv, MemoryType, DiskType, InTree, Attached
<1>5. Resolvable'
  BY <1>1, <1>2 DEF TreeInv, Resolvable, Attached, NotBlind
<1>6. Attached' = Attached /\ Attached \subseteq Objects
  BY AttachedObjects DEF Attached, TreeInv, MemoryType
<1>7. NamesWritten'
  BY <1>2, <1>3, <1>6 DEF NamesWritten, Names, NotBlind
<1>8. TreeWritten'
  <2> HIDE DEF h
  <2>1. ASSUME NotBlind, job.op = "saveall", NEW o \in Attached, o \notin Range(job.todo)
        PROVE  (Complete(file[o]) /\ Names(o))'
    <3>1. Complete(file[o]) /\ Names(o)  BY <2>1 DEF TreeInv, TreeWritten, NotBlind
    <3>2. file'[o] = file[o]  BY <1>1, <1>3, <1>6, <2>1
    <3> QED  BY <1>6, <3>1, <3>2 DEF Complete, Names
  <2> QED  BY <1>2, <1>6, <2>1 DEF TreeWritten, NotBlind
<1>9. ~tree'  BY <1>2
<1> QED  BY <1>4, <1>5, <1>7, <1>8, <1>9 DEF TreeInv, Reloads, Reloadable, NotBlind

LEMMA SerializeGenericTree ==
  ASSUME TreeInv, SaveInv', SerializeGeneric
  PROVE  TreeInv'
<1> PICK h : h = Head(job.todo)  OBVIOUS
<1> PICK a : a = [len |-> 2, gen |-> gen[h], data |-> Nothing,
                  deps |-> {d \in Objects : deps[h][d] # "none"},
                  kids |-> IF h = Root THEN kids ELSE << >>]  OBVIOUS
<1>1. /\ job.at = "open" /\ job' = [job EXCEPT !.at = "class"]
      /\ file' = [file EXCEPT ![h] = a]
      /\ UNCHANGED <<saved, gen, data, deps, kids, want, held, tree>>
  BY DEF SerializeGeneric, At, Goes, memory, belief
<1>2. h \in Objects /\ h \in Attached /\ (NotBlind => held[h] = Both)  BY <1>1, AtWork
<1>3. MemoryType /\ InTree /\ Resolvable  BY DEF TreeInv
<1>4. ASSUME NotBlind  PROVE a.deps \subseteq Attached
  <2>1. \A d \in Objects : deps[h][d] # "path"  BY <1>2, <1>3, <1>4 DEF Resolvable, Both, NotBlind
  <2>2. \A d \in Objects : deps[h][d] \in {"none", "path", "obj"}  BY <1>2, <1>3 DEF MemoryType
  <2> QED  BY <1>2, <1>3, <2>1, <2>2 DEF InTree
<1>5. a \in Archive
  <2>1. gen[h] \in Values /\ kids \in Seq(Kids) /\ << >> \in Seq(Kids)
    BY <1>2, <1>3 DEF MemoryType
  <2>2. 2 \in 0 .. Whole /\ Nothing \in Dataset  BY WholeNat, Constants
  <2> QED  BY <2>1, <2>2 DEF Archive
<1>6. h = Root => a.kids = kids  OBVIOUS
<1> QED  BY <1>1, <1>4, <1>5, <1>6, WritesTree

\* While an object is being saved its file is one of the archives, and is not complete
\* before all classes are written.
LEMMA WorkFile ==
  ASSUME TreeInv, job.at = "class"
  PROVE  LET h == Head(job.todo) IN
         /\ h \in Objects /\ file[h] \in Archive /\ file[h] # Missing /\ Written(h)
         /\ NotBlind => Names(h)
<1> PICK h : h = Head(job.todo)  OBVIOUS
<1>1. h \in Objects  BY AtWork
<1>2. Written(h)  BY <1>1 DEF TreeInv, SaveInv, Phases, At
<1>3. file[h].len # Missing.len  BY <1>2, WholeNat DEF Written, Missing
<1>4. file[h] \in Archive /\ file[h] # Missing  BY <1>1, <1>3 DEF TreeInv, DiskType
<1>5. NotBlind => Names(h)  BY DEF TreeInv, NamesWritten, NotBlind
<1> QED  BY <1>1, <1>2, <1>4, <1>5

LEMMA SerializeClassTree ==
  ASSUME TreeInv, SaveInv', SerializeClass
  PROVE  TreeInv'
<1> PICK h : h = Head(job.todo)  OBVIOUS
<1> PICK f : f = file[h]  OBVIOUS
<1> PICK a : a = WithClass(f, f.len - 1, data[h][f.len - 1])  OBVIOUS
<1>1. /\ job.at = "class" /\ f.len < Whole /\ job' = job
      /\ file' = [file EXCEPT ![h] = a]
      /\ UNCHANGED <<saved, gen, data, deps, kids, want, held, tree>>
  BY DEF SerializeClass, At, memory, belief
<1>2. h \in Objects /\ f \in Archive /\ Written(h) /\ (NotBlind => Names(h))  BY <1>1, WorkFile
<1>3. job \in Jobs  BY <1>1, AtWork
<1>4. job' = [job EXCEPT !.at = "class"]  BY <1>1, <1>3 DEF Jobs
<1>5. f.len - 1 \in Classes /\ f.len + 1 \in 0 .. Whole
  <2>1. f.len \in 2 .. Whole  BY <1>2 DEF Written
  <2>2. NHier \in Nat /\ Whole = NHier + 2  BY BoundsAssumption DEF Whole
  <2> QED  BY <1>1, <2>1, <2>2 DEF Classes
<1>6. data[h] \in Dataset  BY <1>2 DEF TreeInv, MemoryType
<1>7. [f.data EXCEPT ![f.len - 1] = data[h][f.len - 1]] \in Dataset
  BY <1>2, <1>5, <1>6 DEF Archive, Dataset
<1>8. a \in Archive /\ a.deps = f.deps /\ a.kids = f.kids
  BY <1>2, <1>5, <1>7 DEF WithClass, Archive
<1>9. NotBlind => a.deps \subseteq Attached /\ (h = Root => a.kids = kids)
  BY <1>2, <1>8 DEF Names
<1> QED  BY <1>1, <1>4, <1>8, <1>9, WritesTree

LEMMA CloseFileTree ==
  ASSUME TreeInv, SaveInv', CloseFile
  PROVE  TreeInv'
<1> PICK h : h = Head(job.todo)  OBVIOUS
<1> DEFINE last == Len(job.todo) = 1
           frees == job.op = "pageout" /\ h \notin Remain
<1>1. /\ job.at = "class" /\ file[h].len = Whole
      /\ job' = IF last THEN NoJob ELSE [job EXCEPT !.todo = Tail(@), !.at = "backup"]
      /\ data' = IF frees THEN [data EXCEPT ![h] = Nothing] ELSE data
      /\ held' = IF frees THEN [held EXCEPT ![h] = @ \ {"data"}] ELSE held
      /\ saved' = [saved EXCEPT ![h] = [gen |-> gen[h], data |-> data[h]]]
      /\ tree' = (last /\ job.op = "saveall")
      /\ UNCHANGED <<file, gen, deps, kids, want>>
  BY DEF CloseFile, At, disk
<1>2. h \in Objects /\ file[h] \in Archive /\ file[h] # Missing /\ (NotBlind => Names(h))
  BY <1>1, WorkFile
<1>3. /\ job \in Jobs /\ job # NoJob
      /\ \A o \in Range(job.todo) : o = h \/ o \in Range(Tail(job.todo))
      /\ Len(job.todo) # 1 => Tail(job.todo) \in Seq(Objects) \ {<< >>}
      /\ Range(Tail(job.todo)) \subseteq Range(job.todo)
  BY <1>1, AtWork
<1>4. MemoryType /\ Resolvable  BY DEF TreeInv
<1>5. \A o \in Objects : /\ held'[o] \in SUBSET Both /\ "gen" \in held'[o] => "gen" \in held[o]
  BY <1>1, <1>2, <1>4 DEF MemoryType
<1>6. held' \in [Objects -> SUBSET Both] /\ data' \in [Objects -> Dataset]
  <2> PICK x : x = held[h] \ {"data"}  OBVIOUS
  <2>1. x \in SUBSET Both  BY <1>2, <1>4 DEF MemoryType
  <2>2. held \in [Objects -> SUBSET Both] /\ data \in [Objects -> Dataset]
    BY <1>4 DEF MemoryType
  <2>3. held' = held \/ held' = [held EXCEPT ![h] = x]  BY <1>1
  <2>4. data' = data \/ data' = [data EXCEPT ![h] = Nothing]  BY <1>1
  <2>5. held' \in [Objects -> SUBSET Both]  BY <2>1, <2>2, <2>3
  <2>6. data' \in [Objects -> Dataset]  BY <2>2, <2>4, Constants
  <2> QED  BY <2>5, <2>6
<1>7. MemoryType'  BY <1>1, <1>4, <1>6 DEF MemoryType
<1>8. DiskType'
  <2>1. [gen |-> gen[h], data |-> data[h]] \in Contents
    BY <1>2, <1>4 DEF MemoryType, Contents
  <2> PICK c \in Contents : c = [gen |-> gen[h], data |-> data[h]]  BY <2>1
  <2>2. \A o \in Objects : saved'[o] = saved[o] \/ saved'[o] = c
    BY <1>1, <1>2 DEF TreeInv, SaveInv, Shape
  <2> QED  BY <1>1, <2>2 DEF TreeInv, DiskType
<1>9. InTree' /\ Attached' = Attached  BY <1>1 DEF TreeInv, InTree, Attached
<1>10. \A o \in Objects : "gen" \in held'[o] => \A d \in Objects : deps'[o][d] # "path"
  BY <1>1, <1>4, <1>5 DEF Resolvable, NotBlind
<1>11. Complete(file[h])'  BY <1>1, <1>2 DEF Complete
<1>12. ASSUME NotBlind, job.op = "saveall", NEW o \in Attached, o \notin Range(Tail(job.todo))
       PROVE  (Complete(file[o]) /\ Names(o))'
  <2>1. CASE o = h
    <3>1. file[o].deps \subseteq Attached /\ (o = Root => file[o].kids = kids)
      BY <1>2, <1>12, <2>1 DEF Names
    <3> QED  BY <1>1, <1>2, <1>9, <2>1, <3>1 DEF Names, Complete
  <2>2. CASE o # h
    <3>1. Complete(file[o]) /\ Names(o)  BY <1>3, <1>12, <2>2 DEF TreeInv, TreeWritten, NotBlind
    <3> QED  BY <1>1, <1>9, <3>1 DEF Complete, Names
  <2> QED  BY <2>1, <2>2
<1>13. CASE ~last
  <2>1. /\ job' \in Jobs /\ job'.op = job.op /\ job'.todo = Tail(job.todo) /\ job'.at = "backup"
    BY <1>1, <1>3, <1>13 DEF Jobs
  <2>2. job.op # "pageout" /\ held' = held  BY <1>1, <1>4, <1>13 DEF Resolvable, NotBlind
  <2>3. Resolvable'
    BY <1>3, <1>4, <1>9, <1>10, <2>1, <2>2 DEF Resolvable, NotBlind
  <2>4. NamesWritten' /\ TreeWritten'
    BY <1>9, <1>12, <2>1 DEF NamesWritten, TreeWritten, NotBlind
  <2>5. ~tree'  BY <1>1, <1>13
  <2> QED  BY <1>7, <1>8, <1>9, <2>1, <2>3, <2>4, <2>5 DEF TreeInv, Reloads, Reloadable, NotBlind
<1>14. CASE last
  <2>1. job' = NoJob /\ job'.op = "none" /\ job'.at = "idle"  BY <1>1, <1>14, Constants
  <2>2. Resolvable' /\ NamesWritten' /\ TreeWritten'
    BY <1>10, <2>1 DEF Resolvable, NamesWritten, TreeWritten, NotBlind
  <2>3. Reloads'
    <3> SUFFICES ASSUME NotBlind, job.op = "saveall" PROVE Reloads'
      BY <1>1 DEF Reloads, Reloadable, NotBlind
    <3>1. Range(Tail(job.todo)) = {}
      <4> PICK s : s = job.todo  OBVIOUS
      <4>1. s \in Seq(Objects) /\ s # << >> /\ Len(s) = 1  BY <1>3, <1>14 DEF Jobs
      <4>2. Tail(s) \in Seq(Objects) /\ Len(Tail(s)) = 0  BY <4>1, HeadTailProperties
      <4> PICK t : t = Tail(s)  OBVIOUS
      <4>3. DOMAIN t = 1 .. 0  BY <4>2, LenProperties
      <4>4. 1 .. 0 = {}  OBVIOUS
      <4> QED  BY <4>3, <4>4 DEF Range
    <3>2. \A o \in Attached : (Complete(file[o]) /\ Names(o))'  BY <1>12, <3>1
    <3>3. Root \in Attached  BY DEF Attached
    <3>4. Attached' = {Root} \cup Range(file'[Root].kids)
      BY <1>9, <3>2, <3>3, Constants DEF Names, Attached
    <3> QED  BY <1>9, <3>2, <3>4 DEF Reloads, Reloadable, Names, NotBlind
  <2> QED  BY <1>7, <1>8, <1>9, <2>1, <2>2, <2>3 DEF TreeInv
<1> QED  BY <1>13, <1>14
-----------------------------------------------------------------------------
(* The program ends, and is started again *)

LEMMA RestartsTree ==
  ASSUME TreeInv, SaveInv', Restarts, file' = file \/ (~tree /\ DiskType')
  PROVE  TreeInv'
<1>1. /\ gen' = [o \in Objects |-> 0] /\ data' = [o \in Objects |-> Nothing]
      /\ deps' = [o \in Objects |-> NoDeps] /\ kids' = Started /\ job' = NoJob
      /\ want' = [o \in Objects |-> Fresh]
      /\ held' = [o \in Objects |-> IF o \in AtStart THEN Both ELSE {}]
      /\ UNCHANGED <<saved, tree>>
  BY DEF Restarts
<1>2. MemoryType'
  <2>1. kids' \in Seq(Kids)  BY <1>1, ObjectsAssumption
  <2>2. Both \in SUBSET Both /\ {} \in SUBSET Both  OBVIOUS
  <2>3. held' \in [Objects -> SUBSET Both]  BY <1>1, <2>2
  <2>4. gen' \in [Objects -> Values] /\ data' \in [Objects -> Dataset]  BY <1>1, Constants
  <2>5. want' \in [Objects -> Contents]  BY <1>1, Constants
  <2>6. deps' \in [Objects -> [Objects -> {"none", "path", "obj"}]]  BY <1>1, Constants
  <2> QED  BY <2>1, <2>3, <2>4, <2>5, <2>6 DEF MemoryType
<1>3. \A o \in Objects, d \in Objects : deps'[o][d] = "none"  BY <1>1, Constants
<1>4. InTree'  BY <1>3 DEF InTree
<1> QED  BY <1>1, <1>2, <1>3, <1>4, NoSaveGoesOn

\* What is left of an archive that was being written.
LEMMA PrefixFacts ==
  ASSUME NEW a \in Archive, NEW n \in 0 .. a.len
  PROVE  Prefix(a, n) \in Archive /\ (n = Whole => Prefix(a, n).data = a.data)
<1>1. a.len \in 0 .. Whole /\ a.data \in Dataset  BY DEF Archive
<1>2. n \in 0 .. Whole  BY <1>1, WholeNat
<1> PICK d : d = [i \in Classes |-> IF i + 2 <= n THEN a.data[i] ELSE 0]  OBVIOUS
<1>3. d \in Dataset  BY <1>1, Constants DEF Dataset
<1>4. << >> \in Seq(Kids)  OBVIOUS
<1>5. Prefix(a, n) = [len |-> n,
                      gen |-> IF n < 2 THEN 0 ELSE a.gen,
                      deps |-> IF n < 2 THEN {} ELSE a.deps,
                      kids |-> IF n < 2 THEN << >> ELSE a.kids,
                      data |-> d]
  BY DEF Prefix
<1>6. Prefix(a, n) \in Archive  BY <1>2, <1>3, <1>4, <1>5, Constants DEF Archive
<1>7. n = Whole => d = a.data
  <2>1. \A i \in Classes : i + 2 <= Whole  BY BoundsAssumption DEF Classes, Whole
  <2>2. n = Whole => \A i \in Classes : d[i] = a.data[i]  BY <2>1
  <2> QED  BY <1>1, <1>3, <2>2 DEF Dataset
<1> QED  BY <1>5, <1>6, <1>7

\* A crash leaves a part of the archive that was being written, and the others as they were.
LEMMA CrashFile ==
  ASSUME TreeInv, Crash
  PROVE  \/ file' = file
         \/ LET h == Head(job.todo) IN
            /\ job.at = "class" /\ h \in Objects /\ file[h] \in Archive
            /\ \E n \in 0 .. file[h].len : file' = [file EXCEPT ![h] = Prefix(file[h], n)]
<1>1. CASE job.at = "class"
  <2>1. PICK n \in 0 .. file[Head(job.todo)].len :
          file' = [file EXCEPT ![Head(job.todo)] = Prefix(@, n)]
    BY <1>1 DEF Crash, At
  <2> QED  BY <1>1, <2>1, WorkFile
<1>2. CASE job.at # "class"  BY <1>2 DEF Crash, At
<1> QED  BY <1>1, <1>2

LEMMA CrashTree ==
  ASSUME TreeInv, SaveInv', Crash
  PROVE  TreeInv'
<1>1. Restarts /\ UNCHANGED saved  BY DEF Crash, Restarts
<1>2. CASE file' = file  BY <1>1, <1>2, RestartsTree
<1>3. CASE file' # file
  <2> PICK h : h = Head(job.todo)  OBVIOUS
  <2>1. PICK n \in 0 .. file[h].len :
          /\ job.at = "class" /\ h \in Objects /\ file[h] \in Archive
          /\ file' = [file EXCEPT ![h] = Prefix(file[h], n)]
    BY <1>3, CrashFile
  <2> PICK a : a = Prefix(file[h], n)  OBVIOUS
  <2>2. a \in Archive  BY <2>1, PrefixFacts
  <2>3. \A o \in Objects : file'[o] = a \/ file'[o] = file[o]
    BY <2>1 DEF TreeInv, SaveInv, Shape
  <2>4. DiskType'  BY <1>1, <2>2, <2>3 DEF TreeInv, DiskType
  <2>5. ~tree  BY <2>1 DEF TreeInv
  <2> QED  BY <1>1, <2>4, <2>5, RestartsTree
<1> QED  BY <1>2, <1>3

-----------------------------------------------------------------------------
(* Loading *)

\* What a load of a dataset returns, and leaves in memory.
LEMMA OutcomeFacts ==
  ASSUME NEW f, f = Missing \/ f \in Archive, NEW d \in Dataset,
         NEW r \in LoadDataFromFile(f, d)
  PROVE  /\ r.res \in {"missing", "failed", "fatal", "ok"} /\ r.data \in Dataset
         /\ f = Missing => r.res = "missing" /\ r.data = d
         /\ r.res = "missing" => f = Missing
         /\ r.res = "ok" => f \in Archive /\ f # Missing /\ f.len = Whole /\ r.data = f.data
<1> DEFINE read(n) == [i \in Classes |-> IF i <= n THEN f.data[i] ELSE 0]
<1>1. CASE f = Missing
  <2>1. Status(f) = "missing"  BY <1>1 DEF Status
  <2>2. r = Outcome("missing", d)  BY <2>1 DEF LoadDataFromFile
  <2> QED  BY <1>1, <2>2 DEF Outcome
<1>2. CASE f # Missing
  <2>1. f \in Archive /\ f.data \in Dataset /\ f.len \in 0 .. Whole  BY <1>2 DEF Archive
  <2>2. \A n \in 0 .. NHier : read(n) \in Dataset  BY <2>1, Constants DEF Dataset
  <2>3. Status(f) \in {"bad", "cut", "ok"}  BY <1>2 DEF Status
  <2>4. read(NHier) = f.data
    <3>1. \A i \in Classes : i <= NHier  BY BoundsAssumption DEF Classes
    <3>2. NHier \in 0 .. NHier  BY BoundsAssumption
    <3>3. read(NHier) \in Dataset /\ f.data \in Dataset  BY <2>1, <2>2, <3>2
    <3>4. \A i \in Classes : read(NHier)[i] = f.data[i]  BY <3>1
    <3> HIDE DEF read
    <3> QED  BY <3>3, <3>4 DEF Dataset
  <2>5. CASE Status(f) = "bad"
    <3>1. r = Outcome("failed", d)  BY <2>5 DEF LoadDataFromFile
    <3> QED  BY <1>2, <3>1 DEF Outcome
  <2>6. CASE Status(f) = "cut"
    <3>1. r = Outcome("failed", d) \/ r = Outcome("fatal", d)
      BY <2>6 DEF LoadDataFromFile
    <3> QED  BY <1>2, <3>1 DEF Outcome
  <2>7. CASE Status(f) = "ok"
    <3>1. r \in {Outcome("failed", read(n)) : n \in {m \in 0 .. f.len - 2 : m < NHier}}
                  \cup (IF f.len - 2 = NHier THEN {Outcome("ok", read(NHier))}
                        ELSE {Outcome("fatal", d)})
                  \cup (IF f.len - 2 = 0 THEN {Outcome("failed", d)} ELSE {})
      BY <2>7 DEF LoadDataFromFile
    <3>2. \/ \E n \in 0 .. NHier : r = Outcome("failed", read(n))
          \/ f.len - 2 = NHier /\ r = Outcome("ok", read(NHier))
          \/ r = Outcome("fatal", d) \/ r = Outcome("failed", d)
      <4>1. \A n \in {m \in 0 .. f.len - 2 : m < NHier} : n \in 0 .. NHier
        BY <2>1, WholeNat
      <4> HIDE DEF read
      <4> QED  BY <3>1, <4>1
    <3>3. f.len - 2 = NHier => f.len = Whole  BY <2>1, WholeNat DEF Whole
    <3> HIDE DEF read
    <3> QED  BY <1>2, <2>1, <2>2, <2>4, <3>2, <3>3 DEF Outcome
  <2> QED  BY <2>3, <2>5, <2>6, <2>7
<1> QED  BY <1>1, <1>2

\* A dataset is paged in, or the program ends in the middle of the file.
LEMMA PageInFacts ==
  ASSUME MemoryType, DiskType, NEW o \in Objects, PageIn(o)
  PROVE  \/ Restarts /\ UNCHANGED file
         \/ \E r \in (IF o \in resident THEN {Outcome("resident", data[o])}
                      ELSE LoadDataFromFile(file[o], data[o])) :
              /\ r.data \in Dataset /\ r.res # "fatal"
              /\ Idle /\ MayPageIn(o) /\ o \in Attached
              /\ data' = [data EXCEPT ![o] = r.data]
              /\ resident' = IF r.res = "missing" THEN resident \cup {o} ELSE resident
              /\ held' = [held EXCEPT ![o] = IF r.res = "failed" THEN held[o] \ {"data"}
                                             ELSE held[o] \cup {"data"}]
              /\ paged' = IF r.res = "failed" THEN paged \ {o} ELSE paged \cup {o}
              /\ want' = IF r.res = "failed" THEN want
                         ELSE [want EXCEPT ![o] = [gen |-> want[o].gen,
                                                   data |-> Expected(o, r.data)]]
              /\ UNCHANGED <<file, bak, gen, deps, kids, job, saved, cut, tree>>
<1> DEFINE outcomes == IF o \in resident THEN {Outcome("resident", data[o])}
                       ELSE LoadDataFromFile(file[o], data[o])
<1>1. data[o] \in Dataset /\ (file[o] = Missing \/ file[o] \in Archive) /\ want[o] \in Contents
  BY DEF MemoryType, DiskType
<1>2. ASSUME NEW r \in outcomes  PROVE r.data \in Dataset
  <2>1. CASE o \in resident
    <3>1. r = Outcome("resident", data[o])  BY <2>1
    <3> QED  BY <1>1, <3>1 DEF Outcome
  <2>2. CASE o \notin resident
    <3>1. r \in LoadDataFromFile(file[o], data[o])  BY <2>2
    <3> QED  BY <1>1, <3>1, OutcomeFacts
  <2> QED  BY <2>1, <2>2
<1>3. PICK r \in outcomes :
        \/ r.res = "fatal" /\ Restarts /\ UNCHANGED <<file, faults>>
        \/ /\ r.res # "fatal"
           /\ data' = [data EXCEPT ![o] = r.data]
           /\ resident' = IF r.res = "missing" THEN resident \cup {o} ELSE resident
           /\ held' = [held EXCEPT ![o] = IF r.res = "failed" THEN @ \ {"data"}
                                          ELSE @ \cup {"data"}]
           /\ paged' = IF r.res = "failed" THEN paged \ {o} ELSE paged \cup {o}
           /\ want' = IF r.res = "failed" THEN want
                      ELSE [want EXCEPT ![o].data = Expected(o, r.data)]
           /\ UNCHANGED <<disk, gen, deps, kids, job, faults, saved, cut, tree>>
  BY DEF PageIn
<1>4. CASE r.res = "fatal"  BY <1>3, <1>4
<1>5. CASE r.res # "fatal"
  <2>1. Idle /\ MayPageIn(o) /\ o \in Attached  BY DEF PageIn, Calls
  <2>2. [want EXCEPT ![o].data = Expected(o, r.data)]
          = [want EXCEPT ![o] = [gen |-> want[o].gen, data |-> Expected(o, r.data)]]
    <3> PICK e : e = Expected(o, r.data)  OBVIOUS
    <3>1. [want[o] EXCEPT !.data = e] = [gen |-> want[o].gen, data |-> e]
      BY <1>1 DEF Contents
    <3> QED  BY <3>1
  <2>3. held' = [held EXCEPT ![o] = IF r.res = "failed" THEN held[o] \ {"data"}
                                    ELSE held[o] \cup {"data"}]
    BY <1>3, <1>5
  <2>4. UNCHANGED <<file, bak, gen, deps, kids, job, saved, cut, tree>>
    BY <1>3, <1>5 DEF disk
  <2>5. want' = IF r.res = "failed" THEN want
                ELSE [want EXCEPT ![o] = [gen |-> want[o].gen, data |-> Expected(o, r.data)]]
    BY <1>3, <1>5, <2>2
  <2> HIDE DEF outcomes
  <2>6. r.data \in Dataset  BY <1>2
  <2>7. /\ data' = [data EXCEPT ![o] = r.data]
        /\ resident' = IF r.res = "missing" THEN resident \cup {o} ELSE resident
        /\ paged' = IF r.res = "failed" THEN paged \ {o} ELSE paged \cup {o}
    BY <1>3, <1>5
  <2> QED  BY <1>5, <2>1, <2>3, <2>4, <2>5, <2>6, <2>7 DEF outcomes
<1> QED  BY <1>4, <1>5

LEMMA PageInTree ==
  ASSUME TreeInv, SaveInv', NEW o \in Objects, PageIn(o)
  PROVE  TreeInv'
<1>1. MemoryType /\ DiskType  BY DEF TreeInv
<1>2. CASE Restarts /\ UNCHANGED file  BY <1>2, RestartsTree
<1>3. CASE ~(Restarts /\ UNCHANGED file)
  <2>1. PICK r \in (IF o \in resident THEN {Outcome("resident", data[o])}
                    ELSE LoadDataFromFile(file[o], data[o])) :
          /\ r.data \in Dataset /\ Idle
          /\ data' = [data EXCEPT ![o] = r.data]
          /\ held' = [held EXCEPT ![o] = IF r.res = "failed" THEN held[o] \ {"data"}
                                         ELSE held[o] \cup {"data"}]
          /\ want' = IF r.res = "failed" THEN want
                     ELSE [want EXCEPT ![o] = [gen |-> want[o].gen,
                                               data |-> Expected(o, r.data)]]
          /\ UNCHANGED <<file, gen, deps, kids, job, saved, tree>>
    BY <1>1, <1>3, PageInFacts
  <2>2. job = NoJob /\ job' = NoJob  BY <2>1 DEF Idle
  <2>3. data' \in [Objects -> Dataset]  BY <1>1, <2>1 DEF MemoryType
  <2> PICK h : h = IF r.res = "failed" THEN held[o] \ {"data"} ELSE held[o] \cup {"data"}
    OBVIOUS
  <2>4. h \in SUBSET Both /\ ("gen" \in h => "gen" \in held[o])  BY <1>1 DEF MemoryType, Both
  <2>5. held' \in [Objects -> SUBSET Both]  BY <1>1, <2>1, <2>4 DEF MemoryType
  <2>6. \A x \in Objects : "gen" \in held'[x] => "gen" \in held[x]
    BY <1>1, <2>1, <2>4 DEF MemoryType
  <2> PICK w : w = [gen |-> want[o].gen, data |-> Expected(o, r.data)]  OBVIOUS
  <2>7. w \in Contents
    <3>1. want[o] \in Contents /\ (saved[o] = Missing \/ saved[o] \in Contents)
      BY <1>1 DEF MemoryType, DiskType
    <3>2. Expected(o, r.data) \in Dataset  BY <2>1, <3>1 DEF Expected, Contents
    <3> QED  BY <3>1, <3>2 DEF Contents
  <2>8. want' = want \/ want' = [want EXCEPT ![o] = w]  BY <2>1
  <2>9. want' \in [Objects -> Contents]  BY <1>1, <2>7, <2>8 DEF MemoryType
  <2>10. MemoryType'  BY <1>1, <2>1, <2>3, <2>5, <2>9 DEF MemoryType
  <2>11. InTree'  BY <2>1 DEF TreeInv, InTree, Attached
  <2>12. \A x \in Objects : "gen" \in held'[x] => \A d \in Objects : deps'[x][d] # "path"
    BY <2>1, <2>6 DEF TreeInv, Resolvable, NotBlind
  <2> QED  BY <2>1, <2>2, <2>10, <2>11, <2>12, NoSaveGoesOn
<1> QED  BY <1>2, <1>3

\* The children that a load of the tree tries to load.
LoadTries == IF Status(file[Root]) = "ok" THEN Range(Tried(file[Root].kids)) ELSE {}

\* An archive that has a generic part.
LEMMA StatusFacts ==
  ASSUME DiskType, NEW o \in Objects
  PROVE  /\ file[o] = Missing <=> Status(file[o]) = "missing"
         /\ Status(file[o]) # "missing" => file[o] \in Archive
<1>1. file[o] = Missing => Status(file[o]) = "missing"  BY DEF Status
<1>2. file[o] # Missing => Status(file[o]) # "missing"  BY DEF Status
<1> QED  BY <1>1, <1>2 DEF DiskType

\* What the generic parts leave in memory.
GenericOutcome(g) ==
  /\ g.gen \in [Objects -> Values] /\ g.data \in [Objects -> Dataset]
  /\ g.deps \in [Objects -> [Objects -> {"none", "path", "obj"}]] /\ g.kids \in Seq(Kids)
  /\ {Root} \cup Range(g.kids) = Attached \cup LoadTries
  /\ \A o \in Objects : o \notin LoadTries \cup {Root} =>
       g.gen[o] = gen[o] /\ g.data[o] = data[o] /\ g.deps[o] = deps[o]
  /\ \A o \in LoadTries : file[o] = Missing => g.data[o] = data[o]
  /\ \A o \in Objects, d \in Objects : g.deps[o][d] = "obj" => deps[o][d] = "obj"
  /\ g.res = "ok" => \A o \in LoadTries \cup {Root} :
       file[o] # Missing /\ file[o] \in Archive /\ g.gen[o] = file[o].gen

LEMMA TriesKids ==
  ASSUME DiskType
  PROVE  LoadTries \in SUBSET Kids
<1>1. CASE Status(file[Root]) = "ok"
  <2>1. file[Root] \in Archive  BY <1>1, StatusFacts, Constants
  <2>2. file[Root].kids \in Seq(Kids)  BY <2>1 DEF Archive
  <2> QED  BY <1>1, <2>2, TriedFacts DEF LoadTries
<1>2. CASE Status(file[Root]) # "ok"  BY <1>2 DEF LoadTries
<1> QED  BY <1>1, <1>2

LEMMA GenericFacts ==
  ASSUME MemoryType, DiskType, Status(file[Root]) # "missing"
  PROVE  GenericOutcome(LoadGeneric)
<1>1. LoadTries \in SUBSET Kids  BY TriesKids
<1>2. file[Root] \in Archive  BY StatusFacts, Constants
<1> PICK tab : tab = file[Root].kids  OBVIOUS
<1>3. tab \in Seq(Kids)  BY <1>2 DEF Archive
<1> PICK g : g = LoadGeneric  OBVIOUS
<1>4. CASE Status(file[Root]) # "ok"
  <2>1. /\ g.gen = gen /\ g.kids = kids /\ g.res # "ok"
        /\ g.data = data \/ g.data = [data EXCEPT ![Root] = Nothing]
        /\ g.deps = deps \/ g.deps = [deps EXCEPT ![Root] = NoDeps]
    BY <1>4 DEF LoadGeneric
  <2>2. g.data \in [Objects -> Dataset]  BY <2>1, Constants DEF MemoryType
  <2>3. g.deps \in [Objects -> [Objects -> {"none", "path", "obj"}]]
    BY <2>1, Constants, ZenonT(30) DEF MemoryType
  <2>4. LoadTries = {}  BY <1>4 DEF LoadTries
  <2>5. \A o \in Objects : o # Root => g.data[o] = data[o] /\ g.deps[o] = deps[o]
    BY <2>1, Constants DEF MemoryType
  <2>6. \A o \in Objects, d \in Objects : g.deps[o][d] = "obj" => deps[o][d] = "obj"
    <3>1. g.deps[Root] = deps[Root] \/ g.deps[Root] = NoDeps
      BY <2>1, Constants DEF MemoryType
    <3> QED  BY <2>5, <3>1, Constants
  <2>7. g.gen \in [Objects -> Values] /\ g.kids \in Seq(Kids)  BY <2>1 DEF MemoryType
  <2>8. {Root} \cup Range(g.kids) = Attached \cup LoadTries  BY <2>1, <2>4 DEF Attached
  <2> QED  BY <2>1, <2>2, <2>3, <2>4, <2>5, <2>6, <2>7, <2>8 DEF GenericOutcome
<1>5. CASE Status(file[Root]) = "ok"
  <2> DEFINE tried == LoadTries
             read == {o \in tried : Status(file[o]) = "ok"}
                       \cup (IF Stop(tab) = {} THEN {Root} ELSE {})
             named(o) == [d \in Objects |-> IF d \in file[o].deps THEN "path" ELSE "none"]
             freed == {Root} \cup {o \in tried : Status(file[o]) # "missing"}
  <2>1. tried = Range(Tried(tab))  BY <1>5 DEF LoadTries
  <2>2. /\ g.res = "ok" => Stop(tab) = {}
        /\ g.gen = [o \in Objects |-> IF o \in read \cup {Root} THEN file[o].gen ELSE gen[o]]
        /\ g.data = [o \in Objects |-> IF o \in freed THEN Nothing ELSE data[o]]
        /\ g.deps = [o \in Objects |-> CASE o \in read -> named(o)
                                         [] o \in freed \ read -> NoDeps
                                         [] OTHER -> deps[o]]
        /\ g.kids = FoundOrMade(Tried(tab))
    BY <1>5, <2>1 DEF LoadGeneric
  <2>3. \A o \in read \cup {Root} : o \in Objects /\ file[o] \in Archive
    BY <1>1, <1>2, StatusFacts, Constants
  <2>4. read \subseteq tried \cup {Root} /\ freed \subseteq tried \cup {Root}  OBVIOUS
  <2>5. g.gen \in [Objects -> Values]
    <3>1. \A o \in read \cup {Root} : file[o].gen \in Values  BY <2>3 DEF Archive
    <3> HIDE DEF read
    <3> QED  BY <2>2, <3>1 DEF MemoryType
  <2>6. g.data \in [Objects -> Dataset]
    <3> HIDE DEF freed
    <3> QED  BY <2>2, Constants DEF MemoryType
  <2>7. \A o \in Objects : \/ g.deps[o] = named(o)
                           \/ g.deps[o] = NoDeps
                           \/ o \notin read \cup freed /\ g.deps[o] = deps[o]
    <3> HIDE DEF read, freed, named
    <3> QED  BY <2>2
  <2>8. \A o \in Objects : /\ g.deps[o] \in [Objects -> {"none", "path", "obj"}]
                           /\ \A d \in Objects : g.deps[o][d] = "obj" => deps[o][d] = "obj"
    <3>1. \A o \in Objects : /\ named(o) \in [Objects -> {"none", "path", "obj"}]
                             /\ \A d \in Objects : named(o)[d] # "obj"
      OBVIOUS
    <3> HIDE DEF read, freed, named
    <3> QED  BY <2>7, <3>1, Constants DEF MemoryType
  <2>9. g.deps \in [Objects -> [Objects -> {"none", "path", "obj"}]]
    <3>1. g.deps = [o \in Objects |-> g.deps[o]]
      <4> HIDE DEF read, freed, named
      <4> QED  BY <2>2
    <3> QED  BY <2>8, <3>1
  <2>10. g.kids \in Seq(Kids) /\ Range(g.kids) = Range(kids) \cup tried
    <3>1. Tried(tab) \in Seq(Kids) /\ kids \in Seq(Kids)  BY <1>3, TriedFacts DEF MemoryType
    <3> QED  BY <2>1, <2>2, <3>1, FoundOrMadeFacts
  <2>11. {Root} \cup Range(g.kids) = Attached \cup tried  BY <2>10 DEF Attached
  <2>12. \A o \in Objects : o \notin tried \cup {Root} =>
           g.gen[o] = gen[o] /\ g.data[o] = data[o] /\ g.deps[o] = deps[o]
    <3> HIDE DEF read, freed, named
    <3> QED  BY <2>2, <2>4
  <2>13. \A o \in tried : file[o] = Missing => g.data[o] = data[o]
    <3>1. \A o \in tried : o \in Objects /\ o # Root  BY <1>1, Constants
    <3>2. \A o \in tried : file[o] = Missing => o \notin freed  BY <3>1, StatusFacts
    <3> HIDE DEF freed
    <3> QED  BY <2>2, <3>1, <3>2
  <2>14. g.res = "ok" => \A o \in tried \cup {Root} :
           file[o] # Missing /\ file[o] \in Archive /\ g.gen[o] = file[o].gen
    <3> SUFFICES ASSUME Stop(tab) = {}, NEW o \in tried \cup {Root}
                 PROVE  file[o] # Missing /\ file[o] \in Archive /\ g.gen[o] = file[o].gen
      BY <2>2
    <3>1. Status(file[o]) = "ok"  BY <1>3, <1>5, <2>1, TriedFacts
    <3>2. o \in Objects  BY <1>1, Constants
    <3>3. o \in read \cup {Root}  BY <3>1
    <3>4. file[o] # Missing /\ file[o] \in Archive  BY <3>1, <3>2, StatusFacts
    <3> HIDE DEF read
    <3> QED  BY <2>2, <3>2, <3>3, <3>4
  <2> HIDE DEF read, freed, named
  <2> QED  BY <2>5, <2>6, <2>9, <2>10, <2>11, <2>8, <2>12, <2>13, <2>14 DEF GenericOutcome
<1> QED  BY <1>4, <1>5

\* What resolving makes of dependencies.
LEMMA ResolveFacts ==
  ASSUME NEW D \in [Objects -> [Objects -> {"none", "path", "obj"}]],
         NEW up \in SUBSET Objects, NEW n \in ResolveDeps(D, up)
  PROVE  /\ n.deps \in [Objects -> [Objects -> {"none", "path", "obj"}]]
         /\ \A o \in Objects, d \in Objects :
              /\ n.deps[o][d] = "obj" => D[o][d] = "obj" \/ (o \in up /\ d \in up)
              /\ n.deps[o][d] = "path" => D[o][d] = "path"
              /\ o \notin up => n.deps[o][d] = D[o][d]
         /\ n.res \in {"ok", "failed"}
         /\ n.res = "ok" => \A o \in up, d \in Objects : n.deps[o][d] # "path"
<1> DEFINE open == {p \in up \X Objects : D[p[1]][p[2]] = "path"}
           found == {p \in open : p[2] \in up}
<1>1. PICK R \in SUBSET found :
        n.deps = Resolved(D, R) /\ n.res \in {"ok", "failed"} /\ (n.res = "ok" => R = open)
  <2>1. CASE found = open
    <3>1. n = [res |-> "ok", deps |-> Resolved(D, found)]
      BY <2>1 DEF ResolveDeps
    <3> HIDE DEF found, open
    <3> QED  BY <2>1, <3>1
  <2>2. CASE found # open
    <3>1. n \in {[res |-> "failed", deps |-> Resolved(D, R)] : R \in SUBSET found}
      BY <2>2 DEF ResolveDeps
    <3> HIDE DEF found, open
    <3>2. PICK R \in SUBSET found : n = [res |-> "failed", deps |-> Resolved(D, R)]
      BY <3>1
    <3> QED  BY <3>2
  <2> QED  BY <2>1, <2>2
<1>2. n.deps = [o \in Objects |-> [d \in Objects |-> IF <<o, d>> \in R THEN "obj" ELSE D[o][d]]]
  BY <1>1 DEF Resolved
<1>3. n.deps \in [Objects -> [Objects -> {"none", "path", "obj"}]]  BY <1>2
<1>4. \A o \in Objects, d \in Objects : n.deps[o][d] = IF <<o, d>> \in R THEN "obj" ELSE D[o][d]
  BY <1>2
<1>5. \A o, d : <<o, d>> \in R => o \in up /\ d \in up  BY <1>1
<1>6. R = open => \A o \in up, d \in Objects : D[o][d] = "path" => <<o, d>> \in R  OBVIOUS
<1> HIDE DEF found, open
<1> QED  BY <1>1, <1>3, <1>4, <1>5, <1>6

\* A load of the tree that returns, with res.
Arrived(res) ==
  /\ Idle /\ MayLoad /\ file[Root] # Missing
  /\ UNCHANGED <<file, bak, resident, job, saved, cut, tree>>
  /\ gen' \in [Objects -> Values] /\ data' \in [Objects -> Dataset]
  /\ deps' \in [Objects -> [Objects -> {"none", "path", "obj"}]] /\ kids' \in Seq(Kids)
  /\ Attached' = Attached \cup LoadTries
  /\ Told(res, LoadTries)
  /\ \A o \in Objects : o \notin LoadTries \cup {Root} => gen'[o] = gen[o] /\ data'[o] = data[o]
  /\ \A o \in LoadTries : file[o] = Missing => data'[o] = data[o]
  /\ \A o \in Objects, d \in Objects :
       /\ deps'[o][d] = "obj" => deps[o][d] = "obj" \/ (o \in Attached' /\ d \in Attached')
       /\ o \notin LoadTries \cup {Root} /\ deps'[o][d] = "path" => deps[o][d] = "path"
       /\ o \notin Attached' => deps'[o][d] = deps[o][d]
  /\ res = "ok" =>
       /\ \A o \in LoadTries \cup {Root} :
            /\ file[o] # Missing /\ file[o] \in Archive /\ gen'[o] = file[o].gen
            /\ \A d \in Objects : deps'[o][d] # "path"
       /\ file[Root].len = Whole /\ data'[Root] = file[Root].data

\* The datasets of the children are not read, that of the root is d.
LEMMA ArrivedFacts ==
  ASSUME MemoryType, DiskType, Calls, MayLoad, Status(file[Root]) # "missing",
         NEW g, g = LoadGeneric, NEW D, NEW d \in Dataset, NEW res,
         gen' = g.gen, kids' = g.kids, deps' = D, data' = [g.data EXCEPT ![Root] = d],
         Told(res, LoadTries),
         UNCHANGED <<disk, resident, job, faults, saved, cut, tree>>,
         D \in [Objects -> [Objects -> {"none", "path", "obj"}]],
         \A o \in Objects, x \in Objects :
           /\ D[o][x] = "obj" => \/ g.deps[o][x] = "obj"
                                 \/ {o, x} \subseteq {Root} \cup Range(g.kids)
           /\ D[o][x] = "path" => g.deps[o][x] = "path"
           /\ o \notin {Root} \cup Range(g.kids) => D[o][x] = g.deps[o][x],
         res = "ok" => /\ g.res = "ok" /\ file[Root].len = Whole /\ d = file[Root].data
                       /\ \A o \in {Root} \cup Range(g.kids), x \in Objects : D[o][x] # "path"
  PROVE  Arrived(res)
<1>1. GenericOutcome(g)  BY GenericFacts
<1>2. LoadTries \in SUBSET Kids  BY TriesKids
<1>3. {Root} \cup Range(g.kids) = Attached \cup LoadTries  BY <1>1 DEF GenericOutcome
<1>4. Attached' = Attached \cup LoadTries  BY <1>3 DEF Attached
<1>5. file[Root] # Missing  BY StatusFacts, Constants
<1>6. data' \in [Objects -> Dataset] /\ \A o \in Objects : data'[o] = IF o = Root THEN d ELSE g.data[o]
  BY <1>1, Constants DEF GenericOutcome
<1>7. \A o \in LoadTries : o \in Objects /\ o # Root  BY <1>2, Constants
<1>8. Idle /\ UNCHANGED <<file, bak, resident, job, saved, cut, tree>>  BY DEF Calls, disk
<1>9. /\ gen' \in [Objects -> Values] /\ kids' \in Seq(Kids)
      /\ deps' \in [Objects -> [Objects -> {"none", "path", "obj"}]]
  BY <1>1 DEF GenericOutcome
<1>10. \A o \in Objects : o \notin LoadTries \cup {Root} =>
         gen'[o] = gen[o] /\ data'[o] = data[o] /\ g.deps[o] = deps[o]
  BY <1>1, <1>6 DEF GenericOutcome
<1>11. \A o \in LoadTries : file[o] = Missing => data'[o] = data[o]
  BY <1>1, <1>6, <1>7 DEF GenericOutcome
<1>12. \A o \in Objects, x \in Objects : g.deps[o][x] = "obj" => deps[o][x] = "obj"
  BY <1>1 DEF GenericOutcome
<1>13. ASSUME NEW o \in Objects, NEW x \in Objects
       PROVE  /\ deps'[o][x] = "obj" => deps[o][x] = "obj" \/ (o \in Attached' /\ x \in Attached')
              /\ o \notin LoadTries \cup {Root} /\ deps'[o][x] = "path" => deps[o][x] = "path"
              /\ o \notin Attached' => deps'[o][x] = deps[o][x]
  <2>1. deps'[o][x] = "obj" => deps[o][x] = "obj" \/ (o \in Attached' /\ x \in Attached')
    BY <1>3, <1>4, <1>12
  <2>2. o \notin LoadTries \cup {Root} /\ deps'[o][x] = "path" => deps[o][x] = "path"
    BY <1>10
  <2>3. o \notin Attached' => deps'[o][x] = deps[o][x]
    <3>1. o \notin Attached' => o \notin LoadTries \cup {Root}  BY <1>4 DEF Attached
    <3> QED  BY <1>3, <1>4, <1>10, <3>1
  <2> QED  BY <2>1, <2>2, <2>3
<1>14. ASSUME res = "ok"
       PROVE  /\ \A o \in LoadTries \cup {Root} :
                   /\ file[o] # Missing /\ file[o] \in Archive /\ gen'[o] = file[o].gen
                   /\ \A x \in Objects : deps'[o][x] # "path"
              /\ file[Root].len = Whole /\ data'[Root] = file[Root].data
  <2>1. LoadTries \cup {Root} \subseteq {Root} \cup Range(g.kids)  BY <1>3
  <2> QED  BY <1>1, <1>6, <1>14, <2>1, Constants DEF GenericOutcome
<1> QED  BY <1>4, <1>5, <1>6, <1>8, <1>9, <1>10, <1>11, <1>13, <1>14 DEF Arrived

LEMMA LoadFacts ==
  ASSUME MemoryType, DiskType, Load
  PROVE  (Restarts /\ UNCHANGED file) \/ \E res : Arrived(res)
<1> PICK g : g = LoadGeneric  OBVIOUS
<1> DEFINE up == {Root} \cup Range(g.kids)
           loaded(D, d, res) ==
             /\ gen' = g.gen /\ kids' = g.kids /\ deps' = D
             /\ data' = [g.data EXCEPT ![Root] = d]
             /\ Told(res, LoadTries)
             /\ UNCHANGED <<disk, resident, job, faults, saved, cut, tree>>
<1>1. /\ Calls /\ MayLoad /\ Status(file[Root]) # "missing"
      /\ \/ g.res = "fatal" /\ Restarts /\ UNCHANGED <<file, faults>>
         \/ g.res = "failed" /\ loaded(g.deps, g.data[Root], "failed")
         \/ /\ g.res = "ok"
            /\ \E n \in ResolveDeps(g.deps, up) :
                 IF n.res = "failed" THEN loaded(n.deps, g.data[Root], "failed")
                 ELSE \E r \in LoadDataFromFile(file[Root], g.data[Root]) :
                        IF r.res = "fatal" THEN Restarts /\ UNCHANGED <<file, faults>>
                        ELSE loaded(n.deps, r.data, r.res)
  BY DEF Load, LoadTries
<1>2. GenericOutcome(g)  BY <1>1, GenericFacts
<1>3. /\ g.deps \in [Objects -> [Objects -> {"none", "path", "obj"}]]
      /\ g.data[Root] \in Dataset
  BY <1>2, Constants DEF GenericOutcome
<1>4. up \in SUBSET Objects
  <2>1. g.kids \in Seq(Kids)  BY <1>2 DEF GenericOutcome
  <2>2. Range(g.kids) \subseteq Kids  BY <2>1 DEF Range
  <2> QED  BY <2>2, Constants
<1>5. CASE g.res = "failed" /\ loaded(g.deps, g.data[Root], "failed")
  <2>1. Arrived("failed")  BY <1>1, <1>3, <1>5, ArrivedFacts
  <2> QED  BY <2>1
<1>6. CASE /\ g.res = "ok"
           /\ \E n \in ResolveDeps(g.deps, up) :
                IF n.res = "failed" THEN loaded(n.deps, g.data[Root], "failed")
                ELSE \E r \in LoadDataFromFile(file[Root], g.data[Root]) :
                       IF r.res = "fatal" THEN Restarts /\ UNCHANGED <<file, faults>>
                       ELSE loaded(n.deps, r.data, r.res)
  <2> PICK D0 : D0 = g.deps  OBVIOUS
  <2> PICK u : u = up  OBVIOUS
  <2>1. PICK n \in ResolveDeps(D0, u) :
          IF n.res = "failed" THEN loaded(n.deps, g.data[Root], "failed")
          ELSE \E r \in LoadDataFromFile(file[Root], g.data[Root]) :
                 IF r.res = "fatal" THEN Restarts /\ UNCHANGED <<file, faults>>
                 ELSE loaded(n.deps, r.data, r.res)
    <3> HIDE DEF up, loaded
    <3> QED  BY <1>6
  <2>2. n.res \in {"ok", "failed"}
    <3> HIDE DEF up, loaded
    <3>1. D0 \in [Objects -> [Objects -> {"none", "path", "obj"}]] /\ u \in SUBSET Objects
      BY <1>3, <1>4
    <3> QED  BY <3>1, ResolveFacts
  <2>3. /\ n.deps \in [Objects -> [Objects -> {"none", "path", "obj"}]]
        /\ \A o \in Objects, d \in Objects :
             /\ n.deps[o][d] = "obj" => g.deps[o][d] = "obj" \/ (o \in up /\ d \in up)
             /\ n.deps[o][d] = "path" => g.deps[o][d] = "path"
             /\ o \notin up => n.deps[o][d] = g.deps[o][d]
        /\ n.res = "ok" => \A o \in up, d \in Objects : n.deps[o][d] # "path"
    <3> HIDE DEF up, loaded
    <3>1. D0 \in [Objects -> [Objects -> {"none", "path", "obj"}]] /\ u \in SUBSET Objects
      BY <1>3, <1>4
    <3> QED  BY <3>1, ResolveFacts
  <2>4. CASE n.res = "failed"
    <3>1. loaded(n.deps, g.data[Root], "failed")  BY <2>1, <2>4
    <3>2. Arrived("failed")
      <4> PICK D : D = n.deps  OBVIOUS
      <4> PICK d \in Dataset : d = g.data[Root]  BY <1>3
      <4> QED  BY <1>1, <2>3, <3>1, ArrivedFacts
    <3> QED  BY <3>2
  <2>5. CASE n.res # "failed"
    <3>1. PICK r \in LoadDataFromFile(file[Root], g.data[Root]) :
            IF r.res = "fatal" THEN Restarts /\ UNCHANGED <<file, faults>>
            ELSE loaded(n.deps, r.data, r.res)
      BY <2>1, <2>5
    <3>2. CASE r.res = "fatal"  BY <3>1, <3>2
    <3>3. CASE r.res # "fatal"
      <4>1. loaded(n.deps, r.data, r.res)  BY <3>1, <3>3
      <4>2. /\ r.data \in Dataset
            /\ r.res = "ok" => file[Root].len = Whole /\ r.data = file[Root].data
        <5> PICK f : f = file[Root]  OBVIOUS
        <5> PICK d \in Dataset : d = g.data[Root]  BY <1>3
        <5>1. f = Missing \/ f \in Archive  BY Constants DEF DiskType
        <5>2. r \in LoadDataFromFile(f, d)  OBVIOUS
        <5> QED  BY <5>1, <5>2, OutcomeFacts
      <4>3. Arrived(r.res)
        <5> PICK D : D = n.deps  OBVIOUS
        <5> PICK d \in Dataset : d = r.data  BY <4>2
        <5> PICK res : res = r.res  OBVIOUS
        <5>1. n.res = "ok"  BY <2>2, <2>5
        <5> QED  BY <1>1, <1>6, <2>3, <4>1, <4>2, <5>1, ArrivedFacts
      <4> QED  BY <4>3
    <3> QED  BY <3>2, <3>3
  <2> QED  BY <2>4, <2>5
<1> QED  BY <1>1, <1>5, <1>6

LEMMA ToldTypes ==
  ASSUME MemoryType, DiskType, NEW res, Arrived(res)
  PROVE  want' \in [Objects -> Contents] /\ held' \in [Objects -> SUBSET Both]
<1> DEFINE T == LoadTries \cup {Root}
<1>1. Told(res, LoadTries)  BY DEF Arrived
<1>2. held' \in [Objects -> SUBSET Both]
  <2> DEFINE h(o) == IF o = Root THEN (IF res = "ok" THEN Both ELSE {})
                     ELSE IF o \in LoadTries THEN (IF res = "ok" THEN {"gen"} ELSE {})
                     ELSE held[o]
  <2>1. held' = [o \in Objects |-> h(o)]  BY <1>1 DEF Told
  <2>2. \A o \in Objects : held[o] \in SUBSET Both  BY DEF MemoryType
  <2>3. \A o \in Objects : h(o) \in SUBSET Both  BY <2>2 DEF Both
  <2> HIDE DEF h
  <2> QED  BY <2>1, <2>3
<1>3. want' \in [Objects -> Contents]
  <2> DEFINE w(o) == IF res # "ok" \/ o \notin LoadTries \cup {Root} THEN want[o]
                     ELSE [gen |-> IF cut[o] > 0 THEN file[o].gen ELSE saved[o].gen,
                           data |-> CASE o # Root -> want[o].data
                                      [] cut[o] > 0 -> file[o].data
                                      [] OTHER -> saved[o].data]
  <2>1. want' = [o \in Objects |-> w(o)]  BY <1>1 DEF Told
  <2>2. ASSUME NEW o \in Objects  PROVE w(o) \in Contents
    <3>1. want[o] \in Contents  BY DEF MemoryType
    <3>2. CASE res # "ok" \/ o \notin T  BY <3>1, <3>2
    <3>3. CASE res = "ok" /\ o \in T
      <4>1. file[o] \in Archive  BY <3>3 DEF Arrived
      <4>2. saved[o].gen \in Values /\ saved[o].data \in Dataset
        <5>1. CASE saved[o] = Missing  BY <5>1, Constants DEF Missing
        <5>2. CASE saved[o] # Missing  BY <5>2 DEF DiskType, Contents
        <5> QED  BY <5>1, <5>2
      <4>3. w(o) = [gen |-> IF cut[o] > 0 THEN file[o].gen ELSE saved[o].gen,
                    data |-> CASE o # Root -> want[o].data
                               [] cut[o] > 0 -> file[o].data
                               [] OTHER -> saved[o].data]
        BY <3>3
      <4> PICK x \in Dataset : x = CASE o # Root -> want[o].data
                                     [] cut[o] > 0 -> file[o].data
                                     [] OTHER -> saved[o].data
        <5>1. want[o].data \in Dataset /\ file[o].data \in Dataset
          BY <3>1, <4>1 DEF Contents, Archive
        <5> QED  BY <4>2, <5>1
      <4> PICK v \in Values : v = IF cut[o] > 0 THEN file[o].gen ELSE saved[o].gen
        BY <4>1, <4>2 DEF Archive
      <4>4. w(o) = [gen |-> v, data |-> x]  BY <4>3
      <4> HIDE DEF w
      <4> QED  BY <4>4 DEF Contents
    <3> QED  BY <3>2, <3>3
  <2> HIDE DEF w
  <2> QED  BY <2>1, <2>2
<1> QED  BY <1>2, <1>3

LEMMA LoadTree ==
  ASSUME TreeInv, SaveInv', Load
  PROVE  TreeInv'
<1>1. MemoryType /\ DiskType /\ InTree  BY DEF TreeInv
<1>2. CASE Restarts /\ UNCHANGED file  BY <1>2, RestartsTree
<1>3. ASSUME NEW res, Arrived(res)  PROVE TreeInv'
  <2>1. /\ job = NoJob /\ job' = NoJob /\ UNCHANGED <<file, saved, tree>>
        /\ Attached' = Attached \cup LoadTries
    BY <1>3 DEF Arrived, Idle
  <2>2. MemoryType'  BY <1>1, <1>3, ToldTypes DEF Arrived, MemoryType
  <2>3. ASSUME NEW o \in Objects, NEW d \in Objects
        PROVE  /\ deps'[o][d] = "obj" => d \in Attached'
               /\ o \notin Attached' => deps'[o][d] = "none"
    <3>1. /\ deps[o][d] = "obj" => d \in Attached
          /\ o \notin Attached => deps[o][d] = "none"
      BY <1>1 DEF InTree
    <3>2. /\ deps'[o][d] = "obj" => deps[o][d] = "obj" \/ (o \in Attached' /\ d \in Attached')
          /\ o \notin Attached' => deps'[o][d] = deps[o][d]
      BY <1>3 DEF Arrived
    <3> QED  BY <2>1, <3>1, <3>2
  <2>4. InTree'  BY <2>3 DEF InTree
  <2>5. ASSUME NEW o \in Objects, "gen" \in held'[o], NEW d \in Objects
        PROVE  deps'[o][d] # "path"
    <3>1. held'[o] = IF o = Root THEN (IF res = "ok" THEN Both ELSE {})
                     ELSE IF o \in LoadTries THEN (IF res = "ok" THEN {"gen"} ELSE {})
                     ELSE held[o]
      BY <1>3 DEF Arrived, Told
    <3>2. CASE o \in LoadTries \cup {Root}
      <4>1. res = "ok"  BY <2>5, <3>1, <3>2
      <4> QED  BY <1>3, <3>2, <4>1 DEF Arrived
    <3>3. CASE o \notin LoadTries \cup {Root}
      <4>1. "gen" \in held[o]  BY <2>5, <3>1, <3>3
      <4>2. deps[o][d] # "path"  BY <4>1 DEF TreeInv, Resolvable, NotBlind
      <4> QED  BY <1>3, <3>3, <4>2 DEF Arrived
    <3> QED  BY <3>2, <3>3
  <2> QED  BY <2>1, <2>2, <2>4, <2>5, NoSaveGoesOn
<1> QED  BY <1>1, <1>2, <1>3, LoadFacts

-----------------------------------------------------------------------------
(* What holds of the tree *)

LEMMA NextTreeInv ==
  ASSUME TreeInv, [Next]_vars
  PROVE  TreeInv'
<1>1. SaveInv'  BY NextSaveInv DEF TreeInv
<1>2. CASE \E k \in Kids : AddChild(k)  BY <1>1, <1>2, AddChildTree
<1>3. CASE \E k \in Kids : Delete(k)  BY <1>1, <1>3, DeleteTree
<1>4. CASE \E o \in Objects : Save(o) \/ PageOut(o)  BY <1>1, <1>4, SaveCallsTree
<1>5. CASE SaveAll  BY <1>1, <1>5, SaveCallsTree
<1>6. CASE \E o \in Objects : PageIn(o)  BY <1>1, <1>6, PageInTree
<1>7. CASE \E o \in Objects, v \in Values \ {0} : Edit(o, v)  BY <1>1, <1>7, EditTree
<1>8. CASE \E p \in Links : AddDep(p[1], p[2]) \/ DelDep(p[1], p[2])
  <2>1. PICK p \in Links : AddDep(p[1], p[2]) \/ DelDep(p[1], p[2])  BY <1>8
  <2>2. p[1] \in Objects /\ p[2] \in Objects  BY ObjectsAssumption
  <2> QED  BY <1>1, <2>1, <2>2, DepTree
<1>9. CASE Saving
  BY <1>1, <1>9, BackupTree, SaveFailsTree, SerializeGenericTree, SerializeClassTree,
     CloseFileTree DEF Saving
<1>10. CASE Load  BY <1>1, <1>10, LoadTree
<1>11. CASE Restart  BY <1>1, <1>11, RestartsTree DEF Restart
<1>12. CASE Crash  BY <1>1, <1>12, CrashTree
<1>13. CASE UNCHANGED vars
  <2>1. UNCHANGED <<file, saved, gen, data, deps, kids, want, held, tree, job>>
    BY <1>13 DEF vars, disk, memory, belief
  <2>2. MemoryType' /\ DiskType' /\ InTree' /\ Resolvable'
    BY <2>1 DEF TreeInv, MemoryType, DiskType, InTree, Resolvable, Attached, NotBlind
  <2>3. NamesWritten' /\ TreeWritten'
    BY <2>1 DEF TreeInv, NamesWritten, TreeWritten, Names, Attached, Complete, NotBlind
  <2>4. Reloads'  BY <2>1 DEF TreeInv, Reloads, Reloadable, Complete, NotBlind
  <2> QED  BY <1>1, <2>1, <2>2, <2>3, <2>4 DEF TreeInv
<1> QED
  BY <1>2, <1>3, <1>4, <1>5, <1>6, <1>7, <1>8, <1>9, <1>10, <1>11, <1>12, <1>13 DEF Next

(* Whatever the application does, saving what did not load included: an object that
   it was told is loaded has no dependency of which only the path was read, though
   AG_ObjectResolveDeps gives up in the middle of the tree. *)
THEOREM LoadedDepsResolved == Spec => []DepsResolved
<1>1. Init => TreeInv  BY InitTreeInv
<1>2. TreeInv /\ [Next]_vars => TreeInv'  BY NextTreeInv
<1>3. TreeInv => DepsResolved  BY DEF TreeInv, Resolvable, DepsResolved
<1> QED  BY <1>1, <1>2, <1>3, PTL DEF Spec

(* If only objects are saved that the application was told are in memory, what
   AG_ObjectSaveAll wrote when it returned 0 is a tree that AG_ObjectLoad can
   read: all archives are complete, and the dependencies in them are found.
   Failed loads and crashes before it do not matter. *)
THEOREM SavedTreesReload == NotBlind => (Spec => []Reloadable)
<1> SUFFICES ASSUME NotBlind PROVE Spec => []Reloadable  OBVIOUS
<1>1. Init => TreeInv  BY InitTreeInv
<1>2. TreeInv /\ [Next]_vars => TreeInv'  BY NextTreeInv
<1>3. TreeInv => Reloadable  BY DEF TreeInv, Reloads
<1> QED  BY <1>1, <1>2, <1>3, PTL DEF Spec

-----------------------------------------------------------------------------
(* What the application is told of the contents of the objects *)

\* It follows all of its rules.
Careful == {"again", "blind", "reload"} \cap Liberties = {}

\* A dataset that one edit made, or init.
IsFilled(d) == \E v \in Values : d = Filled(v)

\* What is expected of the object o.  An object that has no datafile is whole in memory,
\* so that paging it in, which then reads nothing, leaves what it should.  A datafile that
\* no failed save has touched was written by a save, and a complete one holds one edit.
Known(o) ==
  /\ "gen" \in held[o] => gen[o] = want[o].gen
  /\ "data" \in held[o] => data[o] = want[o].data /\ IsFilled(data[o])
  /\ file[o] = Missing => IsFilled(data[o]) /\ (cut[o] = 0 => data[o] = want[o].data)
  /\ file[o] # Missing /\ cut[o] = 0 => saved[o] # Missing
  /\ Complete(file[o]) => IsFilled(file[o].data)

\* Objects marked resident have been paged in.
TruthInv == TreeInv /\ resident \subseteq paged /\ \A o \in Objects : Known(o)

LEMMA CarefulNotBlind == Careful => NotBlind  BY DEF Careful, NotBlind

LEMMA NothingIsFilled == IsFilled(Nothing) /\ Fresh.gen = 0 /\ Fresh.data = Nothing
BY Constants DEF IsFilled, Filled, Nothing, Fresh

\* Nothing is learned of an object that a step leaves alone.
LEMMA SameKnown ==
  ASSUME NEW o \in Objects, Known(o),
         gen'[o] = gen[o], data'[o] = data[o], want'[o] = want[o], held'[o] = held[o],
         file'[o] = file[o], cut'[o] = cut[o], saved'[o] = saved[o]
  PROVE  Known(o)'
BY DEF Known, Complete

\* An archive that no failed save has touched is what was saved last.
LEMMA SavedIsWritten ==
  ASSUME TruthInv, NEW o \in Objects, cut[o] = 0, file[o] # Missing
  PROVE  /\ saved[o] # Missing
         /\ file[o].gen = saved[o].gen /\ file[o].data = saved[o].data
<1>1. saved[o] # Missing  BY DEF TruthInv, Known
<1>2. Holds(file[o], saved[o])  BY <1>1 DEF TruthInv, TreeInv, SaveInv, Recoverable
<1>3. file[o].data \in Dataset /\ saved[o].data \in Dataset
  BY <1>1 DEF TruthInv, TreeInv, DiskType, Archive, Contents
<1>4. file[o].data = saved[o].data  BY <1>2, <1>3 DEF Holds, Dataset
<1> QED  BY <1>1, <1>2, <1>4 DEF Holds

LEMMA InitTruth == Init => TruthInv
<1> SUFFICES ASSUME Init PROVE TruthInv  OBVIOUS
<1>1. ASSUME NEW o \in Objects  PROVE Known(o)
  <2>1. gen[o] = 0 /\ data[o] = Nothing /\ want[o] = Fresh  BY DEF Init
  <2>2. \/ file[o] = Missing
        \/ file[o] = NewArchive(o) /\ saved[o] = Fresh
    BY DEF Init
  <2>3. NewArchive(o).data = Nothing  BY DEF NewArchive
  <2>4. Fresh # Missing
    <3>1. "len" \in DOMAIN Missing /\ "len" \notin DOMAIN Fresh  BY DEF Missing, Fresh
    <3> QED  BY <3>1
  <2>5. Missing.len # Whole  BY WholeNat DEF Missing
  <2> QED  BY <2>1, <2>2, <2>3, <2>4, <2>5, NothingIsFilled DEF Known, Complete
<1>2. resident \subseteq paged  BY DEF Init
<1> QED  BY <1>1, <1>2, InitTreeInv DEF TruthInv

LEMMA AddChildTruth ==
  ASSUME TruthInv, NEW k \in Kids, AddChild(k), NEW o \in Objects
  PROVE  Known(o)'
<1>1. /\ gen' = [gen EXCEPT ![k] = 0] /\ data' = [data EXCEPT ![k] = Nothing]
      /\ want' = [want EXCEPT ![k] = Fresh] /\ held' = [held EXCEPT ![k] = Both]
      /\ UNCHANGED <<file, saved, cut>>
  BY DEF AddChild, disk
<1>2. Known(o) /\ MemoryType  BY DEF TruthInv, TreeInv
<1>3. CASE o # k
  <2>1. gen'[o] = gen[o] /\ data'[o] = data[o] /\ want'[o] = want[o] /\ held'[o] = held[o]
    BY <1>1, <1>2, <1>3 DEF MemoryType
  <2> QED  BY <1>1, <1>2, <2>1, SameKnown
<1>4. CASE o = k
  <2>1. gen'[o] = 0 /\ data'[o] = Nothing /\ want'[o] = Fresh
    BY <1>1, <1>2, <1>4 DEF MemoryType
  <2> QED  BY <1>1, <1>2, <2>1, NothingIsFilled DEF Known, Complete
<1> QED  BY <1>3, <1>4

LEMMA EditTruth ==
  ASSUME TruthInv, NEW p \in Objects, NEW v \in Values, Edit(p, v), NEW o \in Objects
  PROVE  Known(o)'
<1>1. /\ gen' = [gen EXCEPT ![p] = v] /\ data' = [data EXCEPT ![p] = Filled(v)]
      /\ want' = [want EXCEPT ![p] = [gen |-> v, data |-> Filled(v)]]
      /\ UNCHANGED <<file, saved, cut, held>>
  BY DEF Edit, disk
<1>2. Known(o) /\ MemoryType  BY DEF TruthInv, TreeInv
<1>3. CASE o # p
  <2>1. gen'[o] = gen[o] /\ data'[o] = data[o] /\ want'[o] = want[o]
    BY <1>1, <1>2, <1>3 DEF MemoryType
  <2> QED  BY <1>1, <1>2, <2>1, SameKnown
<1>4. CASE o = p
  <2>1. gen'[o] = v /\ data'[o] = Filled(v) /\ want'[o] = [gen |-> v, data |-> Filled(v)]
    BY <1>1, <1>2, <1>4 DEF MemoryType
  <2>2. IsFilled(data'[o])  BY <2>1 DEF IsFilled
  <2> QED  BY <1>1, <1>2, <2>1, <2>2 DEF Known, Complete
<1> QED  BY <1>3, <1>4

LEMMA DeleteTruth ==
  ASSUME TruthInv, NEW k \in Kids, Delete(k), NEW o \in Objects
  PROVE  Known(o)'
<1>1. /\ file' = [file EXCEPT ![k] = Missing]
      /\ gen' = [gen EXCEPT ![k] = 0] /\ data' = [data EXCEPT ![k] = Nothing]
      /\ want' = [want EXCEPT ![k] = Fresh] /\ held' = [held EXCEPT ![k] = {}]
      /\ saved' = [saved EXCEPT ![k] = Missing] /\ cut' = [cut EXCEPT ![k] = 0]
  BY DEF Delete
<1>2. Known(o) /\ MemoryType /\ Shape  BY DEF TruthInv, TreeInv, SaveInv
<1>3. CASE o # k
  <2>1. gen'[o] = gen[o] /\ data'[o] = data[o] /\ want'[o] = want[o] /\ held'[o] = held[o]
    BY <1>1, <1>2, <1>3 DEF MemoryType
  <2>2. file'[o] = file[o] /\ saved'[o] = saved[o] /\ cut'[o] = cut[o]
    BY <1>1, <1>2, <1>3 DEF Shape
  <2> QED  BY <1>2, <2>1, <2>2, SameKnown
<1>4. CASE o = k
  <2>1. data'[o] = Nothing /\ want'[o] = Fresh /\ held'[o] = {}
    BY <1>1, <1>2, <1>4 DEF MemoryType
  <2>2. file'[o] = Missing  BY <1>1, <1>2, <1>4 DEF Shape
  <2> QED  BY <2>1, <2>2, NothingIsFilled DEF Known, Complete
<1> QED  BY <1>3, <1>4

LEMMA BackupTruth ==
  ASSUME Careful, TruthInv, SaveInv', Backup, NEW o \in Objects
  PROVE  Known(o)'
<1> PICK h : h = Head(job.todo)  OBVIOUS
<1>1. /\ job.at = "backup" /\ job' = [job EXCEPT !.at = "open"]
      /\ file' = [file EXCEPT ![h] = Missing] \/ file' = file
      /\ cut' = [cut EXCEPT ![h] = IF @ < 2 THEN @ + 1 ELSE 2]
      /\ UNCHANGED <<gen, data, want, held, saved>>
  BY DEF Backup, BackupObjectFile, At, Goes, memory
<1>2. Known(o) /\ MemoryType /\ Shape /\ TreeInv  BY DEF TruthInv, TreeInv, SaveInv
<1>3. CASE o # h
  <2>1. file'[o] = file[o] /\ cut'[o] = cut[o]  BY <1>1, <1>2, <1>3 DEF Shape
  <2> QED  BY <1>1, <1>2, <2>1, SameKnown
<1>4. CASE o = h
  <2>1. file'[o] = Missing \/ file'[o] = file[o]  BY <1>1, <1>2, <1>4 DEF Shape
  <2>2. held[o] = Both /\ job \in Jobs  BY <1>1, <1>2, <1>4, AtWork, CarefulNotBlind
  <2>3. job'.at = "open" /\ job'.todo = job.todo  BY <1>1, <2>2 DEF Jobs
  <2>4. cut'[o] >= 1  BY <1>4, <2>3 DEF SaveInv, Phases, At
  <2>5. IsFilled(data[o])  BY <1>2, <2>2 DEF Known, Both
  <2> QED  BY <1>1, <1>2, <2>1, <2>4, <2>5 DEF Known, Complete
<1> QED  BY <1>3, <1>4

\* What is written of an object is what is in memory, which one edit has made.
LEMMA WritesTruth ==
  ASSUME Careful, TruthInv, SaveInv', job.at \in {"open", "class"},
         job' = [job EXCEPT !.at = "class"],
         NEW a, file' = [file EXCEPT ![Head(job.todo)] = a],
         UNCHANGED <<saved, gen, data, want, held, cut>>, NEW o \in Objects
  PROVE  Known(o)'
<1> PICK h : h = Head(job.todo)  OBVIOUS
<1>1. Known(o) /\ MemoryType /\ Shape /\ TreeInv  BY DEF TruthInv, TreeInv, SaveInv
<1>2. CASE o # h
  <2>1. file'[o] = file[o]  BY <1>1, <1>2 DEF Shape
  <2> QED  BY <1>1, <2>1, SameKnown
<1>3. CASE o = h
  <2>1. held[o] = Both /\ job \in Jobs  BY <1>1, <1>3, AtWork, CarefulNotBlind
  <2>2. job'.at = "class" /\ job'.todo = job.todo  BY <2>1 DEF Jobs
  <2>3. cut'[o] >= 1 /\ Written(o)'  BY <1>3, <2>2 DEF SaveInv, Phases, At
  <2>4. IsFilled(data[o]) /\ data[o] \in Dataset  BY <1>1, <2>1 DEF Known, Both, MemoryType
  <2>5. file'[o] # Missing  BY <2>3 DEF Written, Missing
  <2>6. file'[o].len = Whole => file'[o].data = data[o]
    <3> SUFFICES ASSUME file'[o].len = Whole PROVE file'[o].data = data[o]  OBVIOUS
    <3>1. \A i \in Classes : i + 2 <= Whole  BY BoundsAssumption DEF Classes, Whole
    <3>2. \A i \in Classes : file'[o].data[i] = data[o][i]  BY <2>3, <3>1 DEF Written
    <3>3. file'[o].data = [i \in Classes |-> file'[o].data[i]]
      BY <2>3 DEF Written, IsDataset
    <3> QED  BY <2>4, <3>2, <3>3 DEF Dataset
  <2> QED  BY <1>1, <2>3, <2>4, <2>5, <2>6 DEF Known, Complete
<1> QED  BY <1>2, <1>3

LEMMA CloseFileTruth ==
  ASSUME TruthInv, CloseFile, NEW o \in Objects
  PROVE  Known(o)' /\ resident' \subseteq paged'
<1> PICK h : h = Head(job.todo)  OBVIOUS
<1> DEFINE frees == job.op = "pageout" /\ h \notin Remain
<1>1. /\ job.at = "class"
      /\ data' = IF frees THEN [data EXCEPT ![h] = Nothing] ELSE data
      /\ held' = IF frees THEN [held EXCEPT ![h] = held[h] \ {"data"}] ELSE held
      /\ resident' = IF frees THEN resident \ {h} ELSE resident
      /\ paged' = IF frees THEN paged \ {h} ELSE paged
      /\ saved' = [saved EXCEPT ![h] = [gen |-> gen[h], data |-> data[h]]]
      /\ cut' = [cut EXCEPT ![h] = 0]
      /\ UNCHANGED <<file, gen, want>>
  BY DEF CloseFile, At, disk
<1>2. Known(o) /\ MemoryType /\ Shape /\ TreeInv  BY DEF TruthInv, TreeInv, SaveInv
<1>3. resident' \subseteq paged'  BY <1>1 DEF TruthInv
<1>4. CASE o # h
  <2>1. data'[o] = data[o] /\ held'[o] = held[o]  BY <1>1, <1>2, <1>4 DEF MemoryType
  <2>2. cut'[o] = cut[o] /\ saved'[o] = saved[o]  BY <1>1, <1>2, <1>4 DEF Shape
  <2> QED  BY <1>1, <1>2, <1>3, <2>1, <2>2, SameKnown
<1>5. CASE o = h
  <2>1. file[o] # Missing  BY <1>1, <1>2, <1>5, WorkFile
  <2> PICK s : s = [gen |-> gen[h], data |-> data[h]]  OBVIOUS
  <2>2. s # Missing
    <3>1. "len" \in DOMAIN Missing /\ "len" \notin DOMAIN s  BY DEF Missing
    <3> QED  BY <3>1
  <2>3. saved'[o] # Missing  BY <1>1, <1>2, <1>5, <2>2 DEF Shape
  <2>4. \/ data'[o] = data[o] /\ held'[o] = held[o]
        \/ held'[o] = held[o] \ {"data"}
    BY <1>1, <1>2, <1>5 DEF MemoryType
  <2>5. Known(o)'
    BY <1>1, <1>2, <2>1, <2>3, <2>4 DEF Known, Complete
  <2> QED  BY <1>3, <2>5
<1> QED  BY <1>4, <1>5

LEMMA RestartsTruth ==
  ASSUME TruthInv, Restarts, NEW o \in Objects,
         \/ file'[o] = file[o]
         \/ /\ file'[o] # Missing /\ cut[o] >= 1
            /\ Complete(file'[o]) => Complete(file[o]) /\ file'[o].data = file[o].data
  PROVE  Known(o)' /\ resident' \subseteq paged'
<1>1. /\ gen'[o] = 0 /\ data'[o] = Nothing /\ want'[o] = Fresh
      /\ resident' = {} /\ UNCHANGED <<saved, cut>>
  BY DEF Restarts
<1>2. Known(o)  BY DEF TruthInv
<1>3. CASE file'[o] = file[o]
  BY <1>1, <1>2, <1>3, NothingIsFilled DEF Known, Complete
<1>4. CASE file'[o] # file[o]
  BY <1>1, <1>2, <1>4, NothingIsFilled DEF Known, Complete
<1> QED  BY <1>1, <1>3, <1>4

LEMMA CrashTruth ==
  ASSUME TruthInv, Crash, NEW o \in Objects
  PROVE  Known(o)' /\ resident' \subseteq paged'
<1>1. Restarts  BY DEF Crash
<1>2. CASE file' = file  BY <1>1, <1>2, RestartsTruth
<1>3. CASE file' # file
  <2> PICK h : h = Head(job.todo)  OBVIOUS
  <2>1. PICK n \in 0 .. file[h].len :
          /\ job.at = "class" /\ h \in Objects /\ file[h] \in Archive
          /\ file' = [file EXCEPT ![h] = Prefix(file[h], n)]
    BY <1>3, CrashFile DEF TruthInv
  <2> PICK a \in Archive : a = file[h]  BY <2>1
  <2>0. n \in 0 .. a.len  OBVIOUS
  <2> PICK b : b = Prefix(a, n)  OBVIOUS
  <2>2. /\ b \in Archive /\ (n = Whole => b.data = a.data) /\ b.len = n
        /\ n \in Nat /\ n <= a.len /\ a.len <= Whole
    <3>1. b \in Archive /\ (n = Whole => b.data = a.data)  BY <2>0, PrefixFacts
    <3>2. b.len = n  BY DEF Prefix
    <3>3. a.len \in 0 .. Whole  BY DEF Archive
    <3> QED  BY <2>0, <3>1, <3>2, <3>3, WholeNat
  <2>3. CASE o # h
    <3>1. file'[o] = file[o]  BY <2>1, <2>3 DEF TruthInv, TreeInv, SaveInv, Shape
    <3> QED  BY <1>1, <3>1, RestartsTruth
  <2>4. CASE o = h
    <3>1. file'[o] = b  BY <2>1, <2>4 DEF TruthInv, TreeInv, SaveInv, Shape
    <3>2. cut[o] >= 1  BY <2>1, <2>4 DEF TruthInv, TreeInv, SaveInv, Phases, At
    <3>3. b # Missing /\ a # Missing
      <4>1. Missing.len = -1  BY DEF Missing
      <4>2. a.len \in Nat  BY WholeNat DEF Archive
      <4> QED  BY <2>2, <4>1, <4>2
    <3>4. b.len = Whole => a.len = Whole /\ b.data = a.data
      <4>1. a.len \in Nat  BY WholeNat DEF Archive
      <4> QED  BY <2>2, <4>1, WholeNat
    <3> QED  BY <1>1, <2>4, <3>1, <3>2, <3>3, <3>4, RestartsTruth DEF Complete
  <2> QED  BY <2>3, <2>4
<1> QED  BY <1>2, <1>3

\* A dataset that is paged in, and was not there, is what was saved last.
LEMMA PageInTruth ==
  ASSUME Careful, TruthInv, NEW p \in Objects, PageIn(p), NEW o \in Objects
  PROVE  Known(o)' /\ resident' \subseteq paged'
<1>1. MemoryType /\ DiskType /\ Shape /\ Known(o)  BY DEF TruthInv, TreeInv, SaveInv
<1>2. CASE Restarts /\ UNCHANGED file  BY <1>2, RestartsTruth
<1>3. CASE ~(Restarts /\ UNCHANGED file)
  <2>1. MayPageIn(p)  BY DEF PageIn
  <2>2. p \notin paged /\ p \notin resident  BY <2>1 DEF MayPageIn, Careful, TruthInv
  <2>3. PICK r \in LoadDataFromFile(file[p], data[p]) :
          /\ r.data \in Dataset /\ r.res # "fatal"
          /\ data' = [data EXCEPT ![p] = r.data]
          /\ resident' = IF r.res = "missing" THEN resident \cup {p} ELSE resident
          /\ held' = [held EXCEPT ![p] = IF r.res = "failed" THEN held[p] \ {"data"}
                                         ELSE held[p] \cup {"data"}]
          /\ paged' = IF r.res = "failed" THEN paged \ {p} ELSE paged \cup {p}
          /\ want' = IF r.res = "failed" THEN want
                     ELSE [want EXCEPT ![p] = [gen |-> want[p].gen,
                                               data |-> Expected(p, r.data)]]
          /\ UNCHANGED <<file, gen, saved, cut>>
    BY <1>1, <1>3, <2>2, PageInFacts
  <2>4. /\ r.res \in {"missing", "failed", "fatal", "ok"}
        /\ file[p] = Missing => r.res = "missing" /\ r.data = data[p]
        /\ r.res = "missing" => file[p] = Missing
        /\ r.res = "ok" => file[p] # Missing /\ file[p].len = Whole /\ r.data = file[p].data
    <3> PICK f : f = file[p]  OBVIOUS
    <3> PICK d \in Dataset : d = data[p]  BY <1>1 DEF MemoryType
    <3>1. f = Missing \/ f \in Archive  BY <1>1 DEF DiskType
    <3>2. r \in LoadDataFromFile(f, d)  OBVIOUS
    <3> QED  BY <3>1, <3>2, OutcomeFacts
  <2>6. resident' \subseteq paged'  BY <2>2, <2>3 DEF TruthInv
  <2>7. CASE o # p
    <3>1. data'[o] = data[o] /\ held'[o] = held[o] /\ want'[o] = want[o]
      BY <1>1, <2>3, <2>7 DEF MemoryType
    <3> QED  BY <1>1, <2>3, <2>6, <3>1, SameKnown
  <2>8. CASE o = p
    <3>1. data'[o] = r.data  BY <1>1, <2>3, <2>8 DEF MemoryType
    <3>2. CASE r.res = "failed"
      <4>1. held'[o] = held[o] \ {"data"} /\ want'[o] = want[o] /\ file[o] # Missing
        BY <1>1, <2>3, <2>4, <2>8, <3>2 DEF MemoryType
      <4>2. Known(o)'  BY <1>1, <2>3, <4>1 DEF Known, Complete
      <4> QED  BY <2>6, <4>2
    <3>3. CASE r.res # "failed"
      <4>1. /\ held'[o] = held[o] \cup {"data"}
            /\ want'[o] = [gen |-> want[o].gen, data |-> Expected(o, r.data)]
        BY <1>1, <2>3, <2>8, <3>3 DEF MemoryType
      <4>2. cut[o] \in 0 .. 2  BY <1>1 DEF Shape
      <4>3. Expected(o, r.data) = IF cut[o] > 0 THEN r.data
                                  ELSE IF saved[o] # Missing THEN saved[o].data ELSE want[o].data
        BY <2>2, <2>8 DEF Expected
      <4>4. r.data = Expected(o, r.data) /\ IsFilled(r.data)
        <5>1. CASE r.res = "missing"
          <6>1. file[o] = Missing /\ r.data = data[o]  BY <2>4, <2>8, <5>1
          <6>2. cut[o] = 0 => saved[o] = Missing
            BY <6>1 DEF TruthInv, TreeInv, SaveInv, Recoverable, Holds, Complete
          <6> QED  BY <1>1, <4>2, <4>3, <6>1, <6>2 DEF Known
        <5>2. CASE r.res = "ok"
          <6>1. Complete(file[o]) /\ r.data = file[o].data  BY <2>4, <2>8, <5>2 DEF Complete
          <6>2. cut[o] = 0 => saved[o] # Missing /\ r.data = saved[o].data
            BY <6>1, SavedIsWritten DEF Complete
          <6> QED  BY <1>1, <4>2, <4>3, <6>1, <6>2 DEF Known
        <5> QED  BY <2>3, <2>4, <3>3, <5>1, <5>2
      <4>5. want'[o].gen = want[o].gen /\ want'[o].data = r.data  BY <4>1, <4>4
      <4>6. "gen" \in held'[o] => "gen" \in held[o]  BY <4>1
      <4>7. file[o] = Missing => IsFilled(data'[o])  BY <3>1, <4>4
      <4>8. Known(o)'
        BY <1>1, <2>3, <3>1, <4>4, <4>5, <4>6 DEF Known, Complete
      <4> QED  BY <2>6, <4>8
    <3> QED  BY <3>2, <3>3
  <2> QED  BY <2>7, <2>8
<1> QED  BY <1>2, <1>3

\* Variables that were loaded are those that were saved last.
LEMMA LoadTruth ==
  ASSUME Careful, TruthInv, Load, NEW o \in Objects
  PROVE  Known(o)' /\ resident' \subseteq paged'
<1>1. MemoryType /\ DiskType /\ Shape /\ Known(o)  BY DEF TruthInv, TreeInv, SaveInv
<1>2. CASE Restarts /\ UNCHANGED file  BY <1>2, RestartsTruth
<1>3. ASSUME NEW res, Arrived(res)  PROVE Known(o)' /\ resident' \subseteq paged'
  <2>1. MayLoad /\ file[Root] # Missing /\ UNCHANGED <<file, resident, saved, cut>>
    BY <1>3 DEF Arrived
  <2>2. resident' = {}  BY <2>1 DEF MayLoad, Careful
  <2>3. /\ held'[o] = IF o = Root THEN (IF res = "ok" THEN Both ELSE {})
                      ELSE IF o \in LoadTries THEN (IF res = "ok" THEN {"gen"} ELSE {})
                      ELSE held[o]
        /\ want'[o] = IF res # "ok" \/ o \notin LoadTries \cup {Root} THEN want[o]
                      ELSE [gen |-> IF cut[o] > 0 THEN file[o].gen ELSE saved[o].gen,
                            data |-> CASE o # Root -> want[o].data
                                       [] cut[o] > 0 -> file[o].data
                                       [] OTHER -> saved[o].data]
    BY <1>3 DEF Arrived, Told
  <2>4. CASE o \notin LoadTries \cup {Root}
    <3>1. gen'[o] = gen[o] /\ data'[o] = data[o] /\ held'[o] = held[o] /\ want'[o] = want[o]
      BY <1>3, <2>3, <2>4 DEF Arrived
    <3> QED  BY <1>1, <2>1, <2>2, <3>1, SameKnown
  <2>5. CASE o \in LoadTries \cup {Root} /\ res # "ok"
    <3>1. held'[o] = {} /\ want'[o] = want[o]  BY <2>3, <2>5
    <3>2. file[o] = Missing => data'[o] = data[o]  BY <1>3, <2>1, <2>5 DEF Arrived
    <3>3. Known(o)'  BY <1>1, <2>1, <3>1, <3>2 DEF Known, Complete
    <3> QED  BY <2>2, <3>3
  <2>6. CASE o \in LoadTries \cup {Root} /\ res = "ok"
    <3>1. file[o] # Missing /\ gen'[o] = file[o].gen  BY <1>3, <2>6 DEF Arrived
    <3>2. cut[o] \in 0 .. 2  BY <1>1 DEF Shape
    <3>3. cut[o] = 0 => file[o].gen = saved[o].gen /\ file[o].data = saved[o].data
      BY <3>1, SavedIsWritten
    <3>4. want'[o].gen = file[o].gen  BY <2>3, <2>6, <3>2, <3>3
    <3>5. "data" \in held'[o] => o = Root  BY <2>3, <2>6
    <3>6. o = Root => /\ want'[o].data = file[o].data /\ data'[o] = file[o].data
                      /\ Complete(file[o])
      <4> SUFFICES ASSUME o = Root
                   PROVE  /\ want'[o].data = file[o].data /\ data'[o] = file[o].data
                          /\ Complete(file[o])
        OBVIOUS
      <4>1. file[o].len = Whole /\ data'[o] = file[o].data  BY <1>3, <2>6 DEF Arrived
      <4>2. want'[o].data = file[o].data  BY <2>3, <2>6, <3>2, <3>3
      <4> QED  BY <3>1, <4>1, <4>2 DEF Complete
    <3>7. Known(o)'
      BY <1>1, <2>1, <3>1, <3>4, <3>5, <3>6 DEF Known, Complete
    <3> QED  BY <2>2, <3>7
  <2> QED  BY <2>4, <2>5, <2>6
<1> QED  BY <1>1, <1>2, <1>3, LoadFacts

LEMMA NextTruth ==
  ASSUME Careful, TruthInv, [Next]_vars
  PROVE  TruthInv'
<1>1. SaveInv' /\ TreeInv'
  BY NextSaveInv, NextTreeInv DEF TruthInv, TreeInv
<1> SUFFICES resident' \subseteq paged' /\ \A o \in Objects : Known(o)'
  BY <1>1 DEF TruthInv
<1>2. CASE \E k \in Kids : AddChild(k)
  <2>1. UNCHANGED <<resident, paged>>  BY <1>2 DEF AddChild
  <2> QED  BY <1>2, <2>1, AddChildTruth DEF TruthInv
<1>3. CASE \E k \in Kids : Delete(k)
  <2>1. resident' \subseteq paged'  BY <1>3 DEF Delete, TruthInv
  <2> QED  BY <1>3, <2>1, DeleteTruth
<1>4. CASE \E p \in Objects, v \in Values \ {0} : Edit(p, v)
  <2>1. UNCHANGED <<resident, paged>>  BY <1>4 DEF Edit
  <2> QED  BY <1>4, <2>1, EditTruth DEF TruthInv
<1>5. CASE Backup
  <2>1. UNCHANGED <<resident, paged>>  BY <1>5 DEF Backup, memory
  <2> QED  BY <1>1, <1>5, <2>1, BackupTruth DEF TruthInv
<1>6. CASE SerializeGeneric
  <2> PICK h : h = Head(job.todo)  OBVIOUS
  <2> PICK a : a = [len |-> 2, gen |-> gen[h], data |-> Nothing,
                    deps |-> {d \in Objects : deps[h][d] # "none"},
                    kids |-> IF h = Root THEN kids ELSE << >>]  OBVIOUS
  <2>1. /\ job.at = "open" /\ job' = [job EXCEPT !.at = "class"]
        /\ file' = [file EXCEPT ![Head(job.todo)] = a]
        /\ UNCHANGED <<saved, gen, data, want, held, cut, resident, paged>>
    BY <1>6 DEF SerializeGeneric, At, Goes, memory, belief
  <2>2. \A o \in Objects : Known(o)'  BY <1>1, <2>1, WritesTruth
  <2> QED  BY <2>1, <2>2 DEF TruthInv
<1>7. CASE SerializeClass
  <2> PICK h : h = Head(job.todo)  OBVIOUS
  <2> PICK a : a = WithClass(file[h], file[h].len - 1, data[h][file[h].len - 1])  OBVIOUS
  <2>1. /\ job.at = "class" /\ job' = job
        /\ file' = [file EXCEPT ![Head(job.todo)] = a]
        /\ UNCHANGED <<saved, gen, data, want, held, cut, resident, paged>>
    BY <1>7 DEF SerializeClass, At, memory, belief
  <2>2. job \in Jobs  BY <2>1, AtWork DEF TruthInv
  <2>3. job' = [job EXCEPT !.at = "class"]  BY <2>1, <2>2 DEF Jobs
  <2>4. \A o \in Objects : Known(o)'  BY <1>1, <2>1, <2>3, WritesTruth
  <2> QED  BY <2>1, <2>4 DEF TruthInv
<1>8. CASE CloseFile
  <2>1. Objects # {}  BY Constants
  <2> QED  BY <1>8, <2>1, CloseFileTruth
<1>9. CASE \E p \in Objects : PageIn(p)
  <2>1. Objects # {}  BY Constants
  <2> QED  BY <1>9, <2>1, PageInTruth
<1>10. CASE Load
  <2>1. Objects # {}  BY Constants
  <2> QED  BY <1>10, <2>1, LoadTruth
<1>11. CASE Restart
  <2>1. Restarts /\ file' = file /\ Root \in Objects  BY <1>11, Constants DEF Restart
  <2> QED  BY <2>1, RestartsTruth
<1>12. CASE Crash
  <2>1. Objects # {}  BY Constants
  <2> QED  BY <1>12, <2>1, CrashTruth
<1>13. CASE \/ \E o \in Objects : Save(o) \/ PageOut(o)
            \/ SaveAll \/ SaveFails \/ UNCHANGED vars
            \/ \E p \in Links : AddDep(p[1], p[2]) \/ DelDep(p[1], p[2])
  <2>1. UNCHANGED <<file, saved, cut, gen, data, want, held, resident, paged>>
    BY <1>13 DEF Save, PageOut, SaveAll, Begins, SaveFails, AddDep, DelDep, vars, disk, memory, belief
  <2> QED  BY <2>1, SameKnown DEF TruthInv
<1> QED
  BY <1>2, <1>3, <1>4, <1>5, <1>6, <1>7, <1>8, <1>9, <1>10, <1>11, <1>12, <1>13
     DEF Next, Saving

(* If an application follows the three rules, then when AG_ObjectPageIn or
   AG_ObjectLoad returned 0 the variables or the dataset it asked for are whole,
   what one edit made, whatever loads failed halfway and crashes came before.
   They are those that were saved last, if no save of the object was cut short
   since; if one was, they are what the file holds, or what was in memory if
   there is no file. *)
THEOREM ToldTheTruth == Careful => (Spec => []Truthful)
<1> SUFFICES ASSUME Careful PROVE Spec => []Truthful  OBVIOUS
<1>1. Init => TruthInv  BY InitTruth
<1>2. TruthInv /\ [Next]_vars => TruthInv'  BY NextTruth
<1>3. TruthInv => Truthful
  <2> SUFFICES ASSUME TruthInv, NEW o \in Attached
               PROVE  /\ "gen" \in held[o] => gen[o] = want[o].gen
                      /\ "data" \in held[o] => /\ data[o] = want[o].data
                                               /\ \E v \in Values : data[o] = Filled(v)
    BY DEF Truthful
  <2>1. o \in Objects  BY AttachedObjects DEF TruthInv, TreeInv, MemoryType
  <2> QED  BY <2>1 DEF TruthInv, Known, IsFilled
<1> QED  BY <1>1, <1>2, <1>3, PTL DEF Spec

=============================================================================
