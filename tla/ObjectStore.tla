---------------------------- MODULE ObjectStore -----------------------------
(***************************************************************************)
(* Archives of objects (core/object.c): a tree of objects is saved to one  *)
(* file per object and loaded again, and the dataset of an object is paged *)
(* out and in.  A call holds the lock of the tree from end to end, so the  *)
(* calls do not interleave; but a save goes through several system calls,  *)
(* each of which can fail, and the program can end between any two.        *)
(*                                                                         *)
(* The tree is a root and its children.  An archive has a generic part     *)
(* (variables, dependencies, child table) and a dataset: one part for each *)
(* class of the object's hierarchy.                                        *)
(***************************************************************************)
EXTENDS AgQueue

CONSTANTS
  Root,       \* the root of the tree, with AG_OBJECT_CHLD_AUTOSAVE
  Kids,       \* names of children, all persistent
  Links,      \* pairs: the first may come to depend on the second
  Started,    \* the children that the application makes when it starts
  NHier,      \* classes in the hierarchy of an object
  MaxVer,     \* bound: values that a dataset and variables may have
  Remain,     \* the objects with AG_OBJECT_REMAIN_DATA
  MaxFaults,  \* bound: saves that are cut short
  MaxCalls,   \* bound: calls of the application
  Liberties   \* the rules that the application breaks, see MayLoad

Objects == {Root} \cup Kids
Classes == 1 .. NHier
Values == 0 .. MaxVer     \* 0: what init and reinit make
Whole == NHier + 2        \* the length of a complete archive

ASSUME ObjectsAssumption ==
  /\ Root \notin Kids /\ Remain \subseteq Objects
  /\ Links \subseteq Objects \X Objects /\ Started \in Seq(Kids)
ASSUME BoundsAssumption == NHier \in Nat \ {0} /\ {MaxVer, MaxFaults, MaxCalls} \subseteq Nat

VARIABLES
  file,      \* per object: its datafile, an archive or Missing
  bak,       \* the file with .bak after its name
  unmoved,   \* the objects of which the datafile was not renamed to that, but left
             \* where it is, when they were saved last
  gen,       \* per object: its variables
  data,      \* its dataset: a value for each class
  deps,      \* its dependencies: "none", "path" (dep->obj is NULL) or "obj"
  resident,  \* the objects with AG_OBJECT_RESIDENT
  kids,      \* the children of the root, in order
  job,       \* the save that is going on
  calls, faults,
  want,      \* what the application expects: per object, the variables and dataset
  held,      \* which of the two it has reason to expect in memory
  paged,     \* the objects that it has paged in, and not out
  saved,     \* per object: what was in memory when it was saved last
  cut,       \* per object: saves begun since the last one that was completed
  tree       \* AG_ObjectSaveAll was the last call to write a file, and succeeded

disk == <<file, bak, unmoved>>
memory == <<gen, data, deps, resident, kids>>
belief == <<want, held, paged, saved, cut, tree>>
vars == <<disk, memory, job, calls, faults, belief>>

Nothing == [i \in Classes |-> 0]
Filled(v) == [i \in Classes |-> v]
Missing == [len |-> -1, gen |-> 0, deps |-> {}, kids |-> <<>>, data |-> Nothing]
NoDeps == [d \in Objects |-> "none"]
Both == {"gen", "data"}
Fresh == [gen |-> 0, data |-> Nothing]
NoJob == [op |-> "none", todo |-> <<>>, at |-> "idle"]
Attached == {Root} \cup Range(kids)
Idle == job = NoJob

(* An archive that a save was cut short in: the parts that follow are gone.
   Length 0 is an empty file, 1 ends before the child table does, 2 before
   the first class. *)
Prefix(a, n) ==
  [len |-> n,
   gen |-> IF n < 2 THEN 0 ELSE a.gen,
   deps |-> IF n < 2 THEN {} ELSE a.deps,
   kids |-> IF n < 2 THEN <<>> ELSE a.kids,
   data |-> [i \in Classes |-> IF i + 2 <= n THEN a.data[i] ELSE 0]]

Complete(f) == f # Missing /\ f.len = Whole

(* The objects made at startup, and an archive of one with its dependencies. *)
AtStart == {Root} \cup Range(Started)
NewArchive(o) ==
  [len |-> Whole, gen |-> 0, data |-> Nothing,
   deps |-> {d \in AtStart : <<o, d>> \in Links},
   kids |-> IF o = Root THEN Started ELSE <<>>]

(* The first time the program is started, or after AG_ObjectSaveAll. *)
Init ==
  /\ tree \in BOOLEAN
  /\ file = [o \in Objects |-> IF tree /\ o \in AtStart THEN NewArchive(o) ELSE Missing]
  /\ saved = [o \in Objects |-> IF tree /\ o \in AtStart THEN Fresh ELSE Missing]
  /\ bak = [o \in Objects |-> Missing] /\ unmoved = {}
  /\ gen = [o \in Objects |-> 0]
  /\ data = [o \in Objects |-> Nothing]
  /\ deps = [o \in Objects |-> NoDeps]
  /\ resident = {} /\ kids = Started
  /\ job = NoJob /\ calls = 0 /\ faults = 0
  /\ want = [o \in Objects |-> Fresh]
  /\ held = [o \in Objects |-> IF o \in AtStart THEN Both ELSE {}]
  /\ paged = {}
  /\ cut = [o \in Objects |-> 0]

-----------------------------------------------------------------------------
(* What the application does. *)

(* It follows these rules, unless Liberties names them.
   "again": no object is paged in twice without being paged out.
   "blind": an object is saved only if its variables and dataset are in memory,
            as far as the application has been told.
   "reload": the tree is not loaded while an object is marked resident. *)
MayPageIn(o) == o \notin paged \/ "again" \in Liberties
MaySave(o) == held[o] = Both \/ "blind" \in Liberties
MayLoad == resident = {} \/ "reload" \in Liberties

Calls == Idle /\ calls < MaxCalls /\ calls' = calls + 1

AddChild(k) ==
  /\ Calls /\ k \notin Attached
  /\ kids' = TailqInsertTail(kids, k)
  /\ gen' = [gen EXCEPT ![k] = 0] /\ data' = [data EXCEPT ![k] = Nothing]
  /\ deps' = [deps EXCEPT ![k] = NoDeps]
  /\ want' = [want EXCEPT ![k] = Fresh] /\ held' = [held EXCEPT ![k] = Both]
  /\ UNCHANGED <<disk, resident, job, faults, paged, saved, cut, tree>>

Edit(o, v) ==
  /\ Calls /\ o \in Attached /\ held[o] = Both
  /\ gen' = [gen EXCEPT ![o] = v] /\ data' = [data EXCEPT ![o] = Filled(v)]
  /\ want' = [want EXCEPT ![o] = [gen |-> v, data |-> Filled(v)]]
  /\ UNCHANGED <<disk, deps, resident, kids, job, faults, held, paged, saved, cut, tree>>

AddDep(o, d) ==
  /\ Calls /\ {o, d} \subseteq Attached /\ held[o] = Both
  /\ deps' = [deps EXCEPT ![o][d] = "obj"]
  /\ UNCHANGED <<disk, gen, data, resident, kids, job, faults, belief>>

DelDep(o, d) ==
  /\ Calls /\ o \in Attached /\ deps[o][d] = "obj"
  /\ deps' = [deps EXCEPT ![o][d] = "none"]
  /\ UNCHANGED <<disk, gen, data, resident, kids, job, faults, belief>>

FindObjectInUse(o) == \E x \in Attached \ {o} : deps[x][o] = "obj"

InUse(o) ==
  \/ FindObjectInUse(o)
  \/ o = Root /\ \E k \in Range(kids) : FindObjectInUse(k)

(* AG_ObjectUnlinkDatafiles, then the object is deleted. *)
Delete(k) ==
  /\ Calls /\ k \in Range(kids) /\ ~InUse(k)
  /\ file' = [file EXCEPT ![k] = Missing]
  /\ kids' = TailqRemove(kids, k)
  /\ deps' = [deps EXCEPT ![k] = NoDeps]
  /\ gen' = [gen EXCEPT ![k] = 0] /\ data' = [data EXCEPT ![k] = Nothing]
  /\ resident' = resident \ {k}
  /\ want' = [want EXCEPT ![k] = Fresh] /\ held' = [held EXCEPT ![k] = {}]
  /\ paged' = paged \ {k}
  /\ saved' = [saved EXCEPT ![k] = Missing] /\ cut' = [cut EXCEPT ![k] = 0]
  /\ tree' = FALSE
  /\ UNCHANGED <<bak, unmoved, job, faults>>

-----------------------------------------------------------------------------
(* Saving. *)

Begins(op, todo) ==
  /\ Calls
  /\ job' = [op |-> op, todo |-> todo, at |-> "backup"]
  /\ UNCHANGED <<disk, memory, faults, belief>>

Save(o) == o \in Attached /\ MaySave(o) /\ Begins("save", <<o>>)

SaveAllRoot == Begins("saveall", <<Root>>)   \* mutant: the children are left out

(* Only the root has children, so the recursion is one level deep. *)
SaveAll ==
  /\ \A o \in Attached : MaySave(o)
  /\ Begins("saveall", <<Root>> \o kids)

(* An object that is in use stays as it is.  There is no handler for
   "object-page-out". *)
PageOut(o) ==
  /\ o \in Attached /\ ~InUse(o)
  /\ MaySave(o) /\ (o \in paged \/ "blind" \in Liberties)
  /\ Begins("pageout", <<o>>)

At(place) == job.at = place
Goes(place) == job' = [job EXCEPT !.at = place]

BackupObjectFileLost(o) ==   \* mutant: the old archive is removed
  /\ file' = [file EXCEPT ![o] = Missing] /\ UNCHANGED <<bak, unmoved>>

(* The old archive is renamed, which may fail (the directory is not writable,
   the name is cut at AG_PATHNAME_MAX): nobody looks at what rename() returns. *)
BackupObjectFile(o) ==
  \/ /\ bak' = IF file[o] # Missing THEN [bak EXCEPT ![o] = file[o]] ELSE bak
     /\ file' = [file EXCEPT ![o] = Missing]
     /\ unmoved' = unmoved \ {o}
  \/ /\ file[o] # Missing
     /\ unmoved' = unmoved \cup {o}
     /\ UNCHANGED <<file, bak>>

Backup ==
  LET o == Head(job.todo) IN
  /\ At("backup") /\ Goes("open")
  /\ BackupObjectFile(o)
  /\ cut' = [cut EXCEPT ![o] = IF @ < 2 THEN @ + 1 ELSE 2]
  /\ tree' = FALSE
  /\ UNCHANGED <<memory, calls, faults, want, held, paged, saved>>

(* The call returns -1, and AG_ObjectSaveAll with it. *)
SaveFails ==
  /\ At("open") \/ (At("class") /\ file[Head(job.todo)].len < Whole)
  /\ faults < MaxFaults /\ faults' = faults + 1
  /\ job' = NoJob
  /\ UNCHANGED <<disk, memory, calls, belief>>

(* The file is made, or an old one emptied, and the generic part written.  The names of the
   dependencies come from dep->obj, see NoNullDep. *)
SerializeGeneric ==
  LET o == Head(job.todo) IN
  /\ At("open") /\ Goes("class")
  /\ file' = [file EXCEPT ![o] =
       [len |-> 2, gen |-> gen[o], data |-> Nothing,
        deps |-> {d \in Objects : deps[o][d] # "none"},
        kids |-> IF o = Root THEN kids ELSE <<>>]]
  /\ UNCHANGED <<bak, unmoved, memory, calls, faults, belief>>

WithClass(a, i, v) ==
  [len |-> a.len + 1, gen |-> a.gen, deps |-> a.deps, kids |-> a.kids,
   data |-> [a.data EXCEPT ![i] = v]]

SerializeClass ==
  LET o == Head(job.todo)  i == file[o].len - 1 IN
  /\ At("class") /\ file[o].len < Whole
  /\ file' = [file EXCEPT ![o] = WithClass(@, i, data[o][i])]
  /\ UNCHANGED <<bak, unmoved, memory, job, calls, faults, belief>>

(* AG_CloseFile; then what the caller of AG_ObjectSaveToFile does next. *)
CloseFile ==
  LET o == Head(job.todo)
      last == Len(job.todo) = 1
      frees == job.op = "pageout" /\ o \notin Remain
  IN
  /\ At("class") /\ file[o].len = Whole
  /\ job' = IF last THEN NoJob ELSE [job EXCEPT !.todo = Tail(@), !.at = "backup"]
  /\ data' = IF frees THEN [data EXCEPT ![o] = Nothing] ELSE data
  /\ resident' = IF frees THEN resident \ {o} ELSE resident
  /\ held' = IF frees THEN [held EXCEPT ![o] = @ \ {"data"}] ELSE held
  /\ paged' = IF frees THEN paged \ {o} ELSE paged
  /\ saved' = [saved EXCEPT ![o] = [gen |-> gen[o], data |-> data[o]]] /\ cut' = [cut EXCEPT ![o] = 0]
  /\ tree' = (last /\ job.op = "saveall")
  /\ UNCHANGED <<disk, gen, deps, kids, calls, faults, want>>

-----------------------------------------------------------------------------
(* Loading. *)

(* AG_ObjectReadHeader and the tables that follow.  "cut": the file ends in
   the middle of them, which ends the program (AG_DataSourceError). *)
Status(f) ==
  IF f = Missing THEN "missing"
  ELSE CASE f.len = 0 -> "bad" [] f.len = 1 -> "cut" [] OTHER -> "ok"

Outcome(res, d) == [res |-> res, data |-> d]

LoadDataFromFileLax(f, d) ==   \* mutant: the class that fails is passed over
  LET read(n) == [i \in Classes |-> IF i <= n THEN f.data[i] ELSE 0] IN
  CASE Status(f) = "missing" -> {Outcome("missing", d)}
    [] Status(f) = "bad" -> {Outcome("failed", d)}
    [] OTHER -> {Outcome("ok", read(n)) : n \in 0 .. NHier}

(* What AG_ObjectLoadDataFromFile may do, given the datafile and the dataset.
   A class may fail to load its part, and those that follow are then as reinit
   left them.  A file that ends too early may end the program. *)
LoadDataFromFile(f, d) ==
  LET read(n) == [i \in Classes |-> IF i <= n THEN f.data[i] ELSE 0]
      there == f.len - 2
  IN
  CASE Status(f) = "missing" -> {Outcome("missing", d)}
    [] Status(f) = "bad" -> {Outcome("failed", d)}
    [] Status(f) = "cut" -> {Outcome("failed", d), Outcome("fatal", d)}
    [] OTHER ->
         {Outcome("failed", read(n)) : n \in {m \in 0 .. there : m < NHier}}
           \cup (IF there = NHier THEN {Outcome("ok", read(NHier))}
                 ELSE {Outcome("fatal", d)})
           \cup (IF there = 0 THEN {Outcome("failed", d)} ELSE {})

(* The program ends, and is started again.  A file that was being written is
   left with what had been flushed. *)
Restarts ==
  /\ gen' = [o \in Objects |-> 0]
  /\ data' = [o \in Objects |-> Nothing]
  /\ deps' = [o \in Objects |-> NoDeps]
  /\ resident' = {} /\ kids' = Started /\ job' = NoJob
  /\ want' = [o \in Objects |-> Fresh]
  /\ held' = [o \in Objects |-> IF o \in AtStart THEN Both ELSE {}]
  /\ paged' = {}
  /\ UNCHANGED <<bak, unmoved, saved, cut, tree>>

Restart == Calls /\ Restarts /\ UNCHANGED <<file, faults>>

Crash ==
  /\ ~Idle /\ faults < MaxFaults /\ faults' = faults + 1 /\ UNCHANGED calls
  /\ LET o == Head(job.todo) IN
       IF At("class")
         THEN \E n \in 0 .. file[o].len : file' = [file EXCEPT ![o] = Prefix(@, n)]
         ELSE UNCHANGED file
  /\ Restarts

(* What the application expects of a dataset that it is told was loaded: what it
   saved last, or, if a save has been cut short since, whatever it finds (d). *)
Expected(o, d) ==
  IF o \in paged THEN want[o].data
  ELSE IF cut[o] > 0 THEN d
  ELSE IF saved[o] # Missing THEN saved[o].data ELSE want[o].data

(* AG_ObjectLoadDataFromFile does not mark the object resident. *)
PageIn(o) ==
  /\ Calls /\ o \in Attached /\ MayPageIn(o)
  /\ \E r \in IF o \in resident THEN {Outcome("resident", data[o])}
              ELSE LoadDataFromFile(file[o], data[o]) :
       \/ r.res = "fatal" /\ Restarts /\ UNCHANGED <<file, faults>>
       \/ /\ r.res # "fatal"
          /\ data' = [data EXCEPT ![o] = r.data]
          /\ resident' = IF r.res = "missing" THEN resident \cup {o} ELSE resident
          /\ held' = [held EXCEPT ![o] = IF r.res = "failed" THEN @ \ {"data"}
                                         ELSE @ \cup {"data"}]
          /\ paged' = IF r.res = "failed" THEN paged \ {o} ELSE paged \cup {o}
          /\ want' = IF r.res = "failed" THEN want
                     ELSE [want EXCEPT ![o].data = Expected(o, r.data)]
          /\ UNCHANGED <<disk, gen, deps, kids, job, faults, saved, cut, tree>>

(* AG_ObjectLoadGenericFromFile for the root.  Its children are found, or made
   and attached, and loaded in the order of the table, up to the first that
   fails (Stop); the root then loses its dataset and dependencies. *)
Stop(tab) == {i \in DOMAIN tab : Status(file[tab[i]]) # "ok"}

Tried(tab) ==
  IF Stop(tab) = {} THEN tab
  ELSE SubSeq(tab, 1, CHOOSE i \in Stop(tab) : \A j \in Stop(tab) : i <= j)

(* The children when those of the names that are not there were made. *)
FoundOrMade(names) ==
  LET after[n \in 0 .. Len(names)] ==
        IF n = 0 THEN kids
        ELSE IF names[n] \in Range(after[n - 1]) THEN after[n - 1]
        ELSE TailqInsertTail(after[n - 1], names[n])
  IN after[Len(names)]

LoadGeneric ==
  LET f == file[Root]
      tab == f.kids
      tried == Range(Tried(tab))
      read == {o \in tried : Status(file[o]) = "ok"}
                \cup (IF Stop(tab) = {} THEN {Root} ELSE {})
      named(o) == [d \in Objects |-> IF d \in file[o].deps THEN "path" ELSE "none"]
      freed == {Root} \cup {o \in tried : Status(file[o]) # "missing"}
  IN
  IF Status(f) # "ok"
    THEN [res |-> IF Status(f) = "cut" THEN "fatal" ELSE "failed",
          gen |-> gen, kids |-> kids,
          data |-> IF Status(f) = "bad" THEN [data EXCEPT ![Root] = Nothing] ELSE data,
          deps |-> IF Status(f) = "bad" THEN [deps EXCEPT ![Root] = NoDeps] ELSE deps]
    ELSE [res |-> IF Stop(tab) = {} THEN "ok"
                  ELSE IF \E o \in tried : Status(file[o]) = "cut" THEN "fatal" ELSE "failed",
          gen |-> [o \in Objects |-> IF o \in read \cup {Root} THEN file[o].gen ELSE gen[o]],
          data |-> [o \in Objects |-> IF o \in freed THEN Nothing ELSE data[o]],
          deps |-> [o \in Objects |-> CASE o \in read -> named(o)
                                        [] o \in freed \ read -> NoDeps
                                        [] OTHER -> deps[o]],
          kids |-> FoundOrMade(Tried(tab))]

(* D with the dependencies in R resolved. *)
Resolved(D, R) ==
  [o \in Objects |-> [d \in Objects |-> IF <<o, d>> \in R THEN "obj" ELSE D[o][d]]]

ResolveDepsRoot(D, up) ==   \* mutant: the children are left out
  {[res |-> "ok", deps |-> Resolved(D, {<<Root, d>> : d \in {e \in Objects : D[Root][e] = "path"}})]}

(* What AG_ObjectResolveDeps may make of the dependencies D of the objects in
   up: it gives up at the first name that is not in the tree. *)
ResolveDeps(D, up) ==
  LET open == {p \in up \X Objects : D[p[1]][p[2]] = "path"}
      found == {p \in open : p[2] \in up}
  IN IF found = open THEN {[res |-> "ok", deps |-> Resolved(D, found)]}
     ELSE {[res |-> "failed", deps |-> Resolved(D, R)] : R \in SUBSET found}

Told(res, tried) ==
  /\ held' = [o \in Objects |-> IF o = Root THEN (IF res = "ok" THEN Both ELSE {})
                                ELSE IF o \in tried THEN (IF res = "ok" THEN {"gen"} ELSE {})
                                ELSE held[o]]
  /\ paged' = paged \ (tried \cup {Root})
  /\ want' = [o \in Objects |->
                IF res # "ok" \/ o \notin tried \cup {Root} THEN want[o]
                ELSE [gen |-> IF cut[o] > 0 THEN file[o].gen ELSE saved[o].gen,
                      data |-> CASE o # Root -> want[o].data
                                 [] cut[o] > 0 -> file[o].data
                                 [] OTHER -> saved[o].data]]

(* AG_ObjectLoadFromFile for the root: the datasets of the children are not
   loaded. *)
Load ==
  LET g == LoadGeneric
      tried == IF Status(file[Root]) = "ok" THEN Range(Tried(file[Root].kids)) ELSE {}
      up == {Root} \cup Range(g.kids)
      loaded(D, d, res) ==
        /\ gen' = g.gen /\ kids' = g.kids /\ deps' = D
        /\ data' = [g.data EXCEPT ![Root] = d]
        /\ Told(res, tried)
        /\ UNCHANGED <<disk, resident, job, faults, saved, cut, tree>>
  IN
  /\ Calls /\ MayLoad /\ Status(file[Root]) # "missing"
  /\ \/ g.res = "fatal" /\ Restarts /\ UNCHANGED <<file, faults>>
     \/ g.res = "failed" /\ loaded(g.deps, g.data[Root], "failed")
     \/ /\ g.res = "ok"
        /\ \E n \in ResolveDeps(g.deps, up) :
             IF n.res = "failed" THEN loaded(n.deps, g.data[Root], "failed")
             ELSE \E r \in LoadDataFromFile(file[Root], g.data[Root]) :
                    IF r.res = "fatal" THEN Restarts /\ UNCHANGED <<file, faults>>
                    ELSE loaded(n.deps, r.data, r.res)

-----------------------------------------------------------------------------
Saving == Backup \/ SerializeGeneric \/ SerializeClass \/ CloseFile \/ SaveFails

Next ==
  \/ \E k \in Kids : AddChild(k) \/ Delete(k)
  \/ \E o \in Objects : Save(o) \/ PageOut(o) \/ PageIn(o)
  \/ \E o \in Objects, v \in Values \ {0} : Edit(o, v)
  \/ \E p \in Links : AddDep(p[1], p[2]) \/ DelDep(p[1], p[2])
  \/ SaveAll \/ Saving \/ Load \/ Restart \/ Crash

Spec == Init /\ [][Next]_vars

-----------------------------------------------------------------------------
Holds(f, s) == Complete(f) /\ f.gen = s.gen /\ \A i \in Classes : f.data[i] = s.data[i]

(* A save that is cut short does not lose the object, if the old archive could be
   renamed: until a second one is begun, what was saved before is complete in the
   datafile or its backup, wherever AG_ObjectSaveToFile failed or the program ended. *)
Recoverable ==
  \A o \in Objects : saved[o] # Missing =>
    /\ cut[o] = 0 => Holds(file[o], saved[o])
    /\ cut[o] = 1 /\ o \notin unmoved => Holds(bak[o], saved[o])

(* The same with no condition, as the comment on agObjectBackups says ("Backup
   object save files"): what was saved is never overwritten before it is copied. *)
(* (Not true of this code: see the README's Findings.) *)
BackedUp ==
  \A o \in Objects : saved[o] # Missing /\ cut[o] < 2 =>
    Holds(file[o], saved[o]) \/ Holds(bak[o], saved[o])

(* A dataset that the application was told is in memory is there, whole, and so
   are the variables: a load that returned 0 did not mix what it read with
   what was there or was reinitialized, after any calls, failed loads and
   restarts, and what it read is what was saved last. *)
Truthful ==
  \A o \in Attached :
    /\ "gen" \in held[o] => gen[o] = want[o].gen
    /\ "data" \in held[o] => data[o] = want[o].data /\ \E v \in Values : data[o] = Filled(v)

(* A tree that AG_ObjectSaveAll wrote can be loaded: the archives of the
   children in the table of the root are there, and all dependencies are in
   the tree. *)
Reloadable ==
  tree =>
    LET tab == file[Root].kids  listed == {Root} \cup Range(tab) IN
    \A o \in listed : Complete(file[o]) /\ file[o].deps \subseteq listed

(* What a load that returned 0 has read has all of its dependencies resolved: the
   paths that it found are looked up in the whole tree, the children of the object
   included, and it fails when one is not found. *)
DepsResolved ==
  \A o \in Objects : "gen" \in held[o] => \A d \in Objects : deps[o][d] # "path"

(* "The AG_ObjectSave* family of functions serialize and save the state of the given
   object" (AG_Object.3): serializing never meets a dependency of which only the
   path was read, whose dep->obj is NULL. *)
(* (Not true of this code: see the README's Findings.) *)
NoNullDep ==
  At("open") => \A d \in Objects : deps[Head(job.todo)][d] # "path"
=============================================================================
