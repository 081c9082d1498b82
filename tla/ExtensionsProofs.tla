--------------------------- MODULE ExtensionsProofs ---------------------------
(***************************************************************************)
(* The invariants of Extensions, for any extensions, files and requests.   *)
(***************************************************************************)
EXTENDS Extensions, TLAPS

Describes(row) ==
  row.xpi \notin crossed =>
    /\ stored[row.xpi] # None
    /\ row.hash = sha256(stored[row.xpi])
    /\ row.extension_id = stored[row.xpi].id
    /\ row.version = stored[row.xpi].version
    /\ stored[row.xpi].manifest = "install.rdf" => row.is_legacy

Shaped(j) ==
  /\ j.op # "create" => j.extension # None
  /\ j.op = "update" => j.row # None
  /\ j.op = "destroy" => j.file = None
  /\ j.op = "create" => j.file # None
  /\ j.file # None => j.name # None /\ Accepted(j.file)
  /\ j.pc \in {"free", "put"} => j.file # None

Shape == \A w \in Worker : job[w] # None => Shaped(job[w])

\* What a request has read of the table and the storage still holds.
Tables == \A e \in Extension : extension[e] \notin {None, Deleted} => Describes(extension[e])

Reads ==
  \A w \in Worker : job[w] # None =>
    /\ job[w].row # None => Describes(job[w].row)
    /\ job[w].name \notin crossed =>
         /\ job[w].pc = "free" => stored[job[w].name] = None
         /\ job[w].pc = "put"  => stored[job[w].name] = job[w].file

\* Of two requests that found a name free, the name is crossed.
Apart ==
  \A v, w \in Worker :
    v # w /\ job[v] # None /\ job[w] # None /\ job[v].pc = "free" /\ job[w].pc = "free"
      => job[v].name # job[w].name \/ job[v].name \in crossed

Files == Tables /\ Reads /\ Apart

\* A request that has looked acts on an extension that is not used, or is late.
Looked ==
  \A w \in Worker :
    job[w] # None /\ job[w].op # "create" /\ job[w].pc # "loaded" /\ w \notin late
      => ~InUse(job[w].extension)

Typed == TypeOK /\ Shape

----------------------------------------------------------------------------
LEMMA MetadataType ==
  ASSUME NEW row, NEW n \in Name, NEW x \in Xpi, Accepted(x)
  PROVE  populate_metadata(row, n, x) \in Row
<1> DEFINE legacy == x.manifest = "install.rdf" \/ (row # None /\ row.is_legacy)
<1>1. x.id \in AddonId /\ x.version \in Version
  BY ExtensionsAssumption DEF Accepted
<1>2. legacy \in BOOLEAN
  BY Zenon
<1>3. sha256(x) \in {sha256(y) : y \in Xpi}
  BY Zenon
<1>4. populate_metadata(row, n, x) =
        [xpi |-> n, is_legacy |-> legacy, extension_id |-> x.id, version |-> x.version,
         hash |-> sha256(x)]
  BY DEF populate_metadata
<1> HIDE DEF legacy
<1>5. [xpi |-> n, is_legacy |-> legacy, extension_id |-> x.id, version |-> x.version,
       hash |-> sha256(x)] \in Row
  BY <1>1, <1>2, <1>3, Zenon DEF Row
<1> QED
  BY <1>4, <1>5

LEMMA MetadataFields ==
  ASSUME NEW row, NEW n, NEW x
  PROVE  /\ populate_metadata(row, n, x).xpi = n
         /\ populate_metadata(row, n, x).extension_id = x.id
         /\ populate_metadata(row, n, x).version = x.version
         /\ populate_metadata(row, n, x).hash = sha256(x)
         /\ x.manifest = "install.rdf" => populate_metadata(row, n, x).is_legacy
BY Zenon DEF populate_metadata

\* A row that is stored comes from a file that was put, or is one that was read.
LEMMA SavedType ==
  ASSUME Typed, NEW w \in Worker, job[w] # None,
         \/ job[w].op = "create"
         \/ job[w].op = "update" /\ job[w].file # None
  PROVE  populate_metadata(job[w].row, job[w].name, job[w].file) \in Row
         /\ populate_metadata(None, job[w].name, job[w].file) \in Row
<1>1. job[w] \in Job /\ Shaped(job[w])
  BY DEF Typed, TypeOK, Shape
<1>2. job[w].file \in Xpi /\ job[w].name \in Name /\ Accepted(job[w].file)
  BY <1>1 DEF Job, Shaped
<1> QED
  BY <1>2, MetadataType

LEMMA InitInv == Init => Typed /\ Files /\ Looked
BY ExtensionsAssumption DEF Init, Typed, TypeOK, Shape, Files, Tables, Reads, Apart, Looked

----------------------------------------------------------------------------
(* Types.                                                                  *)

LEMMA GotoType ==
  ASSUME Typed, NEW w \in Worker, job[w] # None, NEW pc \in {"checked", "free", "put"},
         pc \in {"free", "put"} => job[w].file # None,
         Goto(w, pc)
  PROVE  /\ job' \in [Worker -> Job \cup {None}]
         /\ \A v \in Worker : job'[v] # None => Shaped(job'[v])
         /\ late' \subseteq {v \in Worker : job'[v] # None}
<1> DEFINE j == [job[w] EXCEPT !.pc = pc]
<1>1. job[w] \in Job /\ Shaped(job[w])
  BY DEF Typed, TypeOK, Shape
<1>2. j \in Job
  BY <1>1 DEF Job
<1>3. Shaped(j)
  BY <1>1 DEF Shaped, Job
<1>4. j # None
  BY <1>2, NoneAssumption
<1> HIDE DEF j
<1>5. job' = [job EXCEPT ![w] = j] /\ late' = late
  BY DEF Goto, j
<1> QED
  BY <1>2, <1>3, <1>4, <1>5 DEF Typed, TypeOK, Shape

LEMMA LeaveType ==
  ASSUME Typed, NEW w \in Worker, Leave(w)
  PROVE  /\ job' \in [Worker -> Job \cup {None}]
         /\ \A v \in Worker : job'[v] # None => Shaped(job'[v])
         /\ late' \subseteq {v \in Worker : job'[v] # None}
BY DEF Typed, TypeOK, Shape, Leave

LEMMA BeginType ==
  ASSUME Typed, NEW w \in Worker, NEW j \in Job, Shaped(j),
         job' = [job EXCEPT ![w] = j], UNCHANGED late
  PROVE  /\ job' \in [Worker -> Job \cup {None}]
         /\ \A v \in Worker : job'[v] # None => Shaped(job'[v])
         /\ late' \subseteq {v \in Worker : job'[v] # None}
BY NoneAssumption DEF Typed, TypeOK, Shape

LEMMA CreateType ==
  ASSUME Typed, NEW w \in Worker, NEW n \in Name, NEW x \in Xpi, Create(w, n, x)
  PROVE  Typed'
<1> DEFINE j == [op |-> "create", pc |-> "checked", extension |-> None, row |-> None,
                 name |-> n, file |-> x]
<1>1. j \in Job
  BY DEF Job
<1>2. Shaped(j)
  BY ExtensionsAssumption DEF Shaped, Create
<1>3. job' = [job EXCEPT ![w] = j] /\ UNCHANGED late
  BY DEF Create
<1> HIDE DEF j
<1> QED
  BY <1>1, <1>2, <1>3, BeginType DEF Typed, TypeOK, Shape, Create, recipes

LEMMA LoadType ==
  ASSUME Typed, NEW w \in Worker, NEW op \in {"update", "destroy"}, NEW e \in Extension,
         NEW n \in Name \cup {None}, NEW x \in Xpi \cup {None}, Load(w, op, e, n, x)
  PROVE  Typed'
<1> DEFINE j == [op |-> op, pc |-> "loaded", extension |-> e,
                 row |-> IF op = "update" THEN extension[e] ELSE None,
                 name |-> n, file |-> x]
<1>1. extension[e] \in Row
  BY DEF Typed, TypeOK, Load
<1>2. j \in Job
  BY <1>1 DEF Job
<1>3. Shaped(j)
  BY <1>1, ExtensionsAssumption, NoneAssumption DEF Shaped, Load
<1>4. job' = [job EXCEPT ![w] = j] /\ UNCHANGED late
  BY DEF Load
<1> HIDE DEF j
<1> QED
  BY <1>2, <1>3, <1>4, BeginType DEF Typed, TypeOK, Shape, Load, recipes

\* Only these steps write the table.
LEMMA WriteType ==
  ASSUME Typed, NEW w \in Worker, Insert(w) \/ Save(w) \/ Destroy(w)
  PROVE  extension' \in [Extension -> Row \cup {None, Deleted}]
<1>1. CASE Insert(w)
  <2>1. populate_metadata(None, job[w].name, job[w].file) \in Row
    BY <1>1, SavedType DEF Insert, At
  <2> QED
    BY <1>1, <2>1 DEF Insert, Typed, TypeOK
<1>2. CASE Save(w)
  <2>1. job[w] # None /\ job[w].op = "update"
    BY <1>2 DEF Save, At
  <2>2. job[w] \in Job /\ Shaped(job[w])
    BY <2>1 DEF Typed, TypeOK, Shape
  <2>3. CASE job[w].file = None
    <3>1. job[w].row \in Row
      BY <2>1, <2>2 DEF Job, Shaped
    <3> QED
      BY <1>2, <2>3, <3>1 DEF Save, Typed, TypeOK
  <2>4. CASE job[w].file # None
    <3>1. populate_metadata(job[w].row, job[w].name, job[w].file) \in Row
      BY <2>1, <2>4, SavedType
    <3> QED
      BY <1>2, <2>4, <3>1 DEF Save, Typed, TypeOK
  <2> QED
    BY <2>3, <2>4
<1>3. CASE Destroy(w)
  BY <1>3 DEF Destroy, Typed, TypeOK
<1> QED
  BY <1>1, <1>2, <1>3

LEMMA StepType == Typed /\ [Next]_vars => Typed'
<1> SUFFICES ASSUME Typed, [Next]_vars
             PROVE  Typed'
  OBVIOUS
<1>1. ASSUME NEW w \in Worker, NEW n \in Name, NEW x \in Xpi, Create(w, n, x)
      PROVE  Typed'
  BY <1>1, CreateType
<1>2. ASSUME NEW w \in Worker, NEW op \in {"update", "destroy"}, NEW e \in Extension,
             NEW n \in Name \cup {None}, NEW x \in Xpi \cup {None}, Load(w, op, e, n, x)
      PROVE  Typed'
  BY <1>2, LoadType
<1>3. ASSUME NEW w \in Worker, CheckUnused(w)
      PROVE  Typed'
  <2>1. CASE Leave(w)
    BY <1>3, <2>1, LeaveType DEF CheckUnused, Typed, TypeOK, Shape, recipes
  <2>2. CASE Goto(w, "checked")
    BY <1>3, <2>2, GotoType DEF CheckUnused, At, Typed, TypeOK, Shape, recipes
  <2> QED
    BY <1>3, <2>1, <2>2 DEF CheckUnused
<1>4. ASSUME NEW w \in Worker, FindName(w)
      PROVE  Typed'
  <2>1. job[w] # None /\ job[w].file # None /\ job[w].name \in Name
    BY <1>4 DEF FindName, At, Typed, TypeOK, Shape, Shaped, Job
  <2>2. CASE Leave(w) /\ UNCHANGED crossed
    BY <1>4, <2>2, LeaveType DEF FindName, Typed, TypeOK, Shape, recipes
  <2>3. CASE Goto(w, "free")
    <3>1. crossed' \subseteq Name
      BY <1>4, <2>1 DEF FindName, Typed, TypeOK
    <3> QED
      BY <1>4, <2>1, <2>3, <3>1, GotoType DEF FindName, Typed, TypeOK, Shape, recipes
  <2> QED
    BY <1>4, <2>2, <2>3 DEF FindName
<1>5. ASSUME NEW w \in Worker, Put(w)
      PROVE  Typed'
  <2>1. job[w] # None /\ job[w].file \in Xpi
    BY <1>5 DEF Put, At, Typed, TypeOK, Shape, Shaped, Job
  <2>2. job[w].file # None /\ Goto(w, "put")
    BY <1>5, <2>1, ExtensionsAssumption DEF Put
  <2> QED
    BY <1>5, <2>1, <2>2, GotoType DEF Put, Typed, TypeOK, Shape, recipes
<1>6. ASSUME NEW w \in Worker, Insert(w) \/ Save(w) \/ Destroy(w)
      PROVE  Typed'
  BY <1>6, WriteType, LeaveType DEF Insert, Save, Destroy, Typed, TypeOK, Shape, recipes
<1>7. ASSUME NEW w \in Worker, Die(w)
      PROVE  Typed'
  BY <1>7, LeaveType DEF Die, Typed, TypeOK, Shape, recipes
<1>8. ASSUME NEW r \in Recipe, NEW u \in Use \cup {None}, Revise(r, u) \/ Approve(r, u)
      PROVE  Typed'
  BY <1>8 DEF Revise, Approve, Taken, Typed, TypeOK, Shape, Shaped, Accepted
<1>9. CASE UNCHANGED vars
  BY <1>9 DEF vars, Typed, TypeOK, Shape, Shaped, Accepted
<1> QED
  BY <1>1, <1>2, <1>3, <1>4, <1>5, <1>6, <1>7, <1>8, <1>9 DEF Next

----------------------------------------------------------------------------
(* Files.                                                                  *)

\* A request that leaves, or only moves on, reads nothing.
LEMMA QuietFiles ==
  ASSUME Typed, Files, NEW w \in Worker,
         Leave(w) \/ (job[w] # None /\ Goto(w, "checked")),
         UNCHANGED <<extension, stored, crossed>>
  PROVE  Files'
<1>1. /\ \A v \in Worker \ {w} : job'[v] = job[v]
      /\ job'[w] # None => job[w] # None /\ job'[w].row = job[w].row /\ job'[w].pc = "checked"
  <2>1. CASE Leave(w)
    BY <2>1 DEF Leave, Typed, TypeOK
  <2>2. CASE Goto(w, "checked") /\ job[w] # None
    BY <2>2 DEF Goto, Typed, TypeOK, Job
  <2> QED
    BY <2>1, <2>2
<1> QED
  BY <1>1 DEF Files, Tables, Reads, Apart, Describes

\* A new request has read a row of the table, or nothing.
LEMMA BeginFiles ==
  ASSUME Typed, Files, NEW w \in Worker, NEW j, j.pc \notin {"free", "put"},
         j.row # None => Describes(j.row),
         job' = [job EXCEPT ![w] = j],
         UNCHANGED <<extension, stored, crossed>>
  PROVE  Files'
<1>1. /\ \A v \in Worker \ {w} : job'[v] = job[v]
      /\ job'[w] = j
  BY DEF Typed, TypeOK
<1> QED
  BY <1>1 DEF Files, Tables, Reads, Apart, Describes

LEMMA FindFiles ==
  ASSUME Typed, Files, NEW w \in Worker, FindName(w)
  PROVE  Files'
<1>1. CASE Leave(w) /\ UNCHANGED crossed
  BY <1>1, QuietFiles DEF FindName
<1>2. CASE Goto(w, "free") /\ stored[job[w].name] = None
  <2>1. /\ job[w] # None
        /\ job[w] \in Job
        /\ Shaped(job[w])
    BY DEF FindName, At, Typed, TypeOK, Shape
  <2>2. /\ \A v \in Worker \ {w} : job'[v] = job[v]
        /\ job'[w].name = job[w].name
        /\ job'[w].row = job[w].row
        /\ job'[w].pc = "free"
    BY <1>2, <2>1 DEF Goto, Typed, TypeOK, Job
  <2>3. /\ crossed \subseteq crossed'
        /\ \A v \in Worker \ {w} :
             job[v] # None /\ job[v].pc = "free" /\ job[v].name = job[w].name
               => job[w].name \in crossed'
    <3> SUFFICES ASSUME NEW v \in Worker \ {w},
                        job[v] # None, job[v].pc = "free", job[v].name = job[w].name
                 PROVE  job[w].name \in crossed'
      BY <1>2, <2>1, ExtensionsAssumption DEF FindName, Goto, Leave
    <3>1. job[v].op \in {"create", "update"}
      BY DEF Typed, TypeOK, Shape, Shaped, Job
    <3>2. crossed' = crossed \cup
               {n \in {job[w].name} : \E y \in Worker \ {w} :
                  At(y, {"create", "update"}, "free") /\ job[y].name = n}
      BY <1>2 DEF FindName
    <3> QED
      BY <3>1, <3>2 DEF At
  <2>4. UNCHANGED <<extension, stored>>
    BY DEF FindName
  <2>5. \A row : Describes(row) => Describes(row)'
    BY <2>3, <2>4 DEF Describes
  <2>6. Tables'
    BY <2>4, <2>5 DEF Files, Tables, Describes
  <2>7. Reads'
    BY <1>2, <2>1, <2>2, <2>3, <2>4, <2>5 DEF Files, Reads, Describes
  <2>8. Apart'
    BY <2>2, <2>3 DEF Files, Apart
  <2> QED
    BY <2>6, <2>7, <2>8 DEF Files
<1> QED
  BY <1>1, <1>2 DEF FindName

\* The name was free, or is crossed: nobody knows of a file there.
LEMMA PutFiles ==
  ASSUME Typed, Files, NEW w \in Worker, Put(w)
  PROVE  Files'
<1> DEFINE n == job[w].name
<1>1. /\ job[w] # None
      /\ job[w] \in Job
      /\ job[w].pc = "free"
      /\ job[w].file # None
      /\ n \in Name
  BY DEF Put, At, Typed, TypeOK, Shape, Shaped, Job
<1>2. /\ \A v \in Worker \ {w} : job'[v] = job[v]
      /\ job'[w].name = n
      /\ job'[w].row = job[w].row
      /\ job'[w].file = job[w].file
      /\ job'[w].pc = "put"
  BY <1>1 DEF Put, Goto, Typed, TypeOK, Job
<1>3. /\ \A m \in Name \ {n} : stored'[m] = stored[m]
      /\ stored'[n] = job[w].file
      /\ UNCHANGED <<extension, crossed>>
  BY <1>1 DEF Put, Typed, TypeOK
<1>4. n \notin crossed => stored[n] = None
  BY <1>1 DEF Files, Reads
<1>5. ASSUME NEW row \in Row, Describes(row)
      PROVE  Describes(row)'
  BY <1>3, <1>4, <1>5 DEF Describes, Row
<1>6. Tables'
  BY <1>3, <1>5 DEF Files, Tables, Typed, TypeOK
<1>7. ASSUME NEW v \in Worker, job'[v] # None
      PROVE  /\ (job[v].row # None => Describes(job[v].row))'
             /\ job'[v].name \notin crossed' =>
                  /\ job'[v].pc = "free" => stored'[job'[v].name] = None
                  /\ job'[v].pc = "put"  => stored'[job'[v].name] = job'[v].file
  <2>1. CASE v = w
    <3>1. job[w].row # None => job[w].row \in Row /\ Describes(job[w].row)
      BY <1>1 DEF Files, Reads, Job
    <3> QED
      BY <1>2, <1>3, <1>5, <2>1, <3>1
  <2>2. CASE v # w
    <3>1. job'[v] = job[v] /\ job[v] # None /\ job[v] \in Job /\ Shaped(job[v])
      BY <1>2, <1>7, <2>2 DEF Typed, TypeOK, Shape
    <3>2. job[v].row # None => job[v].row \in Row /\ Describes(job[v].row)
      BY <3>1 DEF Files, Reads, Job
    <3>3. job[v].name = n /\ n \notin crossed => job[v].pc \notin {"free", "put"}
      BY <1>1, <1>4, <2>2, <3>1 DEF Files, Reads, Apart, Shaped
    <3>4. job[v].pc \in {"free", "put"} => job[v].name \in Name
      BY <3>1 DEF Shaped, Job
    <3> QED
      BY <1>3, <1>5, <3>1, <3>2, <3>3, <3>4 DEF Files, Reads
  <2> QED
    BY <2>1, <2>2
<1>8. Reads'
  BY <1>7 DEF Reads
<1>9. Apart'
  BY <1>2, <1>3 DEF Files, Apart
<1> QED
  BY <1>6, <1>8, <1>9 DEF Files

\* What is stored in the table describes a file that is there.
LEMMA WriteFiles ==
  ASSUME Typed, Files, NEW w \in Worker, Insert(w) \/ Save(w) \/ Destroy(w)
  PROVE  Files'
<1>1. /\ Leave(w)
      /\ UNCHANGED <<stored, crossed>>
      /\ job[w] # None
      /\ job[w] \in Job
      /\ Shaped(job[w])
  BY DEF Insert, Save, Destroy, At, Typed, TypeOK, Shape
<1>2. ASSUME NEW row, job[w].pc = "put"
      PROVE  Describes(populate_metadata(row, job[w].name, job[w].file))
  BY <1>1, <1>2, MetadataFields, ExtensionsAssumption DEF Files, Reads, Describes, Shaped
<1>3. ASSUME NEW e \in Extension, extension'[e] \notin {None, Deleted}
      PROVE  Describes(extension'[e])
  <2>1. CASE extension'[e] = extension[e]
    BY <1>3, <2>1 DEF Files, Tables
  <2>2. CASE Insert(w) /\ extension'[e] # extension[e]
    BY <1>2, <2>2 DEF Insert, At, Typed, TypeOK
  <2>3. CASE Save(w) /\ extension'[e] # extension[e]
    <3>1. CASE job[w].file = None
      <4>1. extension'[e] = job[w].row
        BY <2>3, <3>1 DEF Save, Typed, TypeOK
      <4>2. job[w].row # None
        BY <1>1, <2>3, <3>1 DEF Save, At, Shaped
      <4> QED
        BY <1>1, <4>1, <4>2 DEF Files, Reads
    <3>2. CASE job[w].file # None
      <4>1. extension'[e] = populate_metadata(job[w].row, job[w].name, job[w].file)
        BY <2>3, <3>2 DEF Save, Typed, TypeOK
      <4>2. job[w].pc = "put"
        BY <2>3, <3>2 DEF Save, At
      <4> QED
        BY <1>2, <4>1, <4>2
    <3> QED
      BY <3>1, <3>2
  <2>4. CASE Destroy(w) /\ extension'[e] # extension[e]
    BY <1>3, <2>4 DEF Destroy, Typed, TypeOK
  <2> QED
    BY <2>1, <2>2, <2>3, <2>4
<1>4. \A row : Describes(row) => Describes(row)'
  BY <1>1 DEF Describes
<1>5. Tables'
  BY <1>1, <1>3 DEF Tables, Describes
<1>6. \A v \in Worker : job'[v] # None => job'[v] = job[v]
  BY <1>1 DEF Leave, Typed, TypeOK
<1>7. Reads' /\ Apart'
  BY <1>1, <1>4, <1>6 DEF Files, Reads, Apart, Describes
<1> QED
  BY <1>5, <1>7 DEF Files

LEMMA StepFiles == Typed /\ Files /\ [Next]_vars => Files'
<1> SUFFICES ASSUME Typed, Files, [Next]_vars
             PROVE  Files'
  OBVIOUS
<1>1. ASSUME NEW w \in Worker, NEW n \in Name, NEW x \in Xpi, Create(w, n, x)
      PROVE  Files'
  <2> DEFINE j == [op |-> "create", pc |-> "checked", extension |-> None, row |-> None,
                   name |-> n, file |-> x]
  <2>1. j.pc \notin {"free", "put"} /\ j.row = None
    OBVIOUS
  <2>2. job' = [job EXCEPT ![w] = j] /\ UNCHANGED <<extension, stored, crossed>>
    BY <1>1 DEF Create
  <2> HIDE DEF j
  <2> QED
    BY <2>1, <2>2, BeginFiles
<1>2. ASSUME NEW w \in Worker, NEW op \in {"update", "destroy"}, NEW e \in Extension,
             NEW n \in Name \cup {None}, NEW x \in Xpi \cup {None}, Load(w, op, e, n, x)
      PROVE  Files'
  <2> DEFINE j == [op |-> op, pc |-> "loaded", extension |-> e,
                   row |-> IF op = "update" THEN extension[e] ELSE None,
                   name |-> n, file |-> x]
  <2>1. j.pc \notin {"free", "put"} /\ (j.row # None => j.row = extension[e])
    OBVIOUS
  <2>2. job' = [job EXCEPT ![w] = j] /\ UNCHANGED <<extension, stored, crossed>>
    BY <1>2 DEF Load
  <2>3. Describes(extension[e])
    BY <1>2 DEF Load, Files, Tables
  <2> HIDE DEF j
  <2> QED
    BY <2>1, <2>2, <2>3, BeginFiles
<1>3. ASSUME NEW w \in Worker, CheckUnused(w) \/ Die(w)
      PROVE  Files'
  BY <1>3, QuietFiles DEF CheckUnused, At, Die
<1>4. ASSUME NEW w \in Worker, FindName(w)
      PROVE  Files'
  BY <1>4, FindFiles
<1>5. ASSUME NEW w \in Worker, Put(w)
      PROVE  Files'
  BY <1>5, PutFiles
<1>6. ASSUME NEW w \in Worker, Insert(w) \/ Save(w) \/ Destroy(w)
      PROVE  Files'
  BY <1>6, WriteFiles
<1>7. ASSUME NEW r \in Recipe, NEW u \in Use \cup {None}, Revise(r, u) \/ Approve(r, u)
      PROVE  Files'
  BY <1>7 DEF Revise, Approve, Files, Tables, Reads, Apart, Describes
<1>8. CASE UNCHANGED vars
  BY <1>8 DEF vars, Files, Tables, Reads, Apart, Describes
<1> QED
  BY <1>1, <1>2, <1>3, <1>4, <1>5, <1>6, <1>7, <1>8 DEF Next

----------------------------------------------------------------------------
(* Use.                                                                    *)

\* Only a request that has looked, and once, goes on with its extension.
LEMMA StepLooked == Typed /\ Looked /\ [Next]_vars => Looked'
<1> SUFFICES ASSUME Typed, Looked, [Next]_vars
             PROVE  Looked'
  OBVIOUS
<1>1. ASSUME UNCHANGED recipes, NEW w \in Worker, UNCHANGED late \/ late' = late \ {w},
             \A v \in Worker \ {w} : job'[v] = job[v],
             job'[w] # None => \/ job'[w].op = "create"
                               \/ job'[w].pc = "loaded"
                               \/ /\ late' = late
                                  /\ job[w] # None
                                  /\ job'[w].op = job[w].op
                                  /\ job'[w].extension = job[w].extension
                                  /\ job[w].pc # "loaded" \/ ~InUse(job[w].extension)
      PROVE  Looked'
  <2>1. \A e : InUse(e)' <=> InUse(e)
    BY <1>1 DEF InUse, recipes
  <2>2. ASSUME NEW v \in Worker, job'[v] # None, job'[v].op # "create",
               job'[v].pc # "loaded", v \notin late'
        PROVE  ~InUse(job'[v].extension)
    <3>1. CASE v = w
      BY <1>1, <2>2, <3>1 DEF Looked
    <3>2. CASE v # w
      BY <1>1, <2>2, <3>2 DEF Looked
    <3> QED
      BY <3>1, <3>2
  <2> QED
    BY <1>1, <2>1, <2>2 DEF Looked, InUse, recipes
<1>2. ASSUME NEW w \in Worker, NEW n \in Name, NEW x \in Xpi, Create(w, n, x)
      PROVE  Looked'
  <2>1. /\ \A v \in Worker \ {w} : job'[v] = job[v]
        /\ job'[w].op = "create"
        /\ UNCHANGED <<recipes, late>>
    BY <1>2 DEF Create, Typed, TypeOK
  <2> QED
    BY <1>1, <2>1
<1>3. ASSUME NEW w \in Worker, NEW op \in {"update", "destroy"}, NEW e \in Extension,
             NEW n \in Name \cup {None}, NEW x \in Xpi \cup {None}, Load(w, op, e, n, x)
      PROVE  Looked'
  <2>1. /\ \A v \in Worker \ {w} : job'[v] = job[v]
        /\ job'[w].pc = "loaded"
        /\ UNCHANGED <<recipes, late>>
    BY <1>3 DEF Load, Typed, TypeOK
  <2> QED
    BY <1>1, <2>1
<1>4. ASSUME NEW w \in Worker, Leave(w), UNCHANGED recipes
      PROVE  Looked'
  <2>1. /\ \A v \in Worker \ {w} : job'[v] = job[v]
        /\ job'[w] = None
        /\ late' = late \ {w}
    BY <1>4 DEF Leave, Typed, TypeOK
  <2> QED
    BY <1>1, <1>4, <2>1
<1>5. ASSUME NEW w \in Worker, NEW pc, job[w] # None, Goto(w, pc), UNCHANGED recipes,
             job[w].pc # "loaded" \/ ~InUse(job[w].extension)
      PROVE  Looked'
  <2>1. /\ \A v \in Worker \ {w} : job'[v] = job[v]
        /\ job'[w].op = job[w].op
        /\ job'[w].extension = job[w].extension
        /\ late' = late
    BY <1>5 DEF Goto, Typed, TypeOK, Job
  <2> QED
    BY <1>1, <1>5, <2>1
<1>6. ASSUME NEW w \in Worker, CheckUnused(w)
      PROVE  Looked'
  BY <1>4, <1>5, <1>6 DEF CheckUnused, At
<1>7. ASSUME NEW w \in Worker, FindName(w) \/ Put(w)
      PROVE  Looked'
  BY <1>4, <1>5, <1>7 DEF FindName, Put, At
<1>8. ASSUME NEW w \in Worker, Insert(w) \/ Save(w) \/ Destroy(w) \/ Die(w)
      PROVE  Looked'
  BY <1>4, <1>8 DEF Insert, Save, Destroy, Die
<1>9. ASSUME NEW r \in Recipe, NEW u \in Use \cup {None}, Revise(r, u) \/ Approve(r, u)
      PROVE  Looked'
  <2>1. /\ job' = job
        /\ late' = late \cup {w \in Worker : /\ job[w] # None
                                             /\ job[w].pc # "loaded"
                                             /\ Names(u, job[w].extension)}
    BY <1>9 DEF Revise, Approve, Taken
  <2>2. \A e : InUse(e)' => InUse(e) \/ Names(u, e)
    BY <1>9 DEF Revise, Approve, InUse, Typed, TypeOK
  <2> QED
    BY <2>1, <2>2 DEF Looked
<1>10. CASE UNCHANGED vars
  BY <1>10 DEF vars, Looked, InUse
<1> QED
  BY <1>2, <1>3, <1>6, <1>7, <1>8, <1>9, <1>10 DEF Next

\* A row that is there is changed by one request, that has looked.
LEMMA Touches ==
  ASSUME Typed, Next, NEW e \in Extension,
         extension[e] \notin {None, Deleted}, extension'[e] # extension[e]
  PROVE  \E w \in Worker : /\ job[w] # None
                           /\ job[w].op # "create"
                           /\ job[w].pc # "loaded"
                           /\ job[w].extension = e
                           /\ job'[w] = None
<1>1. PICK w \in Worker : Insert(w) \/ Save(w) \/ Destroy(w)
  BY DEF Next, Create, Load, CheckUnused, FindName, Put, Die, Revise, Approve
<1>2. Leave(w) /\ job'[w] = None
  BY <1>1 DEF Insert, Save, Destroy, Leave, Typed, TypeOK
<1>3. ~Insert(w)
  BY DEF Insert, Typed, TypeOK
<1>4. /\ job[w] # None
      /\ job[w].op # "create"
      /\ job[w].pc # "loaded"
  BY <1>1, <1>3 DEF Save, Destroy, At
<1>5. job[w].extension = e
  BY <1>1, <1>3 DEF Save, Destroy, Typed, TypeOK
<1> QED
  BY <1>2, <1>4, <1>5

----------------------------------------------------------------------------
LEMMA Invariant == Spec => [](Typed /\ Files /\ Looked)
<1>1. Typed /\ Files /\ Looked /\ [Next]_vars => (Typed /\ Files /\ Looked)'
  BY StepType, StepFiles, StepLooked
<1> QED
  BY InitInv, <1>1, PTL DEF Spec

\* Tables, storage and requests keep their types.
THEOREM TypeCorrect == Spec => []TypeOK
<1>1. Typed => TypeOK
  BY DEF Typed
<1> QED
  BY Invariant, <1>1, PTL

\* An extension's row has the hash, id and version of the file under its name and
\* marks a legacy add-on as one, where no two requests found that name free at once
\* (Extension.save, populate_metadata).
THEOREM RowsDescribeFiles == Spec => []DescribesFile
<1>1. Files => DescribesFile
  BY DEF Files, Tables, Describes, DescribesFile
<1> QED
  BY Invariant, <1>1, PTL

\* An extension in use is not touched by a request that looked since.
THEOREM UsedExtensionsKept == Spec => UsedKept
<1>1. Typed /\ Looked /\ [Next]_vars =>
        [\A e \in Extension :
           /\ extension[e] \notin {None, Deleted}
           /\ extension'[e] # extension[e]
           /\ \E r \in Recipe : \E u \in {latest[r], approved[r]} : Names(u, e)
           => \E w \in late : job[w].extension = e /\ job'[w] = None]_vars
  <2> SUFFICES ASSUME Typed, Looked, Next, NEW e \in Extension,
                      extension[e] \notin {None, Deleted}, extension'[e] # extension[e],
                      \E r \in Recipe : \E u \in {latest[r], approved[r]} : Names(u, e)
               PROVE  \E w \in late : job[w].extension = e /\ job'[w] = None
    BY DEF vars
  <2>1. InUse(e)
    BY DEF InUse
  <2> QED
    BY <2>1, Touches DEF Looked
<1> QED
  BY Invariant, <1>1, PTL DEF Spec, UsedKept
=============================================================================
