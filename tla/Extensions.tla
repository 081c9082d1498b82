----------------------------- MODULE Extensions -----------------------------
(***************************************************************************)
(* The add-ons of opt-out studies: the table of extensions, the storage    *)
(* that holds their files, and the API requests that change both.          *)
(*                                                                         *)
(* A request works in steps, in no transaction: it reads the row, looks    *)
(* for recipes that use it, asks the storage whether the name is free, puts *)
(* the file, and only then writes the row.  Other requests, changes of     *)
(* recipes and the end of its worker fall between any two of them.         *)
(* Of a recipe there is only what the arguments of its latest and of its   *)
(* approved revision say of an extension.                                  *)
(***************************************************************************)
EXTENDS FiniteSets

CONSTANTS
  Extension,  \* ids, never used twice
  Name,       \* names of files in the storage
  Xpi,        \* contents of files
  AddonId,    \* ids and versions that a manifest may name
  Version,
  Use,        \* what the arguments of a recipe say of an extension
  Recipe,
  Worker,
  None,
  Deleted

\* An xpi by its manifest, what it names, and whether it is signed.  A schema
\* is free to take other arguments than it asks for: recipes may name an
\* extension as either.
ASSUME ExtensionsAssumption ==
  /\ Xpi \subseteq [manifest: {"manifest.json", "install.rdf", "neither"},
                    id: AddonId \cup {None}, version: Version \cup {None},
                    signed: BOOLEAN]
  /\ Use \subseteq [argument: {"extensionId", "extensionApiId"}, extension: Extension]
  /\ None \notin AddonId /\ None \notin Version /\ None \notin Name
  /\ None \notin Extension /\ None \notin Use /\ None \notin Xpi

----------------------------------------------------------------------------
\* Equal hashes are equal files.
sha256(x) == <<"sha256", x>>

Row == [xpi: Name, is_legacy: BOOLEAN, extension_id: AddonId, version: Version,
        hash: {sha256(x) : x \in Xpi}]

\* A request under way: the row it will save, and the file it brings, if any.
Job == [op: {"create", "update", "destroy"},
        pc: {"loaded", "checked", "free", "put"},
        extension: Extension \cup {None}, row: Row \cup {None},
        name: Name \cup {None}, file: Xpi \cup {None}]

ASSUME NoneAssumption ==
  None \notin Row /\ Deleted \notin Row /\ None # Deleted /\ None \notin Job

VARIABLES
  extension,  \* the table
  stored,     \* the storage
  latest,     \* the use in each recipe's latest revision
  approved,   \* and in its approved one
  job,
  crossed,    \* history: names that two requests found free at once
  late        \* history: requests whose extension came to be used after they
              \* had looked

vars == <<extension, stored, latest, approved, job, crossed, late>>
recipes == <<latest, approved>>

Init ==
  /\ extension = [e \in Extension |-> None]
  /\ stored = [n \in Name |-> None]
  /\ latest = [r \in Recipe |-> None]
  /\ approved = [r \in Recipe |-> None]
  /\ job = [w \in Worker |-> None]
  /\ crossed = {}
  /\ late = {}

----------------------------------------------------------------------------
(* What a request asks.                                                    *)

\* slip: a legacy add-on may lack a version.
AcceptedUnversioned(x) ==
  /\ x.manifest # "neither"
  /\ x.id # None
  /\ x.manifest = "manifest.json" => x.version # None
  /\ x.signed

\* populate_metadata raises no error.
Accepted(x) ==
  /\ x.manifest # "neither"
  /\ x.id # None
  /\ x.version # None
  /\ x.signed

\* A new xpi describes its row, but nothing takes is_legacy back.
populate_metadata(row, name, x) ==
  [xpi |-> name,
   is_legacy |-> \/ x.manifest = "install.rdf"
                 \/ row # None /\ row.is_legacy,
   extension_id |-> x.id,
   version |-> x.version,
   hash |-> sha256(x)]

Names(u, e) == u # None /\ u.argument = "extensionId" /\ u.extension = e

\* slip: only latest revisions are looked at.
InUseLatest(e) == \E r \in Recipe : Names(latest[r], e)

InUse(e) == \E r \in Recipe : Names(latest[r], e) \/ Names(approved[r], e)

At(w, ops, pc) == job[w] # None /\ job[w].op \in ops /\ job[w].pc = pc

Goto(w, pc) == job' = [job EXCEPT ![w].pc = pc] /\ UNCHANGED late
Leave(w)    == job' = [job EXCEPT ![w] = None] /\ late' = late \ {w}

----------------------------------------------------------------------------
(* Requests.                                                               *)

\* POST of an xpi that is_valid accepts.
Create(w, n, x) ==
  /\ job[w] = None
  /\ Accepted(x)
  /\ job' = [job EXCEPT ![w] =
       [op |-> "create", pc |-> "checked", extension |-> None, row |-> None,
        name |-> n, file |-> x]]
  /\ UNCHANGED <<extension, stored, recipes, crossed, late>>

\* PATCH, with a new xpi or of the name alone, and DELETE.
Load(w, op, e, n, x) ==
  /\ job[w] = None
  /\ extension[e] \notin {None, Deleted}
  /\ n = None <=> x = None
  /\ x # None => op = "update" /\ Accepted(x)
  /\ job' = [job EXCEPT ![w] =
       [op |-> op, pc |-> "loaded", extension |-> e,
        row |-> IF op = "update" THEN extension[e] ELSE None,
        name |-> n, file |-> x]]
  /\ UNCHANGED <<extension, stored, recipes, crossed, late>>

\* "Extension cannot be updated while in use by a recipe."
CheckUnused(w) ==
  /\ At(w, {"update", "destroy"}, "loaded")
  /\ IF InUse(job[w].extension) THEN Leave(w) ELSE Goto(w, "checked")
  /\ UNCHANGED <<extension, stored, recipes, crossed>>

\* slip: the storage is not asked.
FindNameTaken(w) ==
  /\ At(w, {"create", "update"}, "checked")
  /\ job[w].file # None
  /\ Goto(w, "free")
  /\ UNCHANGED <<extension, stored, recipes, crossed>>

\* get_available_name, or FileExistsError.
FindName(w) ==
  /\ At(w, {"create", "update"}, "checked")
  /\ job[w].file # None
  /\ IF stored[job[w].name] # None
     THEN Leave(w) /\ UNCHANGED crossed
     ELSE /\ Goto(w, "free")
          /\ crossed' = crossed \cup
               {n \in {job[w].name} : \E v \in Worker \ {w} :
                  At(v, {"create", "update"}, "free") /\ job[v].name = n}
  /\ UNCHANGED <<extension, stored, recipes>>

Put(w) ==
  /\ At(w, {"create", "update"}, "free")
  /\ stored' = [stored EXCEPT ![job[w].name] = job[w].file]
  /\ Goto(w, "put")
  /\ UNCHANGED <<extension, recipes, crossed>>

\* The unique column xpi: the row is refused, its file stays.
Clashes(e, row) ==
  \E d \in Extension \ {e} : extension[d] \notin {None, Deleted} /\ extension[d].xpi = row.xpi

Insert(w) ==
  /\ At(w, {"create"}, "put")
  /\ \E e \in Extension :
       /\ extension[e] = None
       /\ LET row == populate_metadata(None, job[w].name, job[w].file)
          IN  extension' = IF Clashes(e, row) THEN extension
                           ELSE [extension EXCEPT ![e] = row]
  /\ Leave(w)
  /\ UNCHANGED <<stored, recipes, crossed>>

\* save() writes the whole row, and inserts it again if it was deleted.
Save(w) ==
  /\ IF job[w] # None /\ job[w].file = None THEN At(w, {"update"}, "checked")
                                           ELSE At(w, {"update"}, "put")
  /\ LET j   == job[w]
         row == IF j.file = None THEN j.row ELSE populate_metadata(j.row, j.name, j.file)
     IN  extension' = IF Clashes(j.extension, row) THEN extension
                      ELSE [extension EXCEPT ![j.extension] = row]
  /\ Leave(w)
  /\ UNCHANGED <<stored, recipes, crossed>>

\* The row goes and its file stays.
Destroy(w) ==
  /\ At(w, {"destroy"}, "checked")
  /\ extension' = [extension EXCEPT ![job[w].extension] = Deleted]
  /\ Leave(w)
  /\ UNCHANGED <<stored, recipes, crossed>>

\* The storage or the database fails, or the worker is stopped.
Die(w) ==
  /\ job[w] # None
  /\ Leave(w)
  /\ UNCHANGED <<extension, stored, recipes, crossed>>

\* Requests that have looked learn nothing of a use that begins.
Taken(u) ==
  late' = late \cup {w \in Worker : /\ job[w] # None
                                    /\ job[w].pc # "loaded"
                                    /\ Names(u, job[w].extension)}

Revise(r, u) ==
  /\ latest' = [latest EXCEPT ![r] = u]
  /\ Taken(u)
  /\ UNCHANGED <<extension, stored, approved, job, crossed>>

\* Any revision the recipe has had can be approved: its arguments, of
\* whatever time, are used again.
Approve(r, u) ==
  /\ approved' = [approved EXCEPT ![r] = u]
  /\ Taken(u)
  /\ UNCHANGED <<extension, stored, latest, job, crossed>>

Next ==
  \/ \E w \in Worker :
       \/ \E n \in Name, x \in Xpi : Create(w, n, x)
       \/ \E op \in {"update", "destroy"}, e \in Extension,
             n \in Name \cup {None}, x \in Xpi \cup {None} : Load(w, op, e, n, x)
       \/ CheckUnused(w) \/ FindName(w) \/ Put(w)
       \/ Insert(w) \/ Save(w) \/ Destroy(w) \/ Die(w)
  \/ \E r \in Recipe, u \in Use \cup {None} : Revise(r, u) \/ Approve(r, u)

Spec == Init /\ [][Next]_vars

----------------------------------------------------------------------------
TypeOK ==
  /\ extension \in [Extension -> Row \cup {None, Deleted}]
  /\ stored \in [Name -> Xpi \cup {None}]
  /\ latest \in [Recipe -> Use \cup {None}]
  /\ approved \in [Recipe -> Use \cup {None}]
  /\ job \in [Worker -> Job \cup {None}]
  /\ crossed \subseteq Name
  /\ late \subseteq {w \in Worker : job[w] # None}

\* The file clients download under an extension's name has the hash, the id and
\* the version its row says, and a legacy add-on is marked as one, whatever
\* requests were refused, died or crossed, unless two of them brought a file of
\* that name at the same time.  Of a web extension the row may say that it is a
\* legacy add-on, which its file was before: nothing takes the mark back (the
\* storage's get_available_name, Extension.save, populate_metadata).
DescribesFile ==
  \A e \in Extension :
    LET row == extension[e] IN
      row \notin {None, Deleted} /\ row.xpi \notin crossed
        => LET x == stored[row.xpi] IN
             /\ x # None
             /\ row.hash = sha256(x)
             /\ row.extension_id = x.id
             /\ row.version = x.version
             /\ x.manifest = "install.rdf" => row.is_legacy

\* No request changes or deletes the row of an extension that the latest or
\* the approved revision of a recipe names as its extensionId, unless the
\* recipe came to name it after the request had looked (ExtensionViewSet,
\* ExtensionSerializer.update).
UsedKept ==
  [][\A e \in Extension :
       /\ extension[e] \notin {None, Deleted}
       /\ extension'[e] # extension[e]
       /\ \E r \in Recipe : \E u \in {latest[r], approved[r]} : Names(u, e)
       => \E w \in late : job[w].extension = e /\ job'[w] = None]_vars
=============================================================================
