------------------------------ MODULE Uploads ------------------------------
(***************************************************************************)
(* A file of d9 is a row of directus_files and bytes in a storage that     *)
(* knows nothing of the row: uploadOne and deleteMany of services/files.ts *)
(* change the one and then the other, and services/assets.ts keeps, beside *)
(* the bytes of an image, the images it derived from them.  Rows that are  *)
(* created or moved as JSON, with their storage and name given, are left   *)
(* out.                                                                    *)
(***************************************************************************)
EXTENDS Naturals

CONSTANTS Files,      (* primary keys, not used again                           *)
          Locations,  (* of the storage                                         *)
          Exts,       (* file extensions                                        *)
          Reqs,       (* requests; a request that uploads names what it uploads *)
          None,       (* no extension, no contents                              *)
          New, Gone   (* a row that is not yet there, or deleted                *)

VARIABLES row,        (* file -> New, Gone, or its columns                      *)
          stored,     (* name in the storage -> its contents                    *)
          req,        (* request -> its local variables                         *)
          mishaps     (* history: file -> what happened to it                   *)

vars == <<row, stored, req, mishaps>>

(* A name begins with the primary key; derived images have a suffix.        *)
Names == [file : Files, location : Locations, ext : Exts, derived : BOOLEAN]
Name(f, l, e, d) == [file |-> f, location |-> l, ext |-> e, derived |-> d]

(* What a name holds: what a request uploaded, or an image derived from it. *)
Contents == Reqs \cup {"absent", "partial"}

Row(l, e, c) == [location |-> l, ext |-> e, describes |-> c]
Rows == [location : Locations, ext : Exts \cup {None}, describes : Contents \cup {None}]

Steps == {"idle", "remove", "list", "delete", "open", "write", "stat", "describe",
          "original", "derived", "derive", "store", "done"}

Locals == [pc : Steps, kind : {"upload", "delete", "asset"}, file : Files,
           location : Locations, ext : Exts, names : SUBSET Names, contents : Contents]

Mishaps == {"failed", "overlapped", "moved", "recreated", "crossed", "broken"}

TypeOK ==
    /\ row \in [Files -> Rows \cup {New, Gone}]
    /\ stored \in [Names -> Contents]
    /\ req \in [Reqs -> Locals]
    /\ mishaps \in [Files -> SUBSET Mishaps]

Init ==
    /\ row = [f \in Files |-> New]
    /\ stored = [n \in Names |-> "absent"]
    /\ req \in [Reqs -> [pc : {"idle"}, kind : {"upload", "delete", "asset"}, file : Files,
                         location : Locations, ext : Exts, names : {{}}, contents : {"absent"}]]
    /\ mishaps = [f \in Files |-> {}]

Exists(f) == row[f] \notin {New, Gone}
Step(r, pc) == req' = [req EXCEPT ![r].pc = pc]
Target(r) == Name(req[r].file, req[r].location, req[r].ext, FALSE)
Asset(r) == Name(req[r].file, req[r].location, req[r].ext, TRUE)

(* Requests that change the file and are between their first and their last *)
(* statement.                                                               *)
Changing(f) == {r \in Reqs : /\ req[r].file = f
                             /\ req[r].kind # "asset"
                             /\ req[r].pc \notin {"idle", "done"}}

Deriving(f) == {r \in Reqs : /\ req[r].file = f
                             /\ req[r].kind = "asset"
                             /\ req[r].pc \notin {"idle", "done"}}

Mishap(f, s) == mishaps' = [mishaps EXCEPT ![f] = @ \cup s]
When(p, m) == IF p THEN {m} ELSE {}

-----------------------------------------------------------------------------
(* uploadOne                                                                *)

(* createOne: the row names its location, but no bytes yet                  *)
CreateRow(r) ==
    LET f == req[r].file IN
    /\ req[r].pc = "idle" /\ req[r].kind = "upload"
    /\ row[f] = New
    /\ row' = [row EXCEPT ![f] = Row(req[r].location, None, None)]
    /\ Step(r, "open")
    /\ UNCHANGED <<stored, mishaps>>

(* updateOne of an existing file; one that is gone is not noticed (an       *)
(* administrator's access is not checked against the row).                  *)
ReplaceRow(r) ==
    LET f == req[r].file IN
    /\ req[r].pc = "idle" /\ req[r].kind = "upload"
    /\ row[f] # New
    /\ row' = IF Exists(f) THEN [row EXCEPT ![f].location = req[r].location] ELSE row
    /\ Step(r, "list")
    /\ Mishap(f, When(Changing(f) # {}, "overlapped")
                 \cup When(~Exists(f), "recreated")
                 \cup When(Exists(f) /\ row[f].location # req[r].location, "moved"))
    /\ UNCHANGED stored

(* disk.list(primaryKey), in the location the upload goes to                *)
List(r) ==
    /\ req[r].pc = "list"
    /\ req' = [req EXCEPT ![r].pc = "delete",
                          ![r].names = {n \in Names : /\ n.file = req[r].file
                                                      /\ n.location = req[r].location
                                                      /\ stored[n] # "absent"}]
    /\ UNCHANGED <<row, stored, mishaps>>

DeleteListed(r) ==
    /\ req[r].pc = "delete"
    /\ \E n \in req[r].names :
        /\ stored' = [stored EXCEPT ![n] = "absent"]
        /\ req' = [req EXCEPT ![r].names = @ \ {n}]
    /\ UNCHANGED <<row, mishaps>>

AllDeleted(r) ==
    /\ req[r].pc = "delete"
    /\ req[r].names = {}
    /\ Step(r, IF req[r].kind = "upload" THEN "open" ELSE "done")
    /\ UNCHANGED <<row, stored, mishaps>>

(* The write opens the name and fills it ...                                *)
OpenWrite(r) ==
    /\ req[r].pc = "open"
    /\ stored' = [stored EXCEPT ![Target(r)] = "partial"]
    /\ Step(r, "write")
    /\ UNCHANGED <<row, mishaps>>

(* ... what becomes of it when the name was deleted meanwhile depends on    *)
(* the driver.                                                              *)
FinishWrite(r) ==
    /\ req[r].pc = "write"
    /\ \/ stored' = [stored EXCEPT ![Target(r)] = r]
       \/ stored[Target(r)] = "absent" /\ UNCHANGED stored
    /\ Step(r, "stat")
    /\ UNCHANGED <<row, mishaps>>

(* Mutation: the row is described before the bytes are there. *)
StatEarly(r) ==
    /\ req[r].pc = "write"
    /\ req' = [req EXCEPT ![r].pc = "describe", ![r].contents = stored[Target(r)]]
    /\ UNCHANGED <<row, stored, mishaps>>

(* stat, and the metadata of an image                                       *)
Stat(r) ==
    /\ req[r].pc = "stat"
    /\ stored[Target(r)] # "absent"
    /\ req' = [req EXCEPT ![r].pc = "describe", ![r].contents = stored[Target(r)]]
    /\ UNCHANGED <<row, stored, mishaps>>

(* sudoService.updateOne                                                    *)
Describe(r) ==
    LET f == req[r].file IN
    /\ req[r].pc = "describe"
    /\ row' = IF Exists(f)
              THEN [row EXCEPT ![f] = Row(req[r].location, req[r].ext, req[r].contents)]
              ELSE row
    /\ Step(r, "done")
    /\ UNCHANGED <<stored, mishaps>>

-----------------------------------------------------------------------------
(* deleteMany                                                               *)

(* The location is read; a file that is gone has none to delete from.       *)
FindRow(r) ==
    LET f == req[r].file IN
    /\ req[r].pc = "idle" /\ req[r].kind = "delete"
    /\ Exists(f)
    /\ req' = [req EXCEPT ![r].pc = "remove", ![r].location = row[f].location]
    /\ Mishap(f, When(Changing(f) # {}, "overlapped"))
    /\ UNCHANGED <<row, stored>>

(* Mutation: the bytes of the row are kept. *)
RemoveRowOnly(r) ==
    /\ req[r].pc = "remove"
    /\ row' = [row EXCEPT ![req[r].file] = Gone]
    /\ Step(r, "done")
    /\ UNCHANGED <<stored, mishaps>>

RemoveRow(r) ==
    /\ req[r].pc = "remove"
    /\ row' = [row EXCEPT ![req[r].file] = Gone]
    /\ Step(r, "list")
    /\ UNCHANGED <<stored, mishaps>>

-----------------------------------------------------------------------------
(* resolveAsset, with a transformation                                      *)

ReadRow(r) ==
    LET f == req[r].file IN
    /\ req[r].pc = "idle" /\ req[r].kind = "asset"
    /\ Exists(f) /\ row[f].ext # None
    /\ req' = [req EXCEPT ![r].pc = "original", ![r].location = row[f].location,
                          ![r].ext = row[f].ext]
    /\ UNCHANGED <<row, stored, mishaps>>

OriginalExists(r) ==
    /\ req[r].pc = "original"
    /\ stored[Target(r)] # "absent"
    /\ Step(r, "derived")
    /\ UNCHANGED <<row, stored, mishaps>>

(* A derived image that exists is served as it is.                          *)
DerivedExists(r) ==
    /\ req[r].pc = "derived"
    /\ Step(r, IF stored[Asset(r)] = "absent" THEN "derive" ELSE "done")
    /\ UNCHANGED <<row, stored, mishaps>>

(* The bytes are read and the derived image is opened; of bytes that are    *)
(* gone, or not all there, nothing can be derived.                          *)
Derive(r) ==
    LET f == req[r].file
        whole == stored[Target(r)] \in Reqs
    IN
    /\ req[r].pc = "derive"
    /\ stored' = [stored EXCEPT ![Asset(r)] = "partial"]
    /\ req' = [req EXCEPT ![r].pc = IF whole THEN "store" ELSE "done",
                          ![r].contents = stored[Target(r)]]
    /\ Mishap(f, When(Changing(f) # {}, "crossed") \cup When(~whole, "broken"))
    /\ UNCHANGED row

Store(r) ==
    LET f == req[r].file IN
    /\ req[r].pc = "store"
    /\ \/ stored' = [stored EXCEPT ![Asset(r)] = req[r].contents]
       \/ stored[Asset(r)] = "absent" /\ UNCHANGED stored
    /\ Step(r, "done")
    /\ Mishap(f, When(Changing(f) # {} \/ stored[Target(r)] # req[r].contents, "crossed"))
    /\ UNCHANGED row

-----------------------------------------------------------------------------

(* A statement or a call of the storage fails, or the process ends; nothing *)
(* is undone, and what was being written stays as far as it was written.    *)
Fail(r) ==
    /\ req[r].pc \notin {"idle", "done"}
    /\ Step(r, "done")
    /\ Mishap(req[r].file,
              When(req[r].kind # "asset" /\ req[r].pc # "remove", "failed")
              \cup When(req[r].pc = "store", "broken"))
    /\ UNCHANGED <<row, stored>>

Next ==
    \E r \in Reqs :
        \/ CreateRow(r) \/ ReplaceRow(r) \/ List(r) \/ DeleteListed(r) \/ AllDeleted(r)
        \/ OpenWrite(r) \/ FinishWrite(r) \/ Stat(r) \/ Describe(r)
        \/ FindRow(r) \/ RemoveRow(r)
        \/ ReadRow(r) \/ OriginalExists(r) \/ DerivedExists(r) \/ Derive(r) \/ Store(r)
        \/ Fail(r)

Spec == Init /\ [][Next]_vars

-----------------------------------------------------------------------------

(* A row at rest has its bytes, all of them, and describes these: unless a  *)
(* change of the file failed half-way or two changes overlapped.  That the  *)
(* file was moved, or that images were derived meanwhile, is no excuse.     *)
BytesDescribed ==
    \A f \in Files :
        (Exists(f) /\ Changing(f) = {} /\ mishaps[f] \cap {"failed", "overlapped"} = {})
            => /\ row[f].ext # None
               /\ row[f].describes \in Reqs
               /\ stored[Name(f, row[f].location, row[f].ext, FALSE)] = row[f].describes

(* The storage holds nothing but the bytes of the row and images derived    *)
(* from them: unless a change failed or overlapped another, moved the file  *)
(* to another location, uploaded to a file that was gone, or crossed the    *)
(* writing of a derived image, or that writing broke off.                   *)
NothingLeftBehind ==
    \A n \in Names :
        (Changing(n.file) \cup Deriving(n.file) = {} /\ mishaps[n.file] = {}
            /\ stored[n] # "absent")
        => /\ Exists(n.file)
           /\ row[n.file].location = n.location
           /\ row[n.file].ext = n.ext
           /\ row[n.file].describes = stored[n]
=============================================================================
