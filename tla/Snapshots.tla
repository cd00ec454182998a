------------------------------ MODULE Snapshots ------------------------------
(***************************************************************************)
(* A schema snapshot is compared with the schema of an instance            *)
(* (utils/get-snapshot-diff.ts) and what differs is applied                *)
(* (utils/apply-diff.ts): through the API, which sends the difference with *)
(* a hash of the schema it was made from (services/schema.ts), or on the   *)
(* command line (cli/commands/schema/apply.ts), while requests of other    *)
(* users change the schema.  The services that do both are                 *)
(* services/collections.ts, fields.ts and relations.ts.                    *)
(***************************************************************************)
EXTENDS Functions, Naturals

CONSTANTS Nests,       (* bound: child -> the groups it may be in (no cycles)  *)
          Columns,     (* bound: the collections that may have a column        *)
          Lists,       (* bound: the collections that may have an alias        *)
          MaxChanges,  (* bound: how often others change the schema            *)
          Ungrouped    (* no group                                             *)

VARIABLES db,          (* the schema                                           *)
          after,       (* the snapshot that is to be applied                   *)
          base,        (* the snapshot the difference was made from            *)
          known,       (* the schema as applyDiff read it                      *)
          phase,       (* of the apply                                         *)
          changes,     (* how often others have changed the schema             *)
          unseen       (* history: they did after the last check               *)

vars == <<db, after, base, known, phase, changes, unseen>>

Collections == DOMAIN Nests

(* A field is the column of a collection or its alias, a list of the rows   *)
(* that refer to it.                                                        *)
Column(c) == <<c, "column">>
Alias(c) == <<c, "alias">>
Of(f) == f[1]
Fields == {Column(c) : c \in Columns} \cup {Alias(c) : c \in Lists}

(* What a column refers to: in the foreign key (to), in directus_relations  *)
(* (one), and whether the alias of the other side shows it (one_field).     *)
Relation(c, listed) == [to |-> c, one |-> c, listed |-> listed]

(* A schema: collection -> its group, the fields, column -> its relation.   *)
Schema(g, fs, rs) == [group |-> g, fields |-> fs, relation |-> rs]

(* g, and h where g has no value; a function of one value.                  *)
Over(g, h) == [x \in DOMAIN g \cup DOMAIN h |-> IF x \in DOMAIN g THEN g[x] ELSE h[x]]
Only(x, v) == [y \in {x} |-> v]

Sound(s) ==
    /\ \A c \in DOMAIN s.group : s.group[c] \in DOMAIN s.group \cup {Ungrouped}
    /\ \A f \in s.fields : Of(f) \in DOMAIN s.group
    /\ DOMAIN s.relation \subseteq s.fields
    /\ \A f \in DOMAIN s.relation : s.relation[f].to \in DOMAIN s.group

(* What the app leaves: an alias shows one column.                          *)
Tidy(s) ==
    /\ Sound(s)
    /\ \A f \in DOMAIN s.relation :
        LET r == s.relation[f] IN
        r.listed => /\ Alias(r.one) \in s.fields
                    /\ \A h \in DOMAIN s.relation \ {f} :
                        s.relation[h].listed => s.relation[h].one # r.one

Groupings(cs) ==
    {g \in [cs -> cs \cup {Ungrouped}] : \A c \in cs : g[c] \in Nests[c] \cup {Ungrouped}}
Links(cs, fs) == UNION {[k -> {Relation(c, b) : c \in cs, b \in BOOLEAN}] :
                            k \in SUBSET (fs \cap {Column(c) : c \in cs})}

Schemas ==
    {s \in UNION {UNION {{Schema(g, fs, rs) : g \in Groupings(cs), rs \in Links(cs, fs)} :
                            fs \in SUBSET {f \in Fields : Of(f) \in cs}} :
                    cs \in SUBSET Collections} :
        Tidy(s)}

Phases == {"idle", "diffed", "prompted", "checked", "loaded", "done", "refused", "failed"}

(* The schema is sound also in the middle of what others do to it.          *)
TypeOK ==
    /\ Sound(db) /\ Sound(after)
    /\ phase \in Phases
    /\ changes \in 0..MaxChanges
    /\ unseen \in BOOLEAN
    /\ phase # "idle" => Sound(base)
    /\ phase = "loaded" => Sound(known)

Init ==
    /\ db \in Schemas /\ after \in Schemas
    /\ base = Ungrouped /\ known = Ungrouped
    /\ phase = "idle"
    /\ changes = 0 /\ unseen = FALSE

-----------------------------------------------------------------------------
(* What the services do to a schema d.  The relations rs are those of the   *)
(* schema that the service was given, which may be an older one.            *)

CollectionsCreated(d, g, fs) ==
    Schema(Over(g, d.group), d.fields \cup fs, d.relation)

(* updateOne: a collection without a row of metadata gets one.              *)
Regrouped(d, g) == Schema(Over(g, d.group), d.fields, d.relation)

FieldsCreated(d, fs) == Schema(d.group, d.fields \cup fs, d.relation)

RelationsCreated(d, rs) == Schema(d.group, d.fields, Over(rs, d.relation))

RelationsDeleted(d, fs) ==
    Schema(d.group, d.fields, Restrict(d.relation, DOMAIN d.relation \ fs))

(* updateOne cannot change what the foreign key refers to.                  *)
RelationsUpdated(d, rs) ==
    LET edited == [f \in DOMAIN rs |-> [rs[f] EXCEPT !.to = d.relation[f].to]] IN
    Schema(d.group, d.fields, Over(edited, d.relation))

(* deleteField: with a column go its relation, and the alias that shows it  *)
(* in another collection; a relation loses the alias that is deleted.       *)
AliasShowing(rs, f) ==
    IF f \in DOMAIN rs /\ rs[f].listed /\ rs[f].to # Of(f) THEN {Alias(rs[f].to)} ELSE {}

FieldsDeleted(d, rs, fs) ==
    LET gone == fs \cup UNION {AliasShowing(rs, f) : f \in fs}
        left == [h \in DOMAIN d.relation \ fs |->
                    IF h \in DOMAIN rs /\ rs[h].listed /\ Alias(rs[h].to) \in gone
                    THEN [d.relation[h] EXCEPT !.listed = FALSE] ELSE d.relation[h]]
    IN  Schema(d.group, d.fields \ gone, left)

(* deleteOne: with a collection go its fields, its place as a group, and    *)
(* the aliases of other collections that show its columns.                  *)
CollectionsDeleted(d, rs, cs) ==
    LET gone == {f \in d.fields : Of(f) \in cs}
                \cup UNION {AliasShowing(rs, f) : f \in {h \in DOMAIN rs : Of(h) \in cs}}
    IN  Schema([x \in DOMAIN d.group \ cs |->
                    IF d.group[x] \in cs THEN Ungrouped ELSE d.group[x]],
               d.fields \ gone,
               Restrict(d.relation, {f \in DOMAIN d.relation : Of(f) \notin cs}))

-----------------------------------------------------------------------------
(* getSnapshotDiff: what is new, gone and edited between two snapshots.     *)
(* The fields and relations of a collection that is gone are left out.      *)

CollectionsNew == DOMAIN after.group \ DOMAIN base.group
CollectionsGone == DOMAIN base.group \ DOMAIN after.group
CollectionsEdited ==
    {c \in DOMAIN base.group \cap DOMAIN after.group : base.group[c] # after.group[c]}

FieldsNew == after.fields \ base.fields
FieldsGone == {f \in base.fields \ after.fields : Of(f) \notin CollectionsGone}

RelationsNew == DOMAIN after.relation \ DOMAIN base.relation
RelationsGone ==
    {f \in DOMAIN base.relation \ DOMAIN after.relation : Of(f) \notin CollectionsGone}
RelationsEdited ==
    {f \in DOMAIN base.relation \cap DOMAIN after.relation : base.relation[f] # after.relation[f]}

-----------------------------------------------------------------------------
(* applyDiff.  Its steps are those of one transaction: each takes the       *)
(* schema that the one before has left, or that it failed.                  *)

Failed == [failed |-> TRUE]
Ok(d) == d # Failed
If(possible, d) == IF possible THEN d ELSE Failed

(* The collections of all that are in one of first, or in one that is, ...  *)
Nested(all, first, g) ==
    {c \in all : \A X \in SUBSET all :
        first \subseteq X /\ (\A x \in all : g[x] \in X => x \in X) => c \in X}

(* createCollections: those without a group, or in one that exists, and     *)
(* with each those in it.                                                   *)
CreatedFirst ==
    {c \in CollectionsNew : \/ after.group[c] = Ungrouped
                            \/ after.group[c] \in DOMAIN base.group \ CollectionsNew}

Created == Nested(CollectionsNew, CreatedFirst, after.group)

(* A group that is gone fails the foreign key, a name that is taken the     *)
(* check.                                                                   *)
Creations(d) ==
    LET made == CollectionsCreated(d, Restrict(after.group, Created),
                                   {f \in FieldsNew : Of(f) \in Created})
    IN  If(/\ Created \cap (DOMAIN d.group \cup DOMAIN known.group) = {}
           /\ \A c \in Created : after.group[c] \in DOMAIN made.group \cup {Ungrouped}, made)

(* deleteCollections: those without a group, and with each those in it.     *)
DeletedFirst == {c \in CollectionsGone : base.group[c] = Ungrouped}

Deleted == Nested(CollectionsGone, DeletedFirst, base.group)

(* The relations of a collection, and those to it, are deleted first; the   *)
(* database does not drop a table that a foreign key refers to.             *)
RelationsCut(cs) ==
    {f \in DOMAIN known.relation : Of(f) \in cs \/ known.relation[f].to \in cs}

Deletions(d) ==
    LET rs == Restrict(known.relation, DOMAIN known.relation \ RelationsCut(Deleted))
        left == CollectionsDeleted(RelationsDeleted(d, RelationsCut(Deleted)), rs, Deleted)
    IN  If(Deleted \subseteq DOMAIN d.group /\ Sound(left), left)

Regroupings(d) ==
    LET left == Regrouped(d, Restrict(after.group, CollectionsEdited))
    IN  If(\A c \in CollectionsEdited : after.group[c] \in DOMAIN left.group \cup {Ungrouped}, left)

(* The fields of the collections just created are in place.  The others are *)
(* created and deleted in the order of their collections, which makes no    *)
(* difference: a column that is deleted takes no alias with it that is new. *)
FieldChanges(d) ==
    LET new == {f \in FieldsNew : Of(f) \notin Created}
        left == FieldsDeleted(d, d.relation, FieldsGone)
    IN  If(/\ new \cap d.fields = {}
           /\ \A f \in new : Of(f) \in DOMAIN d.group,
           FieldsCreated(left, new))

(* What is to happen to the relation of a field just deleted is dropped;    *)
(* RelationsService refuses a new relation that exists, and an edit or the  *)
(* deletion of one that does not.                                           *)
RelationChanges(d) ==
    LET gone == RelationsGone \ FieldsGone
        left == RelationsUpdated(RelationsDeleted(d, gone),
                                 Restrict(after.relation, RelationsEdited))
    IN  IF gone \cup RelationsEdited \subseteq DOMAIN d.relation
        THEN If(/\ RelationsNew \subseteq d.fields \ DOMAIN d.relation
                /\ \A f \in RelationsNew : after.relation[f].to \in DOMAIN d.group,
                RelationsCreated(left, Restrict(after.relation, RelationsNew)))
        ELSE Failed

Applied ==
    LET created == Creations(db)
        deleted == IF Ok(created) THEN Deletions(created) ELSE Failed
        grouped == IF Ok(deleted) THEN Regroupings(deleted) ELSE Failed
        fielded == IF Ok(grouped) THEN FieldChanges(grouped) ELSE Failed
    IN  IF Ok(fielded) THEN RelationChanges(fielded) ELSE Failed

-----------------------------------------------------------------------------
(* Steps of an apply.                                                       *)

NothingDiffers == base' = after
UnchangedSchema == UNCHANGED <<db, after, changes>>

(* POST /schema/diff: the answer has the difference and the hash.           *)
Diff ==
    /\ phase = "idle"
    /\ base' = db
    /\ phase' = IF NothingDiffers THEN "done" ELSE "diffed"
    /\ UnchangedSchema /\ UNCHANGED <<known, unseen>>

(* Mutation: the hash is not compared.                                      *)
ValidateUnasked ==
    /\ phase = "diffed"
    /\ phase' = "checked"
    /\ UnchangedSchema /\ UNCHANGED <<base, known, unseen>>

(* POST /schema/apply: without the schema of the hash, it is refused.       *)
Validate ==
    /\ phase = "diffed"
    /\ phase' = IF db = base THEN "checked" ELSE "refused"
    /\ UnchangedSchema /\ UNCHANGED <<base, known, unseen>>

(* d9 schema apply compares, asks the user, and applies without a check.    *)
Prompt ==
    /\ phase = "idle"
    /\ base' = db
    /\ phase' = IF NothingDiffers THEN "done" ELSE "prompted"
    /\ UnchangedSchema /\ UNCHANGED <<known, unseen>>

ReadSchema ==
    /\ phase \in {"checked", "prompted"}
    /\ known' = db
    /\ phase' = "loaded"
    /\ UnchangedSchema /\ UNCHANGED <<base, unseen>>

Apply ==
    /\ phase = "loaded"
    /\ IF Ok(Applied) THEN db' = Applied /\ phase' = "done"
                      ELSE db' = db /\ phase' = "failed"
    /\ UNCHANGED <<after, base, known, changes, unseen>>

-----------------------------------------------------------------------------
(* Requests of other users; the services have the schema as it is.          *)

Change(d) ==
    /\ phase \in {"diffed", "prompted", "checked", "loaded"}
    /\ changes < MaxChanges
    /\ db' = d
    /\ changes' = changes + 1
    /\ unseen' = (unseen \/ phase # "diffed")
    /\ UNCHANGED <<after, base, known, phase>>

CreateCollection ==
    \E c \in Collections \ DOMAIN db.group : Change(CollectionsCreated(db, Only(c, Ungrouped), {}))

(* The database refuses to drop a table that a foreign key of another one   *)
(* refers to.                                                               *)
DeleteCollection ==
    \E c \in DOMAIN db.group :
        /\ \A f \in DOMAIN db.relation : db.relation[f].to = c => Of(f) = c
        /\ Change(CollectionsDeleted(db, db.relation, {c}))

Regroup ==
    \E c \in DOMAIN db.group : \E g \in (Nests[c] \cap DOMAIN db.group) \cup {Ungrouped} :
        /\ db.group[c] # g
        /\ Change(Regrouped(db, Only(c, g)))

CreateField ==
    \E f \in Fields \ db.fields :
        /\ Of(f) \in DOMAIN db.group
        /\ Change(FieldsCreated(db, {f}))

DeleteField == \E f \in db.fields : Change(FieldsDeleted(db, db.relation, {f}))

CreateRelation ==
    \E c \in Columns, t \in DOMAIN db.group :
        /\ Column(c) \in db.fields \ DOMAIN db.relation
        /\ Change(RelationsCreated(db, Only(Column(c), Relation(t, FALSE))))

(* The alias of the other side shows the column or not.                           *)
UpdateRelation ==
    \E f \in DOMAIN db.relation :
        LET r == db.relation[f] IN
        Change(RelationsUpdated(db, Only(f, [r EXCEPT !.listed = ~r.listed])))

DeleteRelation == \E f \in DOMAIN db.relation : Change(RelationsDeleted(db, {f}))

Next ==
    \/ Diff \/ Validate \/ Prompt \/ ReadSchema \/ Apply
    \/ CreateCollection \/ DeleteCollection \/ Regroup
    \/ CreateField \/ DeleteField \/ CreateRelation \/ UpdateRelation \/ DeleteRelation

Spec == Init /\ [][Next]_vars

-----------------------------------------------------------------------------
(* Properties.                                                              *)

(* A collection that the snapshot does not have stays if it is inside a     *)
(* group that stays.                                                        *)
Stranded ==
    Nested(CollectionsGone, {c \in CollectionsGone : base.group[c] \in DOMAIN after.group},
           base.group)

(* An alias goes with the column it showed, although the snapshot has it.   *)
LostAliases ==
    {Alias(base.relation[f].to) : f \in {h \in FieldsGone \cap DOMAIN base.relation :
                                            /\ base.relation[h].listed
                                            /\ base.relation[h].to # Of(h)}}

(* A relation whose target goes is deleted with it; that its column stays   *)
(* means that it is to be deleted, or edited, again.                        *)
DeletedTwice ==
    \E f \in DOMAIN base.relation \cap after.fields :
        base.relation[f].to \in CollectionsGone \ Stranded

(* The instance matches the snapshot that was applied to it (applyDiff;     *)
(* docs/self-hosted/cli.md, "to make it match the snapshot") and the apply  *)
(* does not fail, unless others changed the schema after the last check,    *)
(* but for: collections inside a group that stays, the aliases of deleted   *)
(* columns, the targets of foreign keys, and relations that are deleted     *)
(* with their target.                                                       *)
SnapshotReached ==
    LET there(fs) == {f \in fs : Of(f) \notin Stranded} IN
    /\ phase = "done" /\ ~unseen =>
        /\ DOMAIN db.group = DOMAIN after.group \cup Stranded
        /\ \A c \in DOMAIN after.group : db.group[c] = after.group[c]
        /\ there(db.fields) = after.fields \ LostAliases
        /\ there(DOMAIN db.relation) = DOMAIN after.relation
        /\ \A f \in DOMAIN after.relation :
            /\ db.relation[f].one = after.relation[f].one
            /\ db.relation[f].listed = after.relation[f].listed
            /\ db.relation[f].to # after.relation[f].to =>
                f \in DOMAIN base.relation /\ db.relation[f].to = base.relation[f].to
    /\ phase = "failed" /\ ~unseen => DeletedTwice
==============================================================================
