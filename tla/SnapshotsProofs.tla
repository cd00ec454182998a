--------------------------- MODULE SnapshotsProofs ---------------------------
(***************************************************************************)
(* Snapshots, for any values of the constants of Parts: any collections,   *)
(* however they nest, any fields and relations.                            *)
(***************************************************************************)
EXTENDS Parts, TLAPS

-----------------------------------------------------------------------------
(* Snapshots.  Between the check and the application of a difference nobody *)
(* changes the schema, or the history says so; then what is applied is the  *)
(* difference between the schema and the snapshot, and its five steps are   *)
(* followed one by one.                                                     *)

(* What the app leaves of a schema, spelled out. *)
Shape(s) ==
    /\ s = D!Schema(s.group, s.fields, s.relation)
    /\ DOMAIN s.group \subseteq DOMAIN Nests
    /\ \A c \in DOMAIN s.group : s.group[c] \in Nests[c] \cup {Ungrouped}
    /\ \A f \in DOMAIN s.relation :
        /\ f \in {D!Column(c) : c \in WithColumn}
        /\ \E c \in DOMAIN s.group, b \in BOOLEAN : s.relation[f] = D!Relation(c, b)
    /\ D!Tidy(s)

(* A schema that the app can leave has that shape. *)
LEMMA SchemaShape ==
    ASSUME NEW s \in D!Schemas
    PROVE  Shape(s)
  <1>1. PICK cs \in SUBSET D!Collections :
          s \in UNION {{D!Schema(g, fs, rs) : g \in D!Groupings(cs), rs \in D!Links(cs, fs)} :
                          fs \in SUBSET {f \in D!Fields : D!Of(f) \in cs}}
      BY DEF D!Schemas
  <1>2. PICK fs \in SUBSET {f \in D!Fields : D!Of(f) \in cs} :
          s \in {D!Schema(g, fs, rs) : g \in D!Groupings(cs), rs \in D!Links(cs, fs)}
      BY <1>1
  <1>3. PICK g \in D!Groupings(cs), rs \in D!Links(cs, fs) : s = D!Schema(g, fs, rs)
      BY <1>2
  <1>4. /\ s.group = g /\ s.relation = rs
        /\ s = D!Schema(s.group, s.fields, s.relation)
      BY <1>3 DEF D!Schema
  <1>5. /\ DOMAIN g = cs
        /\ \A c \in cs : g[c] \in Nests[c] \cup {Ungrouped}
      BY <1>3 DEF D!Groupings
  <1>6. PICK k \in SUBSET (fs \cap {D!Column(c) : c \in cs}) :
          rs \in [k -> {D!Relation(c, b) : c \in cs, b \in BOOLEAN}]
      BY <1>3 DEF D!Links
  <1>7. ASSUME NEW f \in k
        PROVE  f \in {D!Column(c) : c \in WithColumn}
    <2>1. f \in D!Fields /\ f \in {D!Column(c) : c \in cs}
        BY <1>6, <1>7
    <2>2. PICK c \in cs : f = D!Column(c)
        BY <2>1
    <2>3. CASE f \in {D!Alias(b) : b \in WithAlias}
        BY <2>2, <2>3 DEF D!Alias, D!Column
    <2> QED  BY <2>1, <2>3 DEF D!Fields
  <1>8. \A f \in k : \E c \in cs, b \in BOOLEAN : rs[f] = D!Relation(c, b)
      BY <1>6
  <1>9. DOMAIN rs = k
      BY <1>6
  <1>10. D!Tidy(s)
      BY DEF D!Schemas
  <1>11. cs \subseteq DOMAIN Nests
      BY <1>1 DEF D!Collections
  <1> QED  BY <1>4, <1>5, <1>7, <1>8, <1>9, <1>10, <1>11 DEF Shape

(* What a set with what is nested in it has, and only has. *)
LEMMA NestedWithin ==
    ASSUME NEW all, NEW roots \in SUBSET all, NEW g
    PROVE  LET n == D!Nested(all, roots, g) IN
           /\ roots \subseteq n /\ n \subseteq all
           /\ \A x \in all : g[x] \in n => x \in n
           /\ \A x \in n : x \in roots \/ g[x] \in n
  <1> DEFINE n == D!Nested(all, roots, g)
  <1>1. roots \subseteq n /\ n \subseteq all
      BY DEF D!Nested
  <1>2. ASSUME NEW x \in all, g[x] \in n PROVE x \in n
      BY <1>2 DEF D!Nested
  <1>3. ASSUME NEW x \in n, x \notin roots, g[x] \notin n PROVE FALSE
    <2> DEFINE less == n \ {x}
    <2>1. less \in SUBSET all /\ roots \subseteq less
        BY <1>1, <1>3
    <2>2. \A y \in all : g[y] \in less => y \in less
        BY <1>2, <1>3
    <2>3. x \in less
        BY <1>3, <2>1, <2>2 DEF D!Nested
    <2> QED  BY <2>3
  <1> QED  BY <1>1, <1>2, <1>3

-----------------------------------------------------------------------------
(* What a step of the application makes of a schema.                        *)

LEMMA SchemaParts ==
    ASSUME NEW g, NEW fs, NEW rs
    PROVE  LET s == D!Schema(g, fs, rs) IN
           /\ s.group = g /\ s.fields = fs /\ s.relation = rs
           /\ D!Ok(s)
  <1>1. D!Schema(g, fs, rs) # D!Failed
      BY DEF D!Schema, D!Failed
  <1>2. D!Ok(D!Schema(g, fs, rs))
      BY <1>1, Zenon DEF D!Ok
  <1> QED  BY <1>2 DEF D!Schema

LEMMA CollectionsCreatedBy ==
    ASSUME NEW g, NEW fs, NEW rs, NEW h, NEW new
    PROVE  D!CollectionsCreated(D!Schema(g, fs, rs), h, new)
               = D!Schema(D!Over(h, g), fs \cup new, rs)
  <1>1. /\ D!Schema(g, fs, rs).group = g /\ D!Schema(g, fs, rs).fields = fs
        /\ D!Schema(g, fs, rs).relation = rs
      BY SchemaParts
  <1> QED  BY <1>1 DEF D!CollectionsCreated

LEMMA RegroupedBy ==
    ASSUME NEW g, NEW fs, NEW rs, NEW h
    PROVE  D!Regrouped(D!Schema(g, fs, rs), h)
               = D!Schema(D!Over(h, g), fs, rs)
  <1>1. /\ D!Schema(g, fs, rs).group = g /\ D!Schema(g, fs, rs).fields = fs
        /\ D!Schema(g, fs, rs).relation = rs
      BY SchemaParts
  <1> QED  BY <1>1 DEF D!Regrouped

LEMMA FieldsCreatedBy ==
    ASSUME NEW g, NEW fs, NEW rs, NEW new
    PROVE  D!FieldsCreated(D!Schema(g, fs, rs), new)
               = D!Schema(g, fs \cup new, rs)
  <1>1. /\ D!Schema(g, fs, rs).group = g /\ D!Schema(g, fs, rs).fields = fs
        /\ D!Schema(g, fs, rs).relation = rs
      BY SchemaParts
  <1> QED  BY <1>1 DEF D!FieldsCreated

LEMMA RelationsCreatedBy ==
    ASSUME NEW g, NEW fs, NEW rs, NEW h
    PROVE  D!RelationsCreated(D!Schema(g, fs, rs), h)
               = D!Schema(g, fs, D!Over(h, rs))
  <1>1. /\ D!Schema(g, fs, rs).group = g /\ D!Schema(g, fs, rs).fields = fs
        /\ D!Schema(g, fs, rs).relation = rs
      BY SchemaParts
  <1> QED  BY <1>1 DEF D!RelationsCreated

LEMMA RelationsDeletedBy ==
    ASSUME NEW g, NEW fs, NEW rs, NEW old
    PROVE  D!RelationsDeleted(D!Schema(g, fs, rs), old)
               = D!Schema(g, fs, D!Restrict(rs, DOMAIN rs \ old))
  <1>1. /\ D!Schema(g, fs, rs).group = g /\ D!Schema(g, fs, rs).fields = fs
        /\ D!Schema(g, fs, rs).relation = rs
      BY SchemaParts
  <1> QED  BY <1>1 DEF D!RelationsDeleted

LEMMA RelationsUpdatedBy ==
    ASSUME NEW g, NEW fs, NEW rs, NEW h
    PROVE  D!RelationsUpdated(D!Schema(g, fs, rs), h)
               = D!Schema(g, fs, D!Over([f \in DOMAIN h |-> [h[f] EXCEPT !.to = rs[f].to]], rs))
  <1>1. /\ D!Schema(g, fs, rs).group = g /\ D!Schema(g, fs, rs).fields = fs
        /\ D!Schema(g, fs, rs).relation = rs
      BY SchemaParts
  <1> QED  BY <1>1, Zenon DEF D!RelationsUpdated

(* What deleteOne leaves of the groups, the fields and the relations.       *)
GroupsWithout(g, cs) ==
    [x \in DOMAIN g \ cs |-> IF g[x] \in cs THEN Ungrouped ELSE g[x]]
FieldsWithout(fs, cs) == {f \in fs : D!Of(f) \notin cs}
RelationsWithout(rs, cs) == D!Restrict(rs, {f \in DOMAIN rs : D!Of(f) \notin cs})

LEMMA CollectionsDeletedBy ==
    ASSUME NEW g, NEW fs, NEW rs, NEW old, NEW cs,
           \A h \in DOMAIN old : D!Of(h) \notin cs
    PROVE  D!CollectionsDeleted(D!Schema(g, fs, rs), old, cs)
               = D!Schema(GroupsWithout(g, cs), FieldsWithout(fs, cs), RelationsWithout(rs, cs))
  <1> DEFINE s == D!Schema(g, fs, rs)
             gone == {f \in s.fields : D!Of(f) \in cs}
                     \cup UNION {D!AliasShowing(old, f) : f \in {h \in DOMAIN old : D!Of(h) \in cs}}
  <1>1. /\ s.group = g /\ s.fields = fs /\ s.relation = rs
      BY SchemaParts
  <1>2. {h \in DOMAIN old : D!Of(h) \in cs} = {}
      OBVIOUS
  <1>3. gone = {f \in s.fields : D!Of(f) \in cs}
      BY <1>2
  <1>4. s.fields \ gone = FieldsWithout(fs, cs)
      BY <1>1, <1>3 DEF FieldsWithout
  <1> HIDE DEF s
  <1>5. D!CollectionsDeleted(s, old, cs)
          = D!Schema(GroupsWithout(g, cs), s.fields \ gone, RelationsWithout(rs, cs))
      BY <1>1, Zenon DEF D!CollectionsDeleted, GroupsWithout, RelationsWithout
  <1> QED  BY <1>4, <1>5 DEF s

(* The fields deleteField takes with the fields fs, and what it leaves of   *)
(* the relations.                                                           *)
TakenWith(rs, fs) == fs \cup UNION {D!AliasShowing(rs, f) : f \in fs}
LeftWithout(rs, fs) ==
    [h \in DOMAIN rs \ fs |->
        IF rs[h].listed /\ D!Alias(rs[h].to) \in TakenWith(rs, fs)
        THEN [rs[h] EXCEPT !.listed = FALSE] ELSE rs[h]]

LEMMA FieldsDeletedBy ==
    ASSUME NEW g, NEW fs, NEW rs, NEW old
    PROVE  D!FieldsDeleted(D!Schema(g, fs, rs), rs, old)
               = D!Schema(g, fs \ TakenWith(rs, old), LeftWithout(rs, old))
  <1> DEFINE s == D!Schema(g, fs, rs)
  <1>1. /\ s.group = g /\ s.fields = fs /\ s.relation = rs
      BY SchemaParts
  <1> HIDE DEF s
  <1>2. D!FieldsDeleted(s, rs, old)
          = D!Schema(g, fs \ TakenWith(rs, old),
                     [h \in DOMAIN rs \ old |->
                          IF h \in DOMAIN rs /\ rs[h].listed
                             /\ D!Alias(rs[h].to) \in TakenWith(rs, old)
                          THEN [rs[h] EXCEPT !.listed = FALSE] ELSE rs[h]])
      BY <1>1 DEF D!FieldsDeleted, TakenWith
  <1>3. [h \in DOMAIN rs \ old |->
              IF h \in DOMAIN rs /\ rs[h].listed
                 /\ D!Alias(rs[h].to) \in TakenWith(rs, old)
              THEN [rs[h] EXCEPT !.listed = FALSE] ELSE rs[h]] = LeftWithout(rs, old)
      BY DEF LeftWithout
  <1> QED  BY <1>2, <1>3 DEF s

-----------------------------------------------------------------------------
(* The difference of two schemas: every new collection is created, and of   *)
(* those that are gone, what is inside a group that stays is not deleted.   *)

Compared == base \in D!Schemas /\ after \in D!Schemas

LEMMA GroupsApart ==
    ASSUME Compared
    PROVE  /\ D!Created = D!CollectionsNew
           /\ D!Deleted = D!CollectionsGone \ D!Stranded
           /\ D!Stranded \subseteq D!CollectionsGone
  <1> USE DEF Compared
  <1>1. Shape(base) /\ Shape(after)
      BY SchemaShape
  <1>2. /\ DOMAIN base.group \subseteq DOMAIN Nests
        /\ DOMAIN after.group \subseteq DOMAIN Nests
        /\ \A c \in DOMAIN base.group : base.group[c] \in Nests[c] \cup {Ungrouped}
        /\ \A c \in DOMAIN after.group : after.group[c] \in Nests[c] \cup {Ungrouped}
      BY <1>1 DEF Shape
  <1>3. /\ \A c \in DOMAIN base.group : base.group[c] \in DOMAIN base.group \cup {Ungrouped}
        /\ \A c \in DOMAIN after.group : after.group[c] \in DOMAIN after.group \cup {Ungrouped}
      BY <1>1 DEF Shape, D!Tidy, D!Sound
  <1>4. D!Created = D!CollectionsNew
    <2>1. D!CreatedFirst \in SUBSET D!CollectionsNew
        BY DEF D!CreatedFirst
    <2>2. /\ D!CreatedFirst \subseteq D!Created /\ D!Created \subseteq D!CollectionsNew
          /\ \A x \in D!CollectionsNew : after.group[x] \in D!Created => x \in D!Created
        BY <2>1, NestedWithin DEF D!Created
    <2> DEFINE missed == D!CollectionsNew \ D!Created
    <2>3. ASSUME missed # {} PROVE FALSE
      <3>1. missed \in SUBSET DOMAIN Nests
          BY <1>2 DEF D!CollectionsNew
      <3>2. PICK c \in missed : Nests[c] \cap missed = {}
          BY <2>3, <3>1, SnapshotsAssumption
      <3>3. c \in D!CollectionsNew /\ c \in DOMAIN after.group
          BY <3>2 DEF D!CollectionsNew
      <3>4. CASE after.group[c] = Ungrouped
          BY <2>2, <3>2, <3>3, <3>4 DEF D!CreatedFirst
      <3>5. CASE after.group[c] # Ungrouped
        <4>1. after.group[c] \in DOMAIN after.group /\ after.group[c] \notin missed
            BY <1>2, <1>3, <3>2, <3>3, <3>5
        <4>2. CASE after.group[c] \in D!CollectionsNew
            BY <2>2, <3>2, <3>3, <4>1, <4>2
        <4>3. CASE after.group[c] \notin D!CollectionsNew
            BY <2>2, <3>2, <3>3, <4>1, <4>3 DEF D!CreatedFirst, D!CollectionsNew
        <4> QED  BY <4>2, <4>3
      <3> QED  BY <3>4, <3>5
    <2> QED  BY <2>2, <2>3
  <1> DEFINE kept == {c \in D!CollectionsGone : base.group[c] \in DOMAIN after.group}
  <1>5. /\ D!DeletedFirst \in SUBSET D!CollectionsGone /\ kept \in SUBSET D!CollectionsGone
        /\ D!CollectionsGone \subseteq DOMAIN base.group
        /\ D!CollectionsGone \cap DOMAIN after.group = {}
      BY DEF D!DeletedFirst, D!CollectionsGone
  <1>6. /\ D!DeletedFirst \subseteq D!Deleted /\ D!Deleted \subseteq D!CollectionsGone
        /\ \A x \in D!CollectionsGone : base.group[x] \in D!Deleted => x \in D!Deleted
        /\ \A x \in D!Deleted : x \in D!DeletedFirst \/ base.group[x] \in D!Deleted
      BY <1>5, NestedWithin DEF D!Deleted
  <1>7. /\ kept \subseteq D!Stranded /\ D!Stranded \subseteq D!CollectionsGone
        /\ \A x \in D!CollectionsGone : base.group[x] \in D!Stranded => x \in D!Stranded
        /\ \A x \in D!Stranded : x \in kept \/ base.group[x] \in D!Stranded
      BY <1>5, NestedWithin DEF D!Stranded
  <1>8. D!Deleted \cap D!Stranded = {}
    <2> DEFINE both == D!Deleted \cap D!Stranded
    <2>1. ASSUME both # {} PROVE FALSE
      <3>1. both \in SUBSET DOMAIN Nests
          BY <1>2, <1>5, <1>6
      <3>2. PICK c \in both : Nests[c] \cap both = {}
          BY <2>1, <3>1, SnapshotsAssumption
      <3>3. c \in DOMAIN base.group /\ c \in D!Deleted /\ c \in D!Stranded
          BY <1>5, <1>6, <3>2
      <3>4. CASE base.group[c] = Ungrouped
        <4>1. Ungrouped \notin DOMAIN Nests
            BY SnapshotsAssumption
        <4>2. base.group[c] \notin DOMAIN after.group /\ base.group[c] \notin D!Stranded
            BY <1>2, <1>5, <1>7, <3>4, <4>1
        <4> QED  BY <1>7, <3>3, <4>2
      <3>5. CASE base.group[c] # Ungrouped
        <4>1. base.group[c] \in Nests[c] /\ c \notin D!DeletedFirst
            BY <1>2, <3>3, <3>5 DEF D!DeletedFirst
        <4>2. base.group[c] \in D!Deleted
            BY <1>6, <3>3, <4>1
        <4>3. base.group[c] \notin D!Stranded
            BY <3>2, <4>1, <4>2
        <4>4. base.group[c] \in DOMAIN after.group
            BY <1>7, <3>3, <4>3
        <4> QED  BY <1>5, <1>6, <4>2, <4>4
      <3> QED  BY <3>4, <3>5
    <2> QED  BY <2>1
  <1>9. D!CollectionsGone \subseteq D!Deleted \cup D!Stranded
    <2> DEFINE missed == D!CollectionsGone \ (D!Deleted \cup D!Stranded)
    <2>1. ASSUME missed # {} PROVE FALSE
      <3>1. missed \in SUBSET DOMAIN Nests
          BY <1>2, <1>5
      <3>2. PICK c \in missed : Nests[c] \cap missed = {}
          BY <2>1, <3>1, SnapshotsAssumption
      <3>3. c \in D!CollectionsGone /\ c \in DOMAIN base.group
          BY <1>5, <3>2
      <3>4. CASE base.group[c] = Ungrouped
          BY <1>6, <3>2, <3>3, <3>4 DEF D!DeletedFirst
      <3>5. CASE base.group[c] # Ungrouped
        <4>1. base.group[c] \in DOMAIN base.group /\ base.group[c] \notin missed
            BY <1>2, <1>3, <3>2, <3>3, <3>5
        <4>2. CASE base.group[c] \in DOMAIN after.group
            BY <1>7, <3>2, <3>3, <4>2
        <4>3. CASE base.group[c] \notin DOMAIN after.group
          <5>1. base.group[c] \in D!CollectionsGone
              BY <4>1, <4>3 DEF D!CollectionsGone
          <5> QED  BY <1>6, <1>7, <3>2, <3>3, <4>1, <5>1
        <4> QED  BY <4>2, <4>3
      <3> QED  BY <3>4, <3>5
    <2> QED  BY <2>1
  <1> QED  BY <1>4, <1>6, <1>7, <1>8, <1>9

(* What is known of each of the two schemas, as the steps of the            *)
(* application need it.                                                     *)
Formed(s) ==
    /\ s = D!Schema(s.group, s.fields, s.relation)
    /\ Ungrouped \notin DOMAIN s.group
    /\ \A c \in DOMAIN s.group : s.group[c] \in DOMAIN s.group \cup {Ungrouped}
    /\ \A f \in s.fields : D!Of(f) \in DOMAIN s.group
    /\ DOMAIN s.relation \subseteq s.fields
    /\ \A f \in DOMAIN s.relation :
        /\ s.relation[f].to \in DOMAIN s.group
        /\ s.relation[f].one = s.relation[f].to
        /\ s.relation[f] = [to |-> s.relation[f].to, one |-> s.relation[f].one,
                            listed |-> s.relation[f].listed]
        /\ s.relation[f].listed \in BOOLEAN
    /\ \A f \in DOMAIN s.relation :
        s.relation[f].listed =>
            /\ D!Alias(s.relation[f].to) \in s.fields
            /\ \A h \in DOMAIN s.relation \ {f} :
                s.relation[h].listed => s.relation[h].to # s.relation[f].to
    /\ \A f \in DOMAIN s.relation : \A c : f # D!Alias(c)

LEMMA SchemaFormed ==
    ASSUME NEW s \in D!Schemas
    PROVE  Formed(s)
  <1>1. Shape(s)
      BY SchemaShape
  <1>2. /\ s = D!Schema(s.group, s.fields, s.relation)
        /\ Ungrouped \notin DOMAIN s.group
      BY <1>1, SnapshotsAssumption DEF Shape
  <1>3. D!Sound(s)
      BY <1>1 DEF Shape, D!Tidy
  <1>4. ASSUME NEW f \in DOMAIN s.relation
        PROVE  /\ s.relation[f].to \in DOMAIN s.group
               /\ s.relation[f].one = s.relation[f].to
               /\ s.relation[f] = [to |-> s.relation[f].to, one |-> s.relation[f].one,
                                   listed |-> s.relation[f].listed]
               /\ s.relation[f].listed \in BOOLEAN
               /\ \A c : f # D!Alias(c)
    <2>1. PICK c \in DOMAIN s.group, b \in BOOLEAN : s.relation[f] = D!Relation(c, b)
        BY <1>1 DEF Shape
    <2>2. /\ s.relation[f].to = c /\ s.relation[f].one = c
          /\ s.relation[f].listed = b
          /\ s.relation[f] = [to |-> c, one |-> c, listed |-> b]
        BY <2>1 DEF D!Relation
    <2>3. PICK k \in WithColumn : f = D!Column(k)
        BY <1>1 DEF Shape
    <2>4. \A a : f # D!Alias(a)
        BY <2>3 DEF D!Column, D!Alias
    <2> QED  BY <2>2, <2>4
  <1>5. ASSUME NEW f \in DOMAIN s.relation, s.relation[f].listed
        PROVE  /\ D!Alias(s.relation[f].to) \in s.fields
               /\ \A h \in DOMAIN s.relation \ {f} :
                   s.relation[h].listed => s.relation[h].to # s.relation[f].to
    <2>1. D!Tidy(s)
        BY <1>1 DEF Shape
    <2>2. /\ D!Alias(s.relation[f].one) \in s.fields
          /\ \A h \in DOMAIN s.relation \ {f} :
              s.relation[h].listed => s.relation[h].one # s.relation[f].one
        BY <1>5, <2>1, Zenon DEF D!Tidy
    <2> QED  BY <1>4, <2>2
  <1> QED  BY <1>2, <1>3, <1>4, <1>5 DEF Formed, D!Sound

(* The schema after the collections were created, ...                       *)
GroupsMade == D!Over(D!Restrict(after.group, D!CollectionsNew), base.group)
FieldsWith == {f \in D!FieldsNew : D!Of(f) \in D!CollectionsNew}
FieldsMade == base.fields \cup FieldsWith

LEMMA CreationsMade ==
    ASSUME Compared, known = base
    PROVE  /\ D!Creations(base) = D!Schema(GroupsMade, FieldsMade, base.relation)
           /\ DOMAIN GroupsMade = DOMAIN base.group \cup DOMAIN after.group
           /\ \A c \in D!CollectionsNew : GroupsMade[c] = after.group[c]
           /\ \A c \in DOMAIN base.group : GroupsMade[c] = base.group[c]
  <1>1. Formed(base) /\ Formed(after)
      BY SchemaFormed DEF Compared
  <1>2. D!Created = D!CollectionsNew
      BY GroupsApart
  <1>3. /\ DOMAIN GroupsMade = DOMAIN base.group \cup DOMAIN after.group
        /\ \A c \in D!CollectionsNew : GroupsMade[c] = after.group[c]
        /\ \A c \in DOMAIN base.group : GroupsMade[c] = base.group[c]
      BY DEF GroupsMade, D!Over, D!Restrict, D!CollectionsNew
  <1>4. D!CollectionsCreated(base, D!Restrict(after.group, D!CollectionsNew),
                             FieldsWith)
          = D!Schema(GroupsMade, FieldsMade, base.relation)
    <2>1. D!CollectionsCreated(D!Schema(base.group, base.fields, base.relation),
                               D!Restrict(after.group, D!CollectionsNew), FieldsWith)
            = D!Schema(GroupsMade, FieldsMade, base.relation)
        BY CollectionsCreatedBy DEF GroupsMade, FieldsMade
    <2> QED  BY <1>1, <2>1 DEF Formed
  <1>5. D!Schema(GroupsMade, FieldsMade, base.relation).group = GroupsMade
      BY SchemaParts
  <1>6. D!CollectionsNew \cap (DOMAIN base.group \cup DOMAIN known.group) = {}
      BY DEF D!CollectionsNew
  <1>7. \A c \in D!CollectionsNew : after.group[c] \in DOMAIN GroupsMade \cup {Ungrouped}
      BY <1>1, <1>3 DEF Formed, D!CollectionsNew
  <1>8. D!Creations(base) = D!Schema(GroupsMade, FieldsMade, base.relation)
      BY <1>2, <1>4, <1>5, <1>6, <1>7 DEF D!Creations, D!If, FieldsWith
  <1> QED  BY <1>3, <1>8

(* ... after those that are gone were deleted, ...                          *)
Cut == D!RelationsCut(D!Deleted)
GroupsLeft == GroupsWithout(GroupsMade, D!Deleted)
FieldsLeft == FieldsWithout(FieldsMade, D!Deleted)
RelationsLeft == D!Restrict(base.relation, DOMAIN base.relation \ Cut)

LEMMA DeletionsMade ==
    ASSUME Compared, known = base
    PROVE  /\ D!Deletions(D!Creations(base)) = D!Schema(GroupsLeft, FieldsLeft, RelationsLeft)
           /\ DOMAIN RelationsLeft = DOMAIN base.relation \ Cut
           /\ \A f \in DOMAIN base.relation \ Cut : RelationsLeft[f] = base.relation[f]
           /\ \A f \in DOMAIN base.relation :
                f \in Cut <=> D!Of(f) \in D!Deleted \/ base.relation[f].to \in D!Deleted
  <1> DEFINE made == D!Schema(GroupsMade, FieldsMade, base.relation)
             cut == D!Schema(GroupsMade, FieldsMade, RelationsLeft)
             left == D!Schema(GroupsLeft, FieldsLeft, RelationsLeft)
  <1>1. Formed(base) /\ Formed(after)
      BY SchemaFormed DEF Compared
  <1>2. D!Creations(base) = made /\ DOMAIN GroupsMade = DOMAIN base.group \cup DOMAIN after.group
      BY CreationsMade
  <1>3. /\ DOMAIN RelationsLeft = DOMAIN base.relation \ Cut
        /\ \A f \in DOMAIN base.relation \ Cut : RelationsLeft[f] = base.relation[f]
      BY DEF RelationsLeft, D!Restrict
  <1>4. \A f \in DOMAIN base.relation :
          f \in Cut <=> D!Of(f) \in D!Deleted \/ base.relation[f].to \in D!Deleted
      BY DEF Cut, D!RelationsCut
  <1>5. D!RelationsDeleted(made, Cut) = cut
      BY RelationsDeletedBy DEF RelationsLeft
  <1>6. \A h \in DOMAIN RelationsLeft : D!Of(h) \notin D!Deleted
      BY <1>3, <1>4
  <1>7. RelationsWithout(RelationsLeft, D!Deleted) = RelationsLeft
      BY <1>3, <1>6 DEF RelationsWithout, D!Restrict, RelationsLeft
  <1>8. D!CollectionsDeleted(cut, RelationsLeft, D!Deleted) = left
      BY <1>6, <1>7, CollectionsDeletedBy DEF GroupsLeft, FieldsLeft
  <1>9. /\ left.group = GroupsLeft /\ left.fields = FieldsLeft /\ left.relation = RelationsLeft
        /\ made.group = GroupsMade
      BY SchemaParts
  <1>10. D!Deleted \subseteq DOMAIN GroupsMade
      BY <1>2, GroupsApart DEF D!CollectionsGone
  <1>11. D!Sound(left)
    <2>1. ASSUME NEW c \in DOMAIN GroupsLeft
          PROVE  GroupsLeft[c] \in DOMAIN GroupsLeft \cup {Ungrouped}
      <3>1. GroupsMade[c] \in DOMAIN GroupsMade \cup {Ungrouped}
        <4>1. CASE c \in D!CollectionsNew
            BY <1>1, <4>1, CreationsMade DEF Formed, D!CollectionsNew
        <4>2. CASE c \in DOMAIN base.group
            BY <1>1, <4>2, CreationsMade DEF Formed
        <4> QED  BY <1>2, <2>1, <4>1, <4>2 DEF GroupsLeft, GroupsWithout, D!CollectionsNew
      <3> QED  BY <2>1, <3>1 DEF GroupsLeft, GroupsWithout
    <2>2. ASSUME NEW f \in FieldsLeft PROVE D!Of(f) \in DOMAIN GroupsLeft
        BY <1>1, <1>2, <2>2 DEF FieldsLeft, FieldsMade, FieldsWith, FieldsWithout, GroupsLeft,
                                GroupsWithout, Formed, D!FieldsNew
    <2>3. ASSUME NEW f \in DOMAIN RelationsLeft
          PROVE  f \in FieldsLeft /\ RelationsLeft[f].to \in DOMAIN GroupsLeft
      <3>1. /\ f \in DOMAIN base.relation /\ D!Of(f) \notin D!Deleted
            /\ base.relation[f].to \notin D!Deleted /\ RelationsLeft[f] = base.relation[f]
          BY <1>3, <1>4, <2>3
      <3>2. f \in base.fields /\ base.relation[f].to \in DOMAIN base.group
          BY <1>1, <3>1 DEF Formed
      <3> QED  BY <1>2, <3>1, <3>2 DEF FieldsLeft, FieldsMade, FieldsWithout, GroupsLeft,
                  GroupsWithout
    <2> HIDE DEF left
    <2> QED  BY <1>9, <2>1, <2>2, <2>3 DEF D!Sound
  <1>12. D!Restrict(known.relation, DOMAIN known.relation \ D!RelationsCut(D!Deleted))
          = RelationsLeft
      BY DEF RelationsLeft, Cut
  <1> HIDE DEF made, cut, left
  <1>13. D!Deletions(made) = left
      BY <1>5, <1>8, <1>9, <1>10, <1>11, <1>12 DEF D!Deletions, D!If, Cut
  <1> QED  BY <1>2, <1>3, <1>4, <1>13 DEF left

(* ... after the others got the groups of the snapshot, ...                 *)
GroupsSet == D!Over(D!Restrict(after.group, D!CollectionsEdited), GroupsLeft)

LEMMA RegroupingsMade ==
    ASSUME Compared, known = base
    PROVE  /\ D!Regroupings(D!Schema(GroupsLeft, FieldsLeft, RelationsLeft))
                = D!Schema(GroupsSet, FieldsLeft, RelationsLeft)
           /\ DOMAIN GroupsSet = DOMAIN after.group \cup D!Stranded
           /\ \A c \in DOMAIN after.group : GroupsSet[c] = after.group[c]
  <1> DEFINE s == D!Schema(GroupsLeft, FieldsLeft, RelationsLeft)
             left == D!Schema(GroupsSet, FieldsLeft, RelationsLeft)
  <1>1. Formed(base) /\ Formed(after)
      BY SchemaFormed DEF Compared
  <1>2. /\ DOMAIN GroupsMade = DOMAIN base.group \cup DOMAIN after.group
        /\ \A c \in D!CollectionsNew : GroupsMade[c] = after.group[c]
        /\ \A c \in DOMAIN base.group : GroupsMade[c] = base.group[c]
      BY CreationsMade
  <1>3. /\ DOMAIN GroupsLeft = DOMAIN GroupsMade \ D!Deleted
        /\ \A c \in DOMAIN GroupsLeft :
              GroupsMade[c] \notin D!Deleted => GroupsLeft[c] = GroupsMade[c]
      BY DEF GroupsLeft, GroupsWithout
  <1>4. /\ D!Deleted \cup D!Stranded = D!CollectionsGone
        /\ D!Deleted \cap D!Stranded = {}
        /\ D!CollectionsGone = DOMAIN base.group \ DOMAIN after.group
      BY GroupsApart DEF D!CollectionsGone
  <1>5. /\ DOMAIN GroupsSet = D!CollectionsEdited \cup DOMAIN GroupsLeft
        /\ \A c \in D!CollectionsEdited : GroupsSet[c] = after.group[c]
        /\ \A c \in DOMAIN GroupsLeft \ D!CollectionsEdited : GroupsSet[c] = GroupsLeft[c]
      BY DEF GroupsSet, D!Over, D!Restrict
  <1>6. DOMAIN GroupsSet = DOMAIN after.group \cup D!Stranded
      BY <1>2, <1>3, <1>4, <1>5 DEF D!CollectionsEdited
  <1>7. ASSUME NEW c \in DOMAIN after.group, c \notin D!CollectionsEdited
        PROVE  GroupsSet[c] = after.group[c]
    <2>1. c \in DOMAIN GroupsLeft /\ GroupsSet[c] = GroupsLeft[c]
        BY <1>2, <1>3, <1>4, <1>5, <1>7
    <2>2. GroupsMade[c] = after.group[c]
        BY <1>2, <1>7 DEF D!CollectionsEdited, D!CollectionsNew
    <2>3. /\ after.group[c] \in DOMAIN after.group \cup {Ungrouped}
          /\ Ungrouped \notin DOMAIN base.group
        BY <1>1 DEF Formed
    <2>4. after.group[c] \notin D!Deleted
        BY <1>4, <2>3
    <2> QED  BY <1>3, <2>1, <2>2, <2>4
  <1>8. D!Regrouped(s, D!Restrict(after.group, D!CollectionsEdited)) = left
      BY RegroupedBy DEF GroupsSet
  <1>9. left.group = GroupsSet
      BY SchemaParts
  <1>10. \A c \in D!CollectionsEdited : after.group[c] \in DOMAIN GroupsSet \cup {Ungrouped}
      BY <1>1, <1>6 DEF Formed, D!CollectionsEdited
  <1> HIDE DEF s, left
  <1>11. D!Regroupings(s) = left
      BY <1>8, <1>9, <1>10 DEF D!Regroupings, D!If
  <1> QED  BY <1>5, <1>6, <1>7, <1>11 DEF s, left

(* ... after the fields were created and deleted.                           *)
FieldsRest == {f \in D!FieldsNew : D!Of(f) \notin D!CollectionsNew}
Taken == TakenWith(RelationsLeft, D!FieldsGone)
FieldsSet == (FieldsLeft \ Taken) \cup FieldsRest
RelationsKept == LeftWithout(RelationsLeft, D!FieldsGone)

(* The aliases that go with the columns that are deleted. *)
LEMMA AliasesTaken ==
    ASSUME Compared, known = base
    PROVE  \A f \in after.fields \cup base.fields :
            D!Of(f) \in DOMAIN after.group =>
                (f \in Taken <=> f \in D!FieldsGone \/ f \in D!LostAliases)
  <1>1. Formed(base) /\ Formed(after)
      BY SchemaFormed DEF Compared
  <1>2. /\ DOMAIN RelationsLeft = DOMAIN base.relation \ Cut
        /\ \A f \in DOMAIN base.relation \ Cut : RelationsLeft[f] = base.relation[f]
        /\ \A f \in DOMAIN base.relation :
             f \in Cut <=> D!Of(f) \in D!Deleted \/ base.relation[f].to \in D!Deleted
      BY DeletionsMade
  <1>3. D!Deleted \subseteq D!CollectionsGone /\ D!Deleted \cap DOMAIN after.group = {}
      BY GroupsApart DEF D!CollectionsGone
  <1>4. ASSUME NEW f, D!Of(f) \in DOMAIN after.group, f \in Taken, f \notin D!FieldsGone
        PROVE  f \in D!LostAliases
    <2>1. PICK h \in D!FieldsGone : f \in D!AliasShowing(RelationsLeft, h)
        BY <1>4 DEF Taken, TakenWith
    <2>2. /\ h \in DOMAIN RelationsLeft /\ RelationsLeft[h].listed
          /\ RelationsLeft[h].to # D!Of(h) /\ f = D!Alias(RelationsLeft[h].to)
        BY <2>1 DEF D!AliasShowing
    <2> QED  BY <1>2, <2>2 DEF D!LostAliases
  <1>5. ASSUME NEW f, D!Of(f) \in DOMAIN after.group, f \in D!LostAliases
        PROVE  f \in Taken
    <2>1. PICK h \in D!FieldsGone \cap DOMAIN base.relation :
              /\ base.relation[h].listed /\ base.relation[h].to # D!Of(h)
              /\ f = D!Alias(base.relation[h].to)
        BY <1>5 DEF D!LostAliases
    <2>2. base.relation[h].to \in DOMAIN after.group
        BY <1>5, <2>1 DEF D!Of, D!Alias
    <2>3. D!Of(h) \notin D!Deleted
        BY <1>3, <2>1 DEF D!FieldsGone
    <2>4. h \notin Cut
        BY <1>2, <1>3, <2>1, <2>2, <2>3
    <2>5. f \in D!AliasShowing(RelationsLeft, h)
        BY <1>2, <2>1, <2>4 DEF D!AliasShowing
    <2> QED  BY <2>1, <2>5 DEF Taken, TakenWith
  <1> QED  BY <1>4, <1>5 DEF Taken, TakenWith

(* A lost alias was there before. *)
LEMMA AliasesLost ==
    ASSUME Compared
    PROVE  /\ D!LostAliases \subseteq base.fields
           /\ \A f \in D!LostAliases : \E c : f = D!Alias(c)
  <1>1. Formed(base)
      BY SchemaFormed DEF Compared
  <1>2. ASSUME NEW f \in D!LostAliases
        PROVE  f \in base.fields /\ \E c : f = D!Alias(c)
    <2>1. PICK h \in D!FieldsGone \cap DOMAIN base.relation :
              base.relation[h].listed /\ f = D!Alias(base.relation[h].to)
        BY <1>2 DEF D!LostAliases
    <2> QED  BY <1>1, <2>1 DEF Formed
  <1> QED  BY <1>2

LEMMA FieldChangesMade ==
    ASSUME Compared, known = base
    PROVE  /\ D!FieldChanges(D!Schema(GroupsSet, FieldsLeft, RelationsLeft))
                = D!Schema(GroupsSet, FieldsSet, RelationsKept)
           /\ {f \in FieldsSet : D!Of(f) \notin D!Stranded} = after.fields \ D!LostAliases
  <1> DEFINE s == D!Schema(GroupsSet, FieldsLeft, RelationsLeft)
             left == D!Schema(GroupsSet, FieldsLeft \ Taken, RelationsKept)
  <1>1. Formed(base) /\ Formed(after)
      BY SchemaFormed DEF Compared
  <1>2. /\ D!Created = D!CollectionsNew
        /\ D!Deleted = D!CollectionsGone \ D!Stranded
        /\ D!Stranded \subseteq D!CollectionsGone
      BY GroupsApart
  <1>3. DOMAIN after.group \subseteq DOMAIN GroupsSet
      BY RegroupingsMade
  <1>4. /\ s.group = GroupsSet /\ s.fields = FieldsLeft /\ s.relation = RelationsLeft
      BY SchemaParts
  <1>5. D!FieldsDeleted(s, RelationsLeft, D!FieldsGone) = left
      BY FieldsDeletedBy DEF Taken, RelationsKept
  <1>6. D!FieldsCreated(left, FieldsRest) = D!Schema(GroupsSet, FieldsSet, RelationsKept)
      BY FieldsCreatedBy DEF FieldsSet
  <1>7. FieldsRest = {f \in D!FieldsNew : D!Of(f) \notin D!Created}
      BY <1>2 DEF FieldsRest
  <1>8. FieldsRest \cap FieldsLeft = {}
      BY DEF FieldsRest, FieldsLeft, FieldsWithout, FieldsMade, FieldsWith, D!FieldsNew
  <1>9. \A f \in FieldsRest : D!Of(f) \in DOMAIN GroupsSet
      BY <1>1, <1>3 DEF FieldsRest, Formed, D!FieldsNew
  <1> HIDE DEF s, left
  <1>10. D!FieldChanges(s) = D!Schema(GroupsSet, FieldsSet, RelationsKept)
      BY <1>4, <1>5, <1>6, <1>7, <1>8, <1>9 DEF D!FieldChanges, D!If
  <1>11. ASSUME NEW f \in FieldsSet, D!Of(f) \notin D!Stranded
         PROVE  f \in after.fields /\ f \notin D!LostAliases
    <2>1. CASE f \in FieldsRest
      <3>1. f \in after.fields /\ f \notin base.fields
          BY <2>1 DEF FieldsRest, D!FieldsNew
      <3> QED  BY <3>1, AliasesLost
    <2>2. CASE f \in FieldsLeft \ Taken
      <3>1. f \in FieldsMade /\ D!Of(f) \notin D!Deleted
          BY <2>2 DEF FieldsLeft, FieldsWithout
      <3>2. f \in base.fields \cup after.fields
          BY <3>1 DEF FieldsMade, FieldsWith, D!FieldsNew
      <3>3. D!Of(f) \notin D!CollectionsGone
          BY <1>2, <1>11, <3>1
      <3>4. D!Of(f) \in DOMAIN after.group
          BY <1>1, <3>2, <3>3 DEF Formed, D!CollectionsGone
      <3>5. f \notin D!FieldsGone /\ f \notin D!LostAliases
          BY <2>2, <3>2, <3>4, AliasesTaken
      <3> QED  BY <3>2, <3>3, <3>5 DEF D!FieldsGone
    <2> QED  BY <1>11, <2>1, <2>2 DEF FieldsSet
  <1>12. ASSUME NEW f \in after.fields, f \notin D!LostAliases
         PROVE  f \in FieldsSet /\ D!Of(f) \notin D!Stranded
    <2>1. D!Of(f) \in DOMAIN after.group
        BY <1>1 DEF Formed
    <2>2. D!Of(f) \notin D!CollectionsGone
        BY <2>1 DEF D!CollectionsGone
    <2>3. f \notin Taken
        BY <1>12, <2>1, AliasesTaken DEF D!FieldsGone
    <2>4. CASE f \in base.fields
        BY <1>2, <2>2, <2>3, <2>4 DEF FieldsSet, FieldsLeft, FieldsWithout, FieldsMade
    <2>5. CASE f \notin base.fields
        BY <1>2, <2>2, <2>3, <2>5 DEF FieldsSet, FieldsLeft, FieldsWithout, FieldsMade, FieldsWith,
                                      FieldsRest, D!FieldsNew
    <2> QED  BY <1>2, <2>2, <2>4, <2>5
  <1>13. {f \in FieldsSet : D!Of(f) \notin D!Stranded} = after.fields \ D!LostAliases
      BY <1>11, <1>12
  <1> QED  BY <1>10, <1>13 DEF s

(* Which relations are still there then; one that the snapshot has as it is *)
(* keeps its alias.                                                         *)
LEMMA RelationsAfterFields ==
    ASSUME Compared, known = base
    PROVE  /\ DOMAIN RelationsKept = (DOMAIN base.relation \ Cut) \ D!FieldsGone
           /\ \A f \in DOMAIN RelationsKept : RelationsKept[f].to = base.relation[f].to
           /\ \A f \in DOMAIN RelationsKept \cap DOMAIN after.relation :
                base.relation[f] = after.relation[f] => RelationsKept[f] = base.relation[f]
  <1>1. Formed(base) /\ Formed(after)
      BY SchemaFormed DEF Compared
  <1>2. /\ DOMAIN RelationsLeft = DOMAIN base.relation \ Cut
        /\ \A f \in DOMAIN base.relation \ Cut : RelationsLeft[f] = base.relation[f]
      BY DeletionsMade
  <1>3. DOMAIN RelationsKept = (DOMAIN base.relation \ Cut) \ D!FieldsGone
      BY <1>2 DEF RelationsKept, LeftWithout
  <1>4. ASSUME NEW f \in DOMAIN RelationsKept
        PROVE  RelationsKept[f] =
                  IF base.relation[f].listed /\ D!Alias(base.relation[f].to) \in Taken
                  THEN [base.relation[f] EXCEPT !.listed = FALSE] ELSE base.relation[f]
      BY <1>2, <1>3, <1>4 DEF RelationsKept, LeftWithout, Taken
  <1>5. ASSUME NEW f \in DOMAIN RelationsKept
        PROVE  RelationsKept[f].to = base.relation[f].to
    <2>1. base.relation[f] = [to |-> base.relation[f].to, one |-> base.relation[f].one,
                              listed |-> base.relation[f].listed]
        BY <1>1, <1>3 DEF Formed
    <2>2. [base.relation[f] EXCEPT !.listed = FALSE].to = base.relation[f].to
        BY <2>1
    <2> QED  BY <1>4, <2>2
  <1>6. ASSUME NEW f \in DOMAIN RelationsKept \cap DOMAIN after.relation,
               base.relation[f] = after.relation[f],
               base.relation[f].listed, D!Alias(base.relation[f].to) \in Taken
        PROVE  FALSE
    <2> DEFINE a == D!Alias(base.relation[f].to)
    <2>1. /\ a \in base.fields /\ a \in after.fields /\ f \in after.fields
          /\ D!Of(a) \in DOMAIN after.group
        BY <1>1, <1>3, <1>6 DEF Formed
    <2>2. a \notin D!FieldsGone
        BY <2>1 DEF D!FieldsGone
    <2>3. PICK h \in D!FieldsGone : a \in D!AliasShowing(RelationsLeft, h)
        BY <1>6, <2>2 DEF Taken, TakenWith
    <2>4. /\ h \in DOMAIN RelationsLeft /\ RelationsLeft[h].listed
          /\ a = D!Alias(RelationsLeft[h].to)
        BY <2>3 DEF D!AliasShowing
    <2>5. /\ h \in DOMAIN base.relation /\ base.relation[h].listed
          /\ base.relation[h].to = base.relation[f].to
        BY <1>2, <2>4 DEF D!Alias
    <2>6. h # f
        BY <1>3, <1>6, <2>3
    <2> QED  BY <1>1, <1>3, <1>6, <2>5, <2>6 DEF Formed
  <1> QED  BY <1>3, <1>4, <1>5, <1>6

(* A relation that is to be edited or deleted and is gone already went with *)
(* its target.                                                              *)
RelationsRest == D!RelationsGone \ D!FieldsGone

LEMMA RelationsMissing ==
    ASSUME Compared, known = base,
           ~(RelationsRest \cup D!RelationsEdited \subseteq DOMAIN RelationsKept)
    PROVE  D!DeletedTwice
  <1>1. Formed(base) /\ Formed(after)
      BY SchemaFormed DEF Compared
  <1>2. PICK f \in RelationsRest \cup D!RelationsEdited : f \notin DOMAIN RelationsKept
      OBVIOUS
  <1>3. f \in DOMAIN base.relation /\ f \in base.fields
      BY <1>1 DEF RelationsRest, D!RelationsGone, D!RelationsEdited, Formed
  <1>4. f \in after.fields
    <2>1. CASE f \in D!RelationsEdited
        BY <1>1, <2>1 DEF D!RelationsEdited, Formed
    <2>2. CASE f \in RelationsRest
        BY <1>3, <2>2 DEF RelationsRest, D!RelationsGone, D!FieldsGone
    <2> QED  BY <2>1, <2>2
  <1>5. f \notin D!FieldsGone /\ D!Of(f) \notin D!CollectionsGone
      BY <1>1, <1>4 DEF D!FieldsGone, D!CollectionsGone, Formed
  <1>6. f \in Cut
      BY <1>2, <1>3, <1>5, RelationsAfterFields
  <1>7. base.relation[f].to \in D!Deleted
      BY <1>3, <1>5, <1>6, DeletionsMade, GroupsApart
  <1> QED  BY <1>3, <1>4, <1>7, GroupsApart DEF D!DeletedTwice

(* The relations in the end. *)
RelationsLess == D!Restrict(RelationsKept, DOMAIN RelationsKept \ RelationsRest)
EditsMade == D!Restrict(after.relation, D!RelationsEdited)
RelationsEdits ==
    [f \in DOMAIN EditsMade |-> [EditsMade[f] EXCEPT !.to = RelationsLess[f].to]]
RelationsSet ==
    D!Over(D!Restrict(after.relation, D!RelationsNew), D!Over(RelationsEdits, RelationsLess))

LEMMA RelationChangesMade ==
    ASSUME Compared, known = base
    PROVE  LET s == D!Schema(GroupsSet, FieldsSet, RelationsKept) IN
           D!RelationChanges(s) =
             IF RelationsRest \cup D!RelationsEdited \subseteq DOMAIN RelationsKept
             THEN D!Schema(GroupsSet, FieldsSet, RelationsSet) ELSE D!Failed
  <1> DEFINE s == D!Schema(GroupsSet, FieldsSet, RelationsKept)
             less == D!Schema(GroupsSet, FieldsSet, RelationsLess)
             edited == D!Schema(GroupsSet, FieldsSet, D!Over(RelationsEdits, RelationsLess))
             made == D!Schema(GroupsSet, FieldsSet, RelationsSet)
  <1>1. Formed(base) /\ Formed(after)
      BY SchemaFormed DEF Compared
  <1>2. s.group = GroupsSet /\ s.fields = FieldsSet /\ s.relation = RelationsKept
      BY SchemaParts
  <1>3. D!RelationsDeleted(s, RelationsRest) = less
      BY RelationsDeletedBy DEF RelationsLess
  <1>4. D!RelationsUpdated(less, EditsMade) = edited
      BY RelationsUpdatedBy DEF RelationsEdits
  <1>5. D!RelationsCreated(edited, D!Restrict(after.relation, D!RelationsNew)) = made
      BY RelationsCreatedBy DEF RelationsSet
  <1>6. ASSUME NEW f \in D!RelationsNew
        PROVE  /\ f \in FieldsSet /\ f \notin DOMAIN RelationsKept
               /\ after.relation[f].to \in DOMAIN GroupsSet
    <2>1. f \in DOMAIN after.relation /\ f \notin DOMAIN base.relation
        BY <1>6 DEF D!RelationsNew
    <2>2. f \notin D!LostAliases
        BY <1>1, <2>1, AliasesLost DEF Formed
    <2>3. f \in FieldsSet
        BY <1>1, <2>1, <2>2, FieldChangesMade DEF Formed
    <2>4. after.relation[f].to \in DOMAIN after.group
        BY <1>1, <2>1 DEF Formed
    <2> QED  BY <2>1, <2>3, <2>4, RelationsAfterFields, RegroupingsMade
  <1> HIDE DEF s, less, edited, made
  <1>7. D!RelationChanges(s) =
          IF RelationsRest \cup D!RelationsEdited \subseteq DOMAIN RelationsKept
          THEN made ELSE D!Failed
      BY <1>2, <1>3, <1>4, <1>5, <1>6 DEF D!RelationChanges, D!If, RelationsRest, EditsMade
  <1> QED  BY <1>7 DEF s, made

LEMMA RelationsReached ==
    ASSUME Compared, known = base,
           RelationsRest \cup D!RelationsEdited \subseteq DOMAIN RelationsKept
    PROVE  /\ {f \in DOMAIN RelationsSet : D!Of(f) \notin D!Stranded} = DOMAIN after.relation
           /\ \A f \in DOMAIN after.relation :
                /\ RelationsSet[f].one = after.relation[f].one
                /\ RelationsSet[f].listed = after.relation[f].listed
                /\ RelationsSet[f].to # after.relation[f].to =>
                    f \in DOMAIN base.relation /\ RelationsSet[f].to = base.relation[f].to
  <1>1. Formed(base) /\ Formed(after)
      BY SchemaFormed DEF Compared
  <1>2. /\ DOMAIN RelationsKept = (DOMAIN base.relation \ Cut) \ D!FieldsGone
        /\ \A f \in DOMAIN RelationsKept : RelationsKept[f].to = base.relation[f].to
        /\ \A f \in DOMAIN RelationsKept \cap DOMAIN after.relation :
             base.relation[f] = after.relation[f] => RelationsKept[f] = base.relation[f]
      BY RelationsAfterFields
  <1>3. /\ DOMAIN RelationsLess = DOMAIN RelationsKept \ RelationsRest
        /\ \A f \in DOMAIN RelationsKept \ RelationsRest : RelationsLess[f] = RelationsKept[f]
      BY DEF RelationsLess, D!Restrict
  <1>4. /\ DOMAIN RelationsEdits = D!RelationsEdited
        /\ \A f \in D!RelationsEdited :
              RelationsEdits[f] = [after.relation[f] EXCEPT !.to = RelationsLess[f].to]
      BY DEF RelationsEdits, EditsMade, D!Restrict
  <1>5. /\ DOMAIN RelationsSet = D!RelationsNew \cup D!RelationsEdited \cup DOMAIN RelationsLess
        /\ \A f \in D!RelationsNew : RelationsSet[f] = after.relation[f]
        /\ \A f \in D!RelationsEdited \ D!RelationsNew : RelationsSet[f] = RelationsEdits[f]
        /\ \A f \in DOMAIN RelationsLess \ (D!RelationsNew \cup D!RelationsEdited) :
              RelationsSet[f] = RelationsLess[f]
      BY <1>4 DEF RelationsSet, D!Over, D!Restrict
  <1>6. /\ D!Deleted = D!CollectionsGone \ D!Stranded
        /\ D!Stranded \subseteq D!CollectionsGone
      BY GroupsApart
  <1>7. \A f \in DOMAIN base.relation :
          f \in Cut <=> D!Of(f) \in D!Deleted \/ base.relation[f].to \in D!Deleted
      BY DeletionsMade
  <1>8. \A f \in DOMAIN after.relation :
          /\ f \in after.fields
          /\ D!Of(f) \notin D!CollectionsGone /\ after.relation[f].to \notin D!CollectionsGone
      BY <1>1 DEF Formed, D!CollectionsGone
  <1>9. ASSUME NEW f \in DOMAIN RelationsSet, D!Of(f) \notin D!Stranded,
               f \notin DOMAIN after.relation
        PROVE  FALSE
    <2>1. f \in DOMAIN RelationsLess
        BY <1>5, <1>9 DEF D!RelationsNew, D!RelationsEdited
    <2>2. /\ f \in DOMAIN base.relation /\ f \notin Cut /\ f \notin D!FieldsGone
          /\ f \notin RelationsRest
        BY <1>2, <1>3, <2>1
    <2>3. D!Of(f) \notin D!CollectionsGone
        BY <1>6, <1>7, <1>9, <2>2
    <2> QED  BY <1>9, <2>2, <2>3 DEF RelationsRest, D!RelationsGone
  <1>10. ASSUME NEW f \in DOMAIN after.relation
         PROVE  /\ f \in DOMAIN RelationsSet /\ D!Of(f) \notin D!Stranded
                /\ RelationsSet[f].one = after.relation[f].one
                /\ RelationsSet[f].listed = after.relation[f].listed
                /\ RelationsSet[f].to # after.relation[f].to =>
                      f \in DOMAIN base.relation /\ RelationsSet[f].to = base.relation[f].to
    <2>1. D!Of(f) \notin D!Stranded
        BY <1>6, <1>8
    <2>2. CASE f \in D!RelationsNew
        BY <1>5, <2>1, <2>2
    <2>3. CASE f \in D!RelationsEdited
      <3>1. f \in DOMAIN base.relation /\ f \notin D!RelationsNew
          BY <2>3 DEF D!RelationsEdited, D!RelationsNew
      <3>2. f \in DOMAIN RelationsKept /\ f \notin RelationsRest
          BY <2>3 DEF RelationsRest, D!RelationsGone
      <3>3. RelationsLess[f].to = base.relation[f].to
          BY <1>2, <1>3, <3>2
      <3>4. RelationsSet[f] = [after.relation[f] EXCEPT !.to = base.relation[f].to]
          BY <1>4, <1>5, <2>3, <3>1, <3>3
      <3>5. after.relation[f] = [to |-> after.relation[f].to, one |-> after.relation[f].one,
                                 listed |-> after.relation[f].listed]
          BY <1>1 DEF Formed
      <3>6. RelationsSet[f] = [to |-> base.relation[f].to, one |-> after.relation[f].one,
                               listed |-> after.relation[f].listed]
          BY <3>4, <3>5
      <3> QED  BY <1>5, <2>1, <2>3, <3>1, <3>6
    <2>4. CASE f \notin D!RelationsNew \cup D!RelationsEdited
      <3>1. f \in DOMAIN base.relation /\ base.relation[f] = after.relation[f]
          BY <2>4 DEF D!RelationsEdited, D!RelationsNew
      <3>2. f \notin Cut /\ f \notin D!FieldsGone
          BY <1>6, <1>7, <1>8, <3>1 DEF D!FieldsGone
      <3>3. f \in DOMAIN RelationsKept /\ f \notin RelationsRest
          BY <1>2, <3>1, <3>2 DEF RelationsRest, D!RelationsGone
      <3>4. RelationsLess[f] = after.relation[f]
          BY <1>2, <1>3, <3>1, <3>3
      <3> QED  BY <1>3, <1>5, <2>1, <2>4, <3>3, <3>4
    <2> QED  BY <2>2, <2>3, <2>4
  <1> QED  BY <1>9, <1>10

(* The whole application. *)
LEMMA AppliedMade ==
    ASSUME Compared, known = base, db = base
    PROVE  D!Applied = IF RelationsRest \cup D!RelationsEdited \subseteq DOMAIN RelationsKept
                       THEN D!Schema(GroupsSet, FieldsSet, RelationsSet) ELSE D!Failed
  <1>1. D!Creations(db) = D!Schema(GroupsMade, FieldsMade, base.relation) /\ D!Ok(D!Creations(db))
      BY CreationsMade, SchemaParts
  <1>2. /\ D!Deletions(D!Creations(db)) = D!Schema(GroupsLeft, FieldsLeft, RelationsLeft)
        /\ D!Ok(D!Deletions(D!Creations(db)))
      BY DeletionsMade, SchemaParts
  <1> DEFINE grouped == D!Regroupings(D!Deletions(D!Creations(db)))
             fielded == D!FieldChanges(grouped)
  <1>3. grouped = D!Schema(GroupsSet, FieldsLeft, RelationsLeft) /\ D!Ok(grouped)
      BY <1>2, RegroupingsMade, SchemaParts
  <1>4. fielded = D!Schema(GroupsSet, FieldsSet, RelationsKept) /\ D!Ok(fielded)
      BY <1>3, FieldChangesMade, SchemaParts
  <1>5. D!RelationChanges(fielded) =
          IF RelationsRest \cup D!RelationsEdited \subseteq DOMAIN RelationsKept
          THEN D!Schema(GroupsSet, FieldsSet, RelationsSet) ELSE D!Failed
      BY <1>4, RelationChangesMade
  <1>6. D!Applied = D!RelationChanges(fielded)
      BY <1>1, <1>2, <1>3, <1>4, Zenon DEF D!Applied
  <1> QED  BY <1>5, <1>6

(* The difference applied to the schema it was made from gives the snapshot *)
(* or fails, as SnapshotReached says.                                       *)
LEMMA ApplyReaches ==
    ASSUME Compared, known = base, db = base, D!Apply
    PROVE  D!SnapshotReached'
  <1> DEFINE possible == RelationsRest \cup D!RelationsEdited \subseteq DOMAIN RelationsKept
             made == D!Schema(GroupsSet, FieldsSet, RelationsSet)
  <1>1. D!Ok(made) /\ ~D!Ok(D!Failed)
      BY SchemaParts DEF D!Ok
  <1>2. /\ base' = base /\ after' = after
        /\ IF D!Ok(D!Applied) THEN db' = D!Applied /\ phase' = "done" ELSE phase' = "failed"
      BY DEF D!Apply
  <1>3. /\ D!Stranded' = D!Stranded /\ D!LostAliases' = D!LostAliases
        /\ D!DeletedTwice' = D!DeletedTwice
      BY <1>2 DEF D!Stranded, D!LostAliases, D!DeletedTwice, D!CollectionsGone, D!FieldsGone
  <1>4. CASE possible
    <2>1. db' = made /\ phase' = "done"
        BY <1>1, <1>2, <1>4, AppliedMade
    <2>2. db'.group = GroupsSet /\ db'.fields = FieldsSet /\ db'.relation = RelationsSet
        BY <2>1, SchemaParts
    <2>3. /\ DOMAIN GroupsSet = DOMAIN after.group \cup D!Stranded
          /\ \A c \in DOMAIN after.group : GroupsSet[c] = after.group[c]
        BY RegroupingsMade
    <2>4. {f \in FieldsSet : D!Of(f) \notin D!Stranded} = after.fields \ D!LostAliases
        BY FieldChangesMade
    <2>5. /\ {f \in DOMAIN RelationsSet : D!Of(f) \notin D!Stranded} = DOMAIN after.relation
          /\ \A f \in DOMAIN after.relation :
               /\ RelationsSet[f].one = after.relation[f].one
               /\ RelationsSet[f].listed = after.relation[f].listed
               /\ RelationsSet[f].to # after.relation[f].to =>
                   f \in DOMAIN base.relation /\ RelationsSet[f].to = base.relation[f].to
        BY <1>4, RelationsReached
    <2> QED  BY <1>2, <1>3, <2>1, <2>2, <2>3, <2>4, <2>5 DEF D!SnapshotReached
  <1>5. CASE ~possible
    <2>1. phase' = "failed"
        BY <1>1, <1>2, <1>5, AppliedMade
    <2>2. D!DeletedTwice
        BY <1>5, RelationsMissing
    <2> QED  BY <1>3, <2>1, <2>2 DEF D!SnapshotReached
  <1> QED  BY <1>4, <1>5

(* A schema that is the snapshot already matches it. *)
LEMMA NothingToReach ==
    ASSUME base = after, db = after, phase # "failed"
    PROVE  D!SnapshotReached
  <1>1. /\ D!CollectionsGone = {} /\ D!FieldsGone = {}
      BY DEF D!CollectionsGone, D!FieldsGone
  <1>2. D!Stranded = {} /\ D!LostAliases = {}
      BY <1>1 DEF D!Stranded, D!Nested, D!LostAliases
  <1> QED  BY <1>2 DEF D!SnapshotReached

-----------------------------------------------------------------------------
(* Whatever the services do to a schema, in any order, leaves it sound.     *)

IsLink(r) == r = [to |-> r.to, one |-> r.one, listed |-> r.listed]

Typed(s) ==
    /\ s = D!Schema(s.group, s.fields, s.relation)
    /\ D!Sound(s)
    /\ \A f \in DOMAIN s.relation : IsLink(s.relation[f]) /\ \A c : f # D!Alias(c)

LEMMA SchemaIsTyped ==
    ASSUME NEW s \in D!Schemas
    PROVE  Typed(s)
  <1>1. Formed(s) /\ Shape(s)
      BY SchemaFormed, SchemaShape
  <1> QED  BY <1>1 DEF Formed, Shape, Typed, IsLink, D!Tidy

(* A schema of these parts has its type. *)
LEMMA TypedParts ==
    ASSUME NEW g, NEW fs, NEW rs,
           \A c \in DOMAIN g : g[c] \in DOMAIN g \cup {Ungrouped},
           \A f \in fs : D!Of(f) \in DOMAIN g,
           \A f \in DOMAIN rs : /\ f \in fs /\ rs[f].to \in DOMAIN g
                                /\ IsLink(rs[f]) /\ \A c : f # D!Alias(c)
    PROVE  Typed(D!Schema(g, fs, rs))
  <1> DEFINE s == D!Schema(g, fs, rs)
  <1>1. s.group = g /\ s.fields = fs /\ s.relation = rs
      BY SchemaParts
  <1>2. s = D!Schema(s.group, s.fields, s.relation)
      BY <1>1
  <1> HIDE DEF s
  <1>3. D!Sound(s)
      BY <1>1 DEF D!Sound
  <1>4. Typed(s)
      BY <1>1, <1>2, <1>3 DEF Typed
  <1> QED  BY <1>4 DEF s

LEMMA TypedAre ==
    ASSUME NEW s, Typed(s)
    PROVE  /\ \A c \in DOMAIN s.group : s.group[c] \in DOMAIN s.group \cup {Ungrouped}
           /\ \A f \in s.fields : D!Of(f) \in DOMAIN s.group
           /\ \A f \in DOMAIN s.relation :
                /\ f \in s.fields /\ s.relation[f].to \in DOMAIN s.group
                /\ IsLink(s.relation[f]) /\ \A c : f # D!Alias(c)
  BY DEF Typed, D!Sound

LEMMA CreationIsTyped ==
    ASSUME NEW d, Typed(d), NEW g, NEW fs,
           \A c \in DOMAIN g : g[c] \in DOMAIN g \cup DOMAIN d.group \cup {Ungrouped},
           \A f \in fs : D!Of(f) \in DOMAIN g
    PROVE  Typed(D!CollectionsCreated(d, g, fs))
  <1> DEFINE over == D!Over(g, d.group)
  <1>1. /\ DOMAIN over = DOMAIN g \cup DOMAIN d.group
        /\ \A c \in DOMAIN g : over[c] = g[c]
        /\ \A c \in DOMAIN d.group \ DOMAIN g : over[c] = d.group[c]
      BY DEF D!Over
  <1> HIDE DEF over
  <1>2. /\ \A c \in DOMAIN over : over[c] \in DOMAIN over \cup {Ungrouped}
        /\ \A f \in d.fields \cup fs : D!Of(f) \in DOMAIN over
        /\ \A f \in DOMAIN d.relation :
              /\ f \in d.fields \cup fs /\ d.relation[f].to \in DOMAIN over
              /\ IsLink(d.relation[f]) /\ \A c : f # D!Alias(c)
      BY <1>1, TypedAre
  <1>3. Typed(D!Schema(over, d.fields \cup fs, d.relation))
      BY <1>2, TypedParts
  <1> QED  BY <1>3 DEF over, D!CollectionsCreated

LEMMA RegroupingIsTyped ==
    ASSUME NEW d, Typed(d), NEW g,
           \A c \in DOMAIN g : g[c] \in DOMAIN g \cup DOMAIN d.group \cup {Ungrouped}
    PROVE  Typed(D!Regrouped(d, g))
  <1>1. D!CollectionsCreated(d, g, {}) = D!Regrouped(d, g)
      BY DEF D!CollectionsCreated, D!Regrouped
  <1> QED  BY <1>1, CreationIsTyped

LEMMA FieldsCreationIsTyped ==
    ASSUME NEW d, Typed(d), NEW fs, \A f \in fs : D!Of(f) \in DOMAIN d.group
    PROVE  Typed(D!FieldsCreated(d, fs))
  <1>1. /\ \A f \in d.fields \cup fs : D!Of(f) \in DOMAIN d.group
        /\ \A c \in DOMAIN d.group : d.group[c] \in DOMAIN d.group \cup {Ungrouped}
        /\ \A f \in DOMAIN d.relation :
              /\ f \in d.fields \cup fs /\ d.relation[f].to \in DOMAIN d.group
              /\ IsLink(d.relation[f]) /\ \A c : f # D!Alias(c)
      BY TypedAre
  <1> QED  BY <1>1, TypedParts DEF D!FieldsCreated

LEMMA RelationsDeletionIsTyped ==
    ASSUME NEW d, Typed(d), NEW fs
    PROVE  /\ Typed(D!RelationsDeleted(d, fs))
           /\ D!RelationsDeleted(d, fs).group = d.group
           /\ D!RelationsDeleted(d, fs).fields = d.fields
           /\ DOMAIN D!RelationsDeleted(d, fs).relation = DOMAIN d.relation \ fs
  <1> DEFINE left == D!Restrict(d.relation, DOMAIN d.relation \ fs)
  <1>1. /\ DOMAIN left = DOMAIN d.relation \ fs
        /\ \A f \in DOMAIN left : left[f] = d.relation[f]
      BY DEF D!Restrict
  <1> HIDE DEF left
  <1>2. /\ \A f \in d.fields : D!Of(f) \in DOMAIN d.group
        /\ \A c \in DOMAIN d.group : d.group[c] \in DOMAIN d.group \cup {Ungrouped}
        /\ \A f \in DOMAIN left :
              /\ f \in d.fields /\ left[f].to \in DOMAIN d.group
              /\ IsLink(left[f]) /\ \A c : f # D!Alias(c)
      BY <1>1, TypedAre
  <1>3. D!RelationsDeleted(d, fs) = D!Schema(d.group, d.fields, left)
      BY DEF D!RelationsDeleted, left
  <1> QED  BY <1>1, <1>2, <1>3, TypedParts, SchemaParts

LEMMA LinkListed ==
    ASSUME NEW r, IsLink(r), NEW v
    PROVE  /\ [r EXCEPT !.listed = v].to = r.to
           /\ IsLink([r EXCEPT !.listed = v])
  <1>1. PICK t, o, l : r = [to |-> t, one |-> o, listed |-> l]
      BY DEF IsLink
  <1>2. [r EXCEPT !.listed = v] = [to |-> t, one |-> o, listed |-> v]
      BY <1>1
  <1>3. r.to = t
      BY <1>1
  <1> QED  BY <1>2, <1>3 DEF IsLink

LEMMA LinkUnlisted ==
    ASSUME NEW r, IsLink(r)
    PROVE  /\ [r EXCEPT !.listed = FALSE].to = r.to
           /\ IsLink([r EXCEPT !.listed = FALSE])
  BY LinkListed, Zenon

(* Relations that are put over those of a schema. *)
LEMMA RelationsOverAreTyped ==
    ASSUME NEW d, Typed(d), NEW rs,
           \A f \in DOMAIN rs : /\ f \in d.fields /\ rs[f].to \in DOMAIN d.group
                                /\ IsLink(rs[f]) /\ \A c : f # D!Alias(c)
    PROVE  Typed(D!Schema(d.group, d.fields, D!Over(rs, d.relation)))
  <1> DEFINE over == D!Over(rs, d.relation)
  <1>1. /\ DOMAIN over = DOMAIN rs \cup DOMAIN d.relation
        /\ \A f \in DOMAIN rs : over[f] = rs[f]
        /\ \A f \in DOMAIN d.relation \ DOMAIN rs : over[f] = d.relation[f]
      BY DEF D!Over
  <1> HIDE DEF over
  <1>2. /\ \A f \in d.fields : D!Of(f) \in DOMAIN d.group
        /\ \A c \in DOMAIN d.group : d.group[c] \in DOMAIN d.group \cup {Ungrouped}
        /\ \A f \in DOMAIN over :
              /\ f \in d.fields /\ over[f].to \in DOMAIN d.group
              /\ IsLink(over[f]) /\ \A c : f # D!Alias(c)
      BY <1>1, TypedAre
  <1>3. Typed(D!Schema(d.group, d.fields, over))
      BY <1>2, TypedParts
  <1> QED  BY <1>3 DEF over

LEMMA RelationsUpdateIsTyped ==
    ASSUME NEW d, Typed(d), NEW rs,
           \A f \in DOMAIN rs : f \in DOMAIN d.relation /\ IsLink(rs[f])
    PROVE  Typed(D!RelationsUpdated(d, rs))
  <1> DEFINE edited == [f \in DOMAIN rs |-> [rs[f] EXCEPT !.to = d.relation[f].to]]
  <1>1. ASSUME NEW f \in DOMAIN edited
        PROVE  /\ f \in d.fields /\ edited[f].to \in DOMAIN d.group
               /\ IsLink(edited[f]) /\ \A c : f # D!Alias(c)
    <2>1. f \in DOMAIN d.relation /\ rs[f] = [to |-> rs[f].to, one |-> rs[f].one,
                                              listed |-> rs[f].listed]
        BY <1>1 DEF IsLink
    <2>2. edited[f] = [rs[f] EXCEPT !.to = d.relation[f].to]
        BY <1>1
    <2>3. edited[f] = [to |-> d.relation[f].to, one |-> rs[f].one, listed |-> rs[f].listed]
        BY <2>1, <2>2
    <2>4. edited[f].to = d.relation[f].to /\ IsLink(edited[f])
        BY <2>3 DEF IsLink
    <2> QED  BY <2>1, <2>4, TypedAre
  <1> HIDE DEF edited
  <1>2. Typed(D!Schema(d.group, d.fields, D!Over(edited, d.relation)))
      BY <1>1, RelationsOverAreTyped
  <1>3. D!RelationsUpdated(d, rs) = D!Schema(d.group, d.fields, D!Over(edited, d.relation))
      BY Zenon DEF D!RelationsUpdated, edited
  <1> QED  BY <1>2, <1>3

LEMMA FieldsDeletionIsTyped ==
    ASSUME NEW d, Typed(d), NEW fs
    PROVE  /\ Typed(D!FieldsDeleted(d, d.relation, fs))
           /\ D!FieldsDeleted(d, d.relation, fs).group = d.group
  <1> DEFINE rest == d.fields \ TakenWith(d.relation, fs)
             left == LeftWithout(d.relation, fs)
  <1>1. DOMAIN left = DOMAIN d.relation \ fs
      BY DEF LeftWithout
  <1>2. ASSUME NEW f \in DOMAIN left
        PROVE  /\ f \in rest /\ left[f].to \in DOMAIN d.group
               /\ IsLink(left[f]) /\ \A c : f # D!Alias(c)
    <2>1. /\ f \in d.fields /\ d.relation[f].to \in DOMAIN d.group
          /\ IsLink(d.relation[f]) /\ \A c : f # D!Alias(c)
          /\ f \in DOMAIN d.relation /\ f \notin fs
        BY <1>1, <1>2, TypedAre
    <2>2. f \in rest
      <3>1. ASSUME NEW h \in fs PROVE f \notin D!AliasShowing(d.relation, h)
          BY <2>1 DEF D!AliasShowing
      <3> QED  BY <2>1, <3>1 DEF TakenWith
    <2>3. left[f] = IF /\ d.relation[f].listed
                       /\ D!Alias(d.relation[f].to) \in TakenWith(d.relation, fs)
                    THEN [d.relation[f] EXCEPT !.listed = FALSE] ELSE d.relation[f]
        BY <1>1, <1>2 DEF LeftWithout
    <2>4. left[f].to = d.relation[f].to /\ IsLink(left[f])
        BY <2>1, <2>3, LinkUnlisted
    <2> QED  BY <2>1, <2>2, <2>4
  <1>3. /\ \A f \in rest : D!Of(f) \in DOMAIN d.group
        /\ \A c \in DOMAIN d.group : d.group[c] \in DOMAIN d.group \cup {Ungrouped}
      BY TypedAre
  <1>4. D!FieldsDeleted(d, d.relation, fs) = D!Schema(d.group, rest, left)
    <2>1. D!FieldsDeleted(D!Schema(d.group, d.fields, d.relation), d.relation, fs)
              = D!Schema(d.group, rest, left)
        BY FieldsDeletedBy
    <2> QED  BY <2>1 DEF Typed
  <1> HIDE DEF rest, left
  <1> QED  BY <1>2, <1>3, <1>4, TypedParts, SchemaParts

(* Applying a difference to any schema, also one that others have changed.  *)
LEMMA CreationsAreTyped ==
    ASSUME Typed(db), after \in D!Schemas, D!Ok(D!Creations(db))
    PROVE  Typed(D!Creations(db))
  <1> DEFINE groups == D!Restrict(after.group, D!Created)
             with == {f \in D!FieldsNew : D!Of(f) \in D!Created}
             made == D!CollectionsCreated(db, groups, with)
  <1>1. /\ DOMAIN groups = D!Created
        /\ \A c \in D!Created : groups[c] = after.group[c]
      BY DEF D!Restrict
  <1>2. /\ D!Creations(db) = made
        /\ \A c \in D!Created : after.group[c] \in DOMAIN made.group \cup {Ungrouped}
      BY DEF D!Creations, D!If, D!Ok
  <1>3. DOMAIN made.group = D!Created \cup DOMAIN db.group
      BY <1>1, SchemaParts DEF D!CollectionsCreated, D!Over
  <1>4. \A f \in with : D!Of(f) \in DOMAIN groups
      BY <1>1
  <1> HIDE DEF groups, with
  <1>5. Typed(made)
      BY <1>1, <1>2, <1>3, <1>4, CreationIsTyped
  <1> QED  BY <1>2, <1>5

LEMMA DeletionsAreTyped ==
    ASSUME NEW d, Typed(d), D!Ok(D!Deletions(d))
    PROVE  Typed(D!Deletions(d))
  <1> DEFINE rs == D!Restrict(known.relation, DOMAIN known.relation \ D!RelationsCut(D!Deleted))
             cut == D!RelationsDeleted(d, D!RelationsCut(D!Deleted))
             left == D!CollectionsDeleted(cut, rs, D!Deleted)
  <1>1. D!Deletions(d) = left /\ D!Sound(left)
      BY DEF D!Deletions, D!If, D!Ok
  <1>2. Typed(cut)
      BY RelationsDeletionIsTyped
  <1> HIDE DEF cut, rs
  <1>3. /\ left = D!Schema(left.group, left.fields, left.relation)
        /\ left.relation = D!Restrict(cut.relation,
                                      {f \in DOMAIN cut.relation : D!Of(f) \notin D!Deleted})
      BY SchemaParts DEF D!CollectionsDeleted
  <1>4. \A f \in DOMAIN left.relation :
          f \in DOMAIN cut.relation /\ left.relation[f] = cut.relation[f]
      BY <1>3 DEF D!Restrict
  <1> HIDE DEF left
  <1>5. Typed(left)
      BY <1>1, <1>2, <1>3, <1>4 DEF Typed
  <1> QED  BY <1>1, <1>5

LEMMA RegroupingsAreTyped ==
    ASSUME NEW d, Typed(d), D!Ok(D!Regroupings(d))
    PROVE  Typed(D!Regroupings(d))
  <1> DEFINE groups == D!Restrict(after.group, D!CollectionsEdited)
             left == D!Regrouped(d, groups)
  <1>1. /\ DOMAIN groups = D!CollectionsEdited
        /\ \A c \in D!CollectionsEdited : groups[c] = after.group[c]
      BY DEF D!Restrict
  <1>2. /\ D!Regroupings(d) = left
        /\ \A c \in D!CollectionsEdited : after.group[c] \in DOMAIN left.group \cup {Ungrouped}
      BY DEF D!Regroupings, D!If, D!Ok
  <1>3. DOMAIN left.group = D!CollectionsEdited \cup DOMAIN d.group
      BY <1>1, SchemaParts DEF D!Regrouped, D!Over
  <1> HIDE DEF groups
  <1>4. Typed(left)
      BY <1>1, <1>2, <1>3, RegroupingIsTyped
  <1> QED  BY <1>2, <1>4

LEMMA FieldChangesAreTyped ==
    ASSUME NEW d, Typed(d), D!Ok(D!FieldChanges(d))
    PROVE  Typed(D!FieldChanges(d))
  <1> DEFINE new == {f \in D!FieldsNew : D!Of(f) \notin D!Created}
             left == D!FieldsDeleted(d, d.relation, D!FieldsGone)
  <1>1. /\ D!FieldChanges(d) = D!FieldsCreated(left, new)
        /\ \A f \in new : D!Of(f) \in DOMAIN d.group
      BY DEF D!FieldChanges, D!If, D!Ok
  <1>2. Typed(left) /\ left.group = d.group
      BY FieldsDeletionIsTyped
  <1> HIDE DEF new, left
  <1> QED  BY <1>1, <1>2, FieldsCreationIsTyped

LEMMA RelationChangesAreTyped ==
    ASSUME NEW d, Typed(d), after \in D!Schemas, D!Ok(D!RelationChanges(d))
    PROVE  Typed(D!RelationChanges(d))
  <1> DEFINE gone == D!RelationsGone \ D!FieldsGone
             less == D!RelationsDeleted(d, gone)
             edits == D!Restrict(after.relation, D!RelationsEdited)
             left == D!RelationsUpdated(less, edits)
             new == D!Restrict(after.relation, D!RelationsNew)
  <1>1. /\ D!RelationChanges(d) = D!RelationsCreated(left, new)
        /\ gone \cup D!RelationsEdited \subseteq DOMAIN d.relation
        /\ D!RelationsNew \subseteq d.fields
        /\ \A f \in D!RelationsNew : after.relation[f].to \in DOMAIN d.group
      BY DEF D!RelationChanges, D!If, D!Ok
  <1>2. /\ Typed(less) /\ less.group = d.group /\ less.fields = d.fields
        /\ DOMAIN less.relation = DOMAIN d.relation \ gone
      BY RelationsDeletionIsTyped
  <1>3. Typed(after)
      BY SchemaIsTyped
  <1>4. ASSUME NEW f \in DOMAIN edits
        PROVE  f \in DOMAIN less.relation /\ IsLink(edits[f])
    <2>1. f \in D!RelationsEdited /\ edits[f] = after.relation[f] /\ f \in DOMAIN after.relation
        BY <1>4 DEF D!Restrict, D!RelationsEdited
    <2>2. f \notin gone
        BY <2>1 DEF D!RelationsGone
    <2> QED  BY <1>1, <1>2, <1>3, <2>1, <2>2, TypedAre
  <1>5. ASSUME NEW f \in DOMAIN new
        PROVE  /\ f \in d.fields /\ new[f].to \in DOMAIN d.group
               /\ IsLink(new[f]) /\ \A c : f # D!Alias(c)
    <2>1. f \in D!RelationsNew /\ new[f] = after.relation[f] /\ f \in DOMAIN after.relation
        BY <1>5 DEF D!Restrict, D!RelationsNew
    <2> QED  BY <1>1, <1>3, <2>1, TypedAre
  <1> HIDE DEF gone, less, edits, new
  <1>6. Typed(left)
      BY <1>2, <1>4, RelationsUpdateIsTyped
  <1>7. left.group = d.group /\ left.fields = d.fields
      BY <1>2, SchemaParts DEF D!RelationsUpdated
  <1> HIDE DEF left
  <1>8. Typed(D!Schema(left.group, left.fields, D!Over(new, left.relation)))
      BY <1>5, <1>6, <1>7, RelationsOverAreTyped
  <1> QED  BY <1>1, <1>8 DEF D!RelationsCreated

LEMMA AppliedIsTyped ==
    ASSUME Typed(db), after \in D!Schemas, D!Ok(D!Applied)
    PROVE  Typed(D!Applied)
  <1> DEFINE created == D!Creations(db)
             deleted == IF D!Ok(created) THEN D!Deletions(created) ELSE D!Failed
             grouped == IF D!Ok(deleted) THEN D!Regroupings(deleted) ELSE D!Failed
             fielded == IF D!Ok(grouped) THEN D!FieldChanges(grouped) ELSE D!Failed
  <1>1. ~D!Ok(D!Failed)
      BY DEF D!Ok
  <1>2. D!Applied = IF D!Ok(fielded) THEN D!RelationChanges(fielded) ELSE D!Failed
      BY DEF D!Applied
  <1>3. D!Ok(fielded) /\ D!Applied = D!RelationChanges(fielded)
      BY <1>1, <1>2
  <1>4. D!Ok(grouped) /\ fielded = D!FieldChanges(grouped)
      BY <1>1, <1>3
  <1>5. D!Ok(deleted) /\ grouped = D!Regroupings(deleted)
      BY <1>1, <1>4
  <1>6. D!Ok(created) /\ deleted = D!Deletions(created)
      BY <1>1, <1>5
  <1>7. Typed(created)
      BY <1>6, CreationsAreTyped
  <1> HIDE DEF created, deleted, grouped, fielded
  <1>8. Typed(deleted)
      BY <1>5, <1>6, <1>7, DeletionsAreTyped
  <1>9. Typed(grouped)
      BY <1>4, <1>5, <1>8, RegroupingsAreTyped
  <1>10. Typed(fielded)
      BY <1>3, <1>4, <1>9, FieldChangesAreTyped
  <1> QED  BY <1>3, <1>10, RelationChangesAreTyped

-----------------------------------------------------------------------------
(* The inductive invariant.                                                 *)
Fit ==
    /\ after \in D!Schemas /\ Typed(db)
    /\ phase \in D!Phases /\ changes \in 0..MaxChanges /\ unseen \in BOOLEAN
    /\ phase = "idle" => db \in D!Schemas
    /\ phase # "idle" => base \in D!Schemas
    /\ phase = "loaded" => Typed(known)
    /\ phase \in {"prompted", "checked", "loaded"} /\ ~unseen => db = base
    /\ phase = "loaded" /\ ~unseen => known = base

SnapshotsSafe == Fit /\ D!SnapshotReached

LEMMA SnapshotsInit ==
    ASSUME D!Init
    PROVE  SnapshotsSafe
  <1>1. Typed(db)
      BY SchemaIsTyped DEF D!Init
  <1>2. /\ after \in D!Schemas /\ db \in D!Schemas
        /\ phase = "idle" /\ phase \in D!Phases /\ changes \in 0..MaxChanges
      BY SnapshotsAssumption DEF D!Init, D!Phases
  <1>3. unseen \in BOOLEAN
      BY DEF D!Init
  <1>4. Fit
      BY <1>1, <1>2, <1>3 DEF Fit
  <1>5. D!SnapshotReached
      BY <1>2 DEF D!SnapshotReached
  <1> QED  BY <1>4, <1>5 DEF SnapshotsSafe

(* What does not read the schema or change it.                              *)
LEMMA CompareStep ==
    ASSUME SnapshotsSafe, D!Diff \/ D!Prompt
    PROVE  SnapshotsSafe'
  <1>1. /\ phase = "idle" /\ base' = db /\ db' = db /\ after' = after /\ changes' = changes
        /\ known' = known /\ unseen' = unseen
        /\ phase' \in {"done", "diffed", "prompted"}
        /\ phase' = "done" => base' = after
      BY DEF D!Diff, D!Prompt, D!UnchangedSchema, D!NothingDiffers
  <1>2. Fit'
      BY <1>1 DEF SnapshotsSafe, Fit, D!Phases, Typed
  <1>3. D!SnapshotReached'
    <2>1. CASE phase' = "done"
      <3>1. base' = after' /\ db' = after' /\ phase' # "failed"
          BY <1>1, <2>1
      <3>2. (base = after /\ db = after /\ phase # "failed" => D!SnapshotReached)'
          BY NothingToReach, PTL
      <3> QED  BY <3>1, <3>2
    <2>2. CASE phase' # "done"
        BY <1>1, <2>2 DEF D!SnapshotReached
    <2> QED  BY <2>1, <2>2
  <1> QED  BY <1>2, <1>3 DEF SnapshotsSafe

LEMMA CheckStep ==
    ASSUME SnapshotsSafe, D!Validate \/ D!ReadSchema
    PROVE  SnapshotsSafe'
  <1>1. /\ db' = db /\ after' = after /\ changes' = changes /\ base' = base /\ unseen' = unseen
        /\ phase # "idle"
      BY DEF D!Validate, D!ReadSchema, D!UnchangedSchema
  <1>2. phase' \in D!Phases \ {"idle", "done", "failed"}
      BY DEF D!Validate, D!ReadSchema, D!Phases
  <1>3. D!SnapshotReached'
      BY <1>2 DEF D!SnapshotReached
  <1>4. phase' \in {"prompted", "checked", "loaded"} /\ ~unseen => db = base
      BY DEF D!Validate, D!ReadSchema, SnapshotsSafe, Fit
  <1>5. phase' = "loaded" => known' = db
      BY DEF D!Validate, D!ReadSchema
  <1>6. Fit'
      BY <1>1, <1>2, <1>4, <1>5 DEF SnapshotsSafe, Fit, Typed
  <1> QED  BY <1>3, <1>6 DEF SnapshotsSafe

LEMMA ApplyStep ==
    ASSUME SnapshotsSafe, D!Apply
    PROVE  SnapshotsSafe'
  <1>1. /\ phase = "loaded" /\ phase' \in {"done", "failed"}
        /\ db' = IF D!Ok(D!Applied) THEN D!Applied ELSE db
        /\ after' = after /\ base' = base /\ known' = known /\ changes' = changes
        /\ unseen' = unseen
      BY DEF D!Apply
  <1>2. Typed(db')
      BY <1>1, AppliedIsTyped DEF SnapshotsSafe, Fit
  <1>3. Fit'
      BY <1>1, <1>2 DEF SnapshotsSafe, Fit, D!Phases, Typed
  <1>4. CASE unseen
    <2>1. unseen'
        BY <1>1, <1>4
    <2>2. D!SnapshotReached'
        BY <2>1 DEF D!SnapshotReached
    <2> QED  BY <1>3, <2>2 DEF SnapshotsSafe
  <1>5. CASE ~unseen
    <2>1. Compared /\ known = base /\ db = base
        BY <1>1, <1>5 DEF SnapshotsSafe, Fit, Compared
    <2> QED  BY <1>3, <2>1, ApplyReaches DEF SnapshotsSafe
  <1> QED  BY <1>4, <1>5

(* Requests of others.                                                      *)
LEMMA ChangedStep ==
    ASSUME SnapshotsSafe, NEW d, Typed(d), D!Change(d)
    PROVE  SnapshotsSafe'
  <1>1. /\ phase \in {"diffed", "prompted", "checked", "loaded"} /\ phase' = phase
        /\ db' = d /\ changes < MaxChanges /\ changes' = changes + 1
        /\ unseen' = (unseen \/ phase # "diffed")
        /\ after' = after /\ base' = base /\ known' = known
      BY DEF D!Change
  <1>2. phase = "diffed" \/ unseen'
      BY <1>1
  <1>3. unseen' \in BOOLEAN
      BY <1>1
  <1>4. changes' \in 0..MaxChanges
      BY <1>1, SnapshotsAssumption DEF SnapshotsSafe, Fit
  <1>5. Typed(db')
      BY <1>1
  <1>6. Fit'
      BY <1>1, <1>2, <1>3, <1>4, <1>5 DEF SnapshotsSafe, Fit, Typed
  <1>7. D!SnapshotReached'
      BY <1>1 DEF D!SnapshotReached
  <1> QED  BY <1>6, <1>7 DEF SnapshotsSafe

LEMMA OnlyIs ==
    ASSUME NEW x, NEW v
    PROVE  DOMAIN D!Only(x, v) = {x} /\ D!Only(x, v)[x] = v
  BY DEF D!Only

LEMMA CollectionDeletionIsTyped ==
    ASSUME NEW d, Typed(d), NEW c,
           \A f \in DOMAIN d.relation : d.relation[f].to = c => D!Of(f) = c
    PROVE  Typed(D!CollectionsDeleted(d, d.relation, {c}))
  <1> DEFINE shown == UNION {D!AliasShowing(d.relation, f) :
                                f \in {h \in DOMAIN d.relation : D!Of(h) \in {c}}}
             fields == d.fields \ ({f \in d.fields : D!Of(f) \in {c}} \cup shown)
             groups == GroupsWithout(d.group, {c})
             relations == RelationsWithout(d.relation, {c})
  <1>1. D!CollectionsDeleted(d, d.relation, {c}) = D!Schema(groups, fields, relations)
      BY Zenon DEF D!CollectionsDeleted, GroupsWithout, RelationsWithout
  <1>2. /\ DOMAIN groups = DOMAIN d.group \ {c}
        /\ \A x \in DOMAIN groups : groups[x] = IF d.group[x] = c THEN Ungrouped ELSE d.group[x]
      BY DEF GroupsWithout
  <1>3. \A x \in DOMAIN groups : groups[x] \in DOMAIN groups \cup {Ungrouped}
      BY <1>2, TypedAre
  <1>4. \A f \in fields : D!Of(f) \in DOMAIN groups
      BY <1>2, TypedAre
  <1>5. \A f \in DOMAIN relations :
          f \in DOMAIN d.relation /\ D!Of(f) # c /\ relations[f] = d.relation[f]
      BY DEF RelationsWithout, D!Restrict
  <1>6. ASSUME NEW f \in DOMAIN relations
        PROVE  /\ f \in fields /\ relations[f].to \in DOMAIN groups
               /\ IsLink(relations[f]) /\ \A a : f # D!Alias(a)
    <2>1. /\ f \in d.fields /\ d.relation[f].to \in DOMAIN d.group
          /\ IsLink(d.relation[f]) /\ \A a : f # D!Alias(a)
        BY <1>5, TypedAre
    <2>2. f \notin shown
        BY <2>1 DEF D!AliasShowing
    <2> QED  BY <1>2, <1>5, <2>1, <2>2
  <1> HIDE DEF groups, fields, relations
  <1> QED  BY <1>1, <1>3, <1>4, <1>6, TypedParts

LEMMA RequestsStep ==
    ASSUME SnapshotsSafe,
           \/ D!CreateCollection \/ D!DeleteCollection \/ D!Regroup \/ D!CreateField
           \/ D!DeleteField \/ D!CreateRelation \/ D!UpdateRelation \/ D!DeleteRelation
    PROVE  SnapshotsSafe'
  <1>1. Typed(db)
      BY DEF SnapshotsSafe, Fit
  <1>2. CASE D!CreateCollection
    <2>1. PICK c : D!Change(D!CollectionsCreated(db, D!Only(c, Ungrouped), {}))
        BY <1>2 DEF D!CreateCollection
    <2> DEFINE new == D!Only(c, Ungrouped)
    <2>2. DOMAIN new = {c} /\ new[c] = Ungrouped
        BY OnlyIs
    <2> HIDE DEF new
    <2>3. Typed(D!CollectionsCreated(db, new, {}))
        BY <1>1, <2>2, CreationIsTyped
    <2> QED  BY <2>1, <2>3, ChangedStep DEF new
  <1>3. CASE D!DeleteCollection
    <2>1. PICK c : /\ \A f \in DOMAIN db.relation : db.relation[f].to = c => D!Of(f) = c
                   /\ D!Change(D!CollectionsDeleted(db, db.relation, {c}))
        BY <1>3 DEF D!DeleteCollection
    <2> QED  BY <1>1, <2>1, CollectionDeletionIsTyped, ChangedStep
  <1>4. CASE D!Regroup
    <2>1. PICK c \in DOMAIN db.group, g \in DOMAIN db.group \cup {Ungrouped} :
              D!Change(D!Regrouped(db, D!Only(c, g)))
        BY <1>4 DEF D!Regroup
    <2> DEFINE new == D!Only(c, g)
    <2>2. DOMAIN new = {c} /\ new[c] = g
        BY OnlyIs
    <2> HIDE DEF new
    <2>3. Typed(D!Regrouped(db, new))
        BY <1>1, <2>2, RegroupingIsTyped
    <2> QED  BY <2>1, <2>3, ChangedStep DEF new
  <1>5. CASE D!CreateField
    <2>1. PICK f : D!Of(f) \in DOMAIN db.group /\ D!Change(D!FieldsCreated(db, {f}))
        BY <1>5 DEF D!CreateField
    <2>2. Typed(D!FieldsCreated(db, {f}))
        BY <1>1, <2>1, FieldsCreationIsTyped
    <2> QED  BY <2>1, <2>2, ChangedStep
  <1>6. CASE D!DeleteField
    <2>1. PICK f : D!Change(D!FieldsDeleted(db, db.relation, {f}))
        BY <1>6 DEF D!DeleteField
    <2> QED  BY <1>1, <2>1, FieldsDeletionIsTyped, ChangedStep
  <1>7. CASE D!CreateRelation
    <2>1. PICK c \in WithColumn, t \in DOMAIN db.group :
              /\ D!Column(c) \in db.fields
              /\ D!Change(D!RelationsCreated(db, D!Only(D!Column(c), D!Relation(t, FALSE))))
        BY <1>7 DEF D!CreateRelation
    <2> DEFINE new == D!Only(D!Column(c), D!Relation(t, FALSE))
    <2>2. D!Relation(t, FALSE).to = t /\ IsLink(D!Relation(t, FALSE))
        BY DEF D!Relation, IsLink
    <2>3. \A a : D!Column(c) # D!Alias(a)
        BY DEF D!Column, D!Alias
    <2>4. DOMAIN new = {D!Column(c)} /\ new[D!Column(c)] = D!Relation(t, FALSE)
        BY OnlyIs
    <2> HIDE DEF new
    <2>5. Typed(D!Schema(db.group, db.fields, D!Over(new, db.relation)))
        BY <1>1, <2>1, <2>2, <2>3, <2>4, RelationsOverAreTyped
    <2>6. Typed(D!RelationsCreated(db, new))
        BY <2>5 DEF D!RelationsCreated
    <2> QED  BY <2>1, <2>6, ChangedStep DEF new
  <1>8. CASE D!UpdateRelation
    <2>1. PICK f \in DOMAIN db.relation :
              D!Change(D!RelationsUpdated(db,
                  D!Only(f, [db.relation[f] EXCEPT !.listed = ~db.relation[f].listed])))
        BY <1>8, Zenon DEF D!UpdateRelation
    <2> DEFINE edit == [db.relation[f] EXCEPT !.listed = ~db.relation[f].listed]
               new == D!Only(f, edit)
    <2>2. IsLink(edit)
        BY <1>1, TypedAre, LinkListed, Zenon
    <2> HIDE DEF edit
    <2>3. DOMAIN new = {f} /\ new[f] = edit
        BY OnlyIs
    <2> HIDE DEF new
    <2>4. Typed(D!RelationsUpdated(db, new))
        BY <1>1, <2>2, <2>3, RelationsUpdateIsTyped
    <2> QED  BY <2>1, <2>4, ChangedStep DEF edit, new
  <1>9. CASE D!DeleteRelation
    <2>1. PICK f : D!Change(D!RelationsDeleted(db, {f}))
        BY <1>9 DEF D!DeleteRelation
    <2> QED  BY <1>1, <2>1, RelationsDeletionIsTyped, ChangedStep
  <1> QED  BY <1>2, <1>3, <1>4, <1>5, <1>6, <1>7, <1>8, <1>9

LEMMA SnapshotsSteps ==
    ASSUME SnapshotsSafe, [D!Next]_(D!vars)
    PROVE  SnapshotsSafe'
  <1>1. CASE D!Diff \/ D!Prompt
      BY <1>1, CompareStep
  <1>2. CASE D!Validate \/ D!ReadSchema
      BY <1>2, CheckStep
  <1>3. CASE D!Apply
      BY <1>3, ApplyStep
  <1>4. CASE \/ D!CreateCollection \/ D!DeleteCollection \/ D!Regroup \/ D!CreateField
             \/ D!DeleteField \/ D!CreateRelation \/ D!UpdateRelation \/ D!DeleteRelation
      BY <1>4, RequestsStep
  <1>5. CASE UNCHANGED D!vars
    <2>1. /\ db' = db /\ after' = after /\ base' = base /\ known' = known /\ phase' = phase
          /\ changes' = changes /\ unseen' = unseen
        BY <1>5 DEF D!vars
    <2>2. Fit'
        BY <2>1 DEF SnapshotsSafe, Fit, Typed
    <2>3. /\ D!Stranded' = D!Stranded /\ D!LostAliases' = D!LostAliases
          /\ D!DeletedTwice' = D!DeletedTwice
        BY <2>1 DEF D!Stranded, D!LostAliases, D!DeletedTwice, D!CollectionsGone, D!FieldsGone
    <2>4. D!SnapshotReached'
        BY <2>1, <2>3 DEF SnapshotsSafe, D!SnapshotReached
    <2> QED  BY <2>2, <2>4 DEF SnapshotsSafe
  <1> QED  BY <1>1, <1>2, <1>3, <1>4, <1>5 DEF D!Next

LEMMA SnapshotsNext ==
    ASSUME [Next]_vars
    PROVE  /\ part' = part
           /\ part = "snapshots" => [D!Next]_(D!vars)
  BY DEF Next, vars, ofSnapshots, D!vars

SnapshotsInv == part = "snapshots" => SnapshotsSafe

(* The invariant holds however others change the schema meanwhile.          *)
THEOREM SnapshotsInvariance == Spec => []SnapshotsInv
  <1>1. Init => SnapshotsInv
    BY SnapshotsInit DEF Init, SnapshotsInv
  <1>2. SnapshotsInv /\ [Next]_vars => SnapshotsInv'
    BY SnapshotsSteps, SnapshotsNext DEF SnapshotsInv
  <1> QED BY <1>1, <1>2, PTL DEF Spec

(* A difference that is applied to the schema it was made from makes it     *)
(* match the snapshot, for any two schemas and however their collections    *)
(* nest, but for what SnapshotReached names.                                *)
THEOREM SnapshotStaysReached == Spec => []SnapshotReached
  <1>1. SnapshotsInv => SnapshotReached
    BY DEF SnapshotsInv, SnapshotsSafe, SnapshotReached
  <1> QED BY <1>1, SnapshotsInvariance, PTL

(* The schema stays sound, whatever is applied and whatever others do.      *)
THEOREM SchemaStaysSound == Spec => [](part = "snapshots" => D!TypeOK)
  <1>1. SnapshotsInv => (part = "snapshots" => D!TypeOK)
    BY SchemaIsTyped DEF SnapshotsInv, SnapshotsSafe, Fit, Typed, D!TypeOK
  <1> QED BY <1>1, SnapshotsInvariance, PTL
==============================================================================
