---------------------------- MODULE RelationEdits ----------------------------
(***************************************************************************)
(* The children of an item, as a page of the app stages their changes      *)
(* (app/src/composables/use-relation-multiple.ts, a one-to-many relation), *)
(* sends them when the item is saved (use-item.ts), and the API applies    *)
(* them (processO2M of services/payload.ts).  What is staged are three     *)
(* lists; the page refers to their entries by index, which other changes   *)
(* shift.                                                                  *)
(***************************************************************************)
EXTENDS SequencesExt

CONSTANTS Keys,      (* primary keys of the related rows                        *)
          Values,    (* of the one field that is edited                         *)
          MaxSaves,  (* bound: how many saves are under way at a time           *)
          Same,      (* an edit without a value                                 *)
          Missing    (* no row                                                  *)

VARIABLES rows,      (* key -> Missing, or whether it is a child of the item,   *)
                     (* and its value                                           *)
          staged,    (* the create, update and delete lists                     *)
          fetched,   (* keys of the children the page has fetched               *)
          withItem,  (* their reference to the item is among the fields shown   *)
          saves,     (* how many were applied and not answered                  *)
          want,      (* history: key -> what the user asked for it last         *)
          dropped,   (* history: keys of which the page dropped that since      *)
          sent,      (* history: what was asked when the request was sent       *)
          again,     (* history: saved again while a save was under way         *)
          muddled    (* history: an edit was taken back by the wrong index, or  *)
                     (* a row selected that has an entry already                *)

asks == <<want, dropped, sent>>
page == <<staged, fetched, withItem>>
vars == <<rows, page, saves, asks, again, muddled>>

Row(here, v) == [here |-> here, value |-> v]
Rows == [here : BOOLEAN, value : Values]

(* attach: the reference to the item is part of the edit (the child was     *)
(* selected from other rows).                                               *)
Edit(i, v, attach) == [item |-> i, value |-> v, attach |-> attach]
Edits == [item : Keys, value : Values \cup {Same}, attach : BOOLEAN]

Lists == [create : Seq(Edits), update : Seq(Edits), delete : Seq(Keys)]
NoChanges == [create |-> <<>>, update |-> <<>>, delete |-> <<>>]

Ask(link, v) == [link |-> link, value |-> v]
Nothing == Ask("as is", Same)
Asks == [link : {"as is", "linked", "unlinked", "created"}, value : Values \cup {Same}]

TypeOK ==
    /\ rows \in [Keys -> Rows \cup {Missing}]
    /\ staged \in Lists
    /\ fetched \subseteq Keys /\ withItem \in BOOLEAN
    /\ saves \in 0..MaxSaves
    /\ want \in [Keys -> Asks] /\ sent \in [Keys -> Asks]
    /\ dropped \subseteq Keys
    /\ again \in BOOLEAN /\ muddled \in BOOLEAN

IsChild(i) == rows[i] # Missing /\ rows[i].here

Init ==
    /\ rows \in [Keys -> Rows \cup {Missing}]
    /\ staged = NoChanges
    /\ fetched = {i \in Keys : IsChild(i)}
    /\ withItem \in BOOLEAN
    /\ saves = 0
    /\ want = [i \in Keys |-> Nothing] /\ sent = want
    /\ dropped = {}
    /\ again = FALSE /\ muddled = FALSE

-----------------------------------------------------------------------------
(* displayItems                                                             *)

(* The index of the entry of a key; 0 stands for -1.                        *)
Indexes(entries, i) == {n \in DOMAIN entries : entries[n].item = i}
First(ns) == IF ns = {} THEN 0 ELSE Min(ns)

UpdateOf(i) == First(Indexes(staged.update, i))
DeleteOf(i) == First({n \in DOMAIN staged.delete : staged.delete[n] = i})

Shown(i, type, index, edits) == [item |-> i, type |-> type, index |-> index, edits |-> edits]

Displayed ==
    {Shown(i, IF DeleteOf(i) # 0 THEN "deleted" ELSE IF UpdateOf(i) # 0 THEN "updated" ELSE "none",
           IF DeleteOf(i) # 0 THEN DeleteOf(i) ELSE UpdateOf(i), UpdateOf(i)) : i \in fetched}
    \cup {Shown(staged.update[n].item, "updated", n, 0) :
            n \in {m \in DOMAIN staged.update : staged.update[m].attach}}
    \cup {Shown(staged.create[n].item, "created", n, 0) : n \in DOMAIN staged.create}

(* getItemEdits: the entry a displayed item has, if it has one              *)
Entry(d) ==
    CASE d.type = "created" -> staged.create[d.index]
      [] d.type = "updated" -> staged.update[d.index]
      [] d.type = "deleted" /\ d.edits # 0 -> staged.update[d.edits]
      [] OTHER -> Edit(d.item, Same, FALSE)

-----------------------------------------------------------------------------
(* What the user does.                                                      *)

StageEdits(edits) == staged' = [staged EXCEPT !.update = edits]

(* What the page is still asked: of a row it dropped, nothing.              *)
Asked == [i \in Keys |-> IF i \in dropped THEN Nothing ELSE want[i]]

Want(i, a) ==
    /\ want' = [want EXCEPT ![i] = a]
    /\ dropped' = dropped \ {i}

(* What a change of what is staged leaves alone.                            *)
elsewhere == <<rows, fetched, withItem, saves, sent, again>>

(* A row that is created gets a key that nothing refers to.                 *)
Create(i) ==
    /\ rows[i] = Missing
    /\ \A d \in Displayed : d.item # i
    /\ UpdateOf(i) = 0 /\ DeleteOf(i) = 0
    /\ \E v \in Values :
        /\ staged' = [staged EXCEPT !.create = Append(@, Edit(i, v, FALSE))]
        /\ Want(i, Ask("created", v))
    /\ UNCHANGED <<elsewhere, muddled>>

(* The drawer saves the edits of an item: with a value, or without.         *)
UpdateCreated(d) ==
    /\ d.type = "created"
    /\ \E v \in Values :
        /\ staged' = [staged EXCEPT !.create[d.index] = Edit(d.item, v, FALSE)]
        /\ Want(d.item, Ask("created", v))
    /\ UNCHANGED <<elsewhere, muddled>>

(* One that has no entry gets one, also one that is to be removed.          *)
UpdateFirst(d) ==
    /\ d.type = "none" \/ (d.type = "deleted" /\ d.edits = 0)
    /\ \E v \in Values \cup {Same} :
        /\ StageEdits(Append(staged.update, Edit(d.item, v, FALSE)))
        /\ Want(d.item, Ask(IF d.type = "none" THEN "linked" ELSE "unlinked", v))
    /\ UNCHANGED <<elsewhere, muddled>>

(* An entry that says nothing any more is removed: of an item that is to be *)
(* removed itself, by its index in the wrong list.                          *)
UpdateAgain(d) ==
    LET n == IF d.type = "deleted" THEN d.edits ELSE d.index
        attach == Entry(d).attach
    IN
    /\ d.type = "updated" \/ (d.type = "deleted" /\ d.edits # 0)
    /\ \E v \in Values \cup {Same} :
        IF v = Same /\ ~attach
        THEN /\ StageEdits(IF d.index <= Len(staged.update) THEN RemoveAt(staged.update, d.index)
                           ELSE staged.update)
             /\ Want(d.item, Ask(IF d.type = "deleted" THEN "unlinked" ELSE "as is", Same))
             /\ muddled' = (muddled \/ d.index # n)
        ELSE /\ StageEdits([staged.update EXCEPT ![n] = Edit(d.item, v, attach)])
             /\ Want(d.item, Ask(IF d.type = "deleted" THEN "unlinked" ELSE "linked", v))
             /\ UNCHANGED muddled
    /\ UNCHANGED elsewhere

(* remove(): what was created or selected is forgotten, ...                 *)
Drop(d) ==
    /\ \/ /\ d.type = "created"
          /\ staged' = [staged EXCEPT !.create = RemoveAt(@, d.index)]
       \/ /\ d.type = "updated" /\ Entry(d).attach
          /\ StageEdits(RemoveAt(staged.update, d.index))
    /\ Want(d.item, Nothing)
    /\ UNCHANGED <<elsewhere, muddled>>

(* ... another child is to be removed, ...                                  *)
StageRemoval(d) ==
    /\ d.type = "none" \/ (d.type = "updated" /\ ~Entry(d).attach /\ ~withItem)
    /\ staged' = [staged EXCEPT !.delete = Append(@, d.item)]
    /\ Want(d.item, Ask("unlinked", Asked[d.item].value))
    /\ UNCHANGED <<elsewhere, muddled>>

(* ... but one that was edited and shows its reference to the item passes   *)
(* for selected: its edits are forgotten, and it is not to be removed, ...  *)
TakeBack(d) ==
    /\ d.type = "updated" /\ ~Entry(d).attach /\ withItem
    /\ StageEdits(RemoveAt(staged.update, d.index))
    /\ want' = [want EXCEPT ![d.item] = Ask("unlinked", @.value)]
    /\ dropped' = dropped \cup {d.item}
    /\ UNCHANGED <<elsewhere, muddled>>

(* Mutation: an item that was edited is put back by the index of its edits. *)
PutBackByEdits(d) ==
    LET n == IF d.edits # 0 THEN d.edits ELSE d.index IN
    /\ d.type = "deleted"
    /\ staged' = [staged EXCEPT !.delete = IF n <= Len(@) THEN RemoveAt(@, n) ELSE @]
    /\ Want(d.item, Ask(IF d.edits # 0 THEN "linked" ELSE "as is", Asked[d.item].value))
    /\ UNCHANGED <<elsewhere, muddled>>

(* ... and one that is to be removed stays after all.                       *)
PutBack(d) ==
    /\ d.type = "deleted"
    /\ staged' = [staged EXCEPT !.delete = RemoveAt(@, d.index)]
    /\ Want(d.item, Ask(IF d.edits # 0 THEN "linked" ELSE "as is", Asked[d.item].value))
    /\ UNCHANGED <<elsewhere, muddled>>

(* select(), of a row that is not a child when the list to select from is   *)
(* loaded, and not selected before                                          *)
Select(i) ==
    /\ rows[i] # Missing /\ ~rows[i].here
    /\ \A n \in DOMAIN staged.update : staged.update[n].attach => staged.update[n].item # i
    /\ StageEdits(Append(staged.update, Edit(i, Same, TRUE)))
    /\ Want(i, Ask("linked", Same))
    /\ muddled' = (muddled \/ UpdateOf(i) # 0 \/ DeleteOf(i) # 0)
    /\ UNCHANGED elsewhere

(* updateFetchedItems: after a save, for another page, filter or order      *)
Fetch ==
    /\ fetched' = {i \in Keys : IsChild(i)}
    /\ UNCHANGED <<rows, staged, withItem, saves, asks, again, muddled>>

-----------------------------------------------------------------------------
(* Saving.                                                                  *)

(* The value that the entries give a row: that of the last which has one.   *)
LastValue(entries, i, v) ==
    LET ns == {n \in Indexes(entries, i) : entries[n].value # Same}
    IN  IF ns = {} THEN v ELSE entries[Max(ns)].value

(* attachToParent makes a child of every row that is updated.               *)
UpdateRow(r, entries, i) ==
    IF r = Missing \/ Indexes(entries, i) = {} THEN r ELSE Row(TRUE, LastValue(entries, i, r.value))

(* processO2M: creations, updates and then removals of what is a child, in  *)
(* one transaction.                                                         *)
Processed(lists) ==
    LET created(i) == IF Indexes(lists.create, i) = {} THEN rows[i]
                      ELSE Row(TRUE, LastValue(lists.create, i, Same))
        updated(i) == UpdateRow(created(i), lists.update, i)
    IN [i \in Keys |-> IF i \in Range(lists.delete) /\ updated(i) # Missing
                        THEN [updated(i) EXCEPT !.here = FALSE] ELSE updated(i)]

(* Nothing keeps the user from saving again, or from editing, before the    *)
(* answer.  A request that fails changes nothing, here or there.            *)
Save ==
    /\ staged # NoChanges
    /\ saves < MaxSaves
    /\ saves' = saves + 1
    /\ again' = (again \/ saves > 0)
    /\ rows' = Processed(staged)
    /\ sent' = Asked
    /\ UNCHANGED <<page, want, dropped, muddled>>

(* The answer resets the edits of the page, whatever they are by now: what  *)
(* was asked since the request was sent is dropped.                         *)
Answered ==
    /\ saves > 0
    /\ saves' = saves - 1
    /\ staged' = NoChanges
    /\ dropped' = dropped \cup {i \in Keys : Asked[i] # sent[i]}
    /\ want' = [i \in Keys |-> IF i \in dropped' THEN want[i] ELSE Nothing]
    /\ sent' = [i \in Keys |-> Nothing]
    /\ again' = (again /\ saves' > 0)
    /\ muddled' = FALSE
    /\ UNCHANGED <<rows, fetched, withItem>>

-----------------------------------------------------------------------------

(* Other users move a row to this item or away, or delete it.  (A change    *)
(* that comes between a save and its answer could as well come after the    *)
(* answer, which drops what the page has staged in between.)                *)
Elsewhere(i) ==
    /\ rows[i] # Missing
    /\ saves = 0
    /\ \E r \in {Row(~rows[i].here, rows[i].value), Missing} : rows' = [rows EXCEPT ![i] = r]
    /\ UNCHANGED <<page, saves, asks, again, muddled>>

Next ==
    \/ \E i \in Keys : Create(i) \/ Select(i) \/ Elsewhere(i)
    \/ \E d \in Displayed : UpdateCreated(d) \/ UpdateFirst(d) \/ UpdateAgain(d)
                         \/ Drop(d) \/ StageRemoval(d) \/ TakeBack(d) \/ PutBack(d)
    \/ Fetch \/ Save \/ Answered

Spec == Init /\ [][Next]_vars

-----------------------------------------------------------------------------

(* What becomes of a row of which the user asked a. *)
Wanted(r, a) ==
    LET v == IF a.value # Same \/ r = Missing THEN a.value ELSE r.value IN
    IF a.link = "created" THEN Row(TRUE, v)
    ELSE IF r = Missing THEN Missing
    ELSE Row(IF a.link = "as is" THEN r.here ELSE a.link = "linked", v)

SavedAsAsked ==
    Save => \A i \in Keys :
        \/ again' \/ muddled
        \/ i \in dropped /\ rows'[i] = rows[i]
        \/ /\ i \notin dropped
           /\ rows'[i] = Wanted(rows[i], want[i])
           /\ want[i].link = "created" => rows[i] = Missing

(* A save gives every row what the user last asked for it on the page when  *)
(* the request was sent, and leaves all others alone; it creates a row once. *)
(* The exceptions are:                                                      *)
(* - dropped: what was asked after a request was sent and before it was     *)
(*   answered (use-item.ts:161), and the removal of an edited child that    *)
(*   passes for selected, leave the row as it is;                           *)
(* - again: a save while another is under way;                              *)
(* - muddled, until the next answer: an edit taken back from an item that   *)
(*   is to be removed, and a row selected that other users moved away after *)
(*   it was edited or removed here.                                         *)
EditsSaved == [][SavedAsAsked]_vars
==============================================================================
