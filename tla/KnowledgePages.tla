---------------------------- MODULE KnowledgePages ----------------------------
(***************************************************************************)
(* The knowledge base: the list, an article's detail with its likes and    *)
(* pin, and the editor (pages/KnowledgeListPage.tsx,                       *)
(* KnowledgeDetailPage.tsx, KnowledgeEditorPage.tsx) on the routed pages.  *)
(* An article is its identity; its text is left out except for whether the *)
(* fields of the editor are filled.                                        *)
(***************************************************************************)
EXTENDS RoutedPages

CONSTANT Mine   \* the articles whose editing the server permits to this user

Actions == {"like", "pin", "delete"}

UiType ==
    [route : Routes, loading : BOOLEAN, error : BOOLEAN, items : SUBSET Records,
     article : Maybe, liked : BOOLEAN, actioning : Actions \cup {None},
     existing : Maybe, form : Maybe, filled : BOOLEAN,
     saveState : {"idle", "saving", "success"}, applied : BOOLEAN]

(* What the functions that wait for a request still know of it.            *)
Request ==
    [kind : {"load"}, of : Maybe]
    \cup [kind : {"like"}, of : Records, likes : BOOLEAN]
    \cup [kind : {"pin"}, of : Records]
    \cup [kind : {"delete"}, of : Records, leads : {TRUE}, shown : BOOLEAN]
    \cup [kind : {"save"}, of : Maybe, form : Maybe, applied : BOOLEAN, shown : BOOLEAN]

(* applied is not a hook: it says that the last load of this URL brought   *)
(* the article that the editor was opened on.                              *)
Mount(route) ==
    [route |-> route, loading |-> route[1] # "new", error |-> FALSE, items |-> {},
     article |-> None, liked |-> FALSE, actioning |-> None,
     existing |-> None, form |-> None, filled |-> FALSE, saveState |-> "idle",
     applied |-> FALSE]

Init ==
    /\ ui = Mount(<<"list", None>>)
    /\ Mounted(LoadCall(<<"list", None>>))

-----------------------------------------------------------------------------
ListLoaded ==
    /\ On("list")
    /\ \E items \in SUBSET Records : Set([items |-> items, loading |-> FALSE])

DetailLoaded(i) ==
    /\ On("detail")
    /\ \E liked \in BOOLEAN : Set([article |-> i, liked |-> liked, loading |-> FALSE])

EditorLoaded(i) ==
    /\ On("edit")
    /\ Set([existing |-> i, form |-> i, filled |-> TRUE, loading |-> FALSE, applied |-> TRUE])

Loaded(r) ==
    /\ Has(r, "load")
    /\ ListLoaded \/ DetailLoaded(req[r].of) \/ EditorLoaded(req[r].of)
    /\ Return(r)

LoadFailed(r) ==
    /\ Has(r, "load")
    /\ Set([loading |-> FALSE, error |-> TRUE,
            article |-> IF On("detail") THEN None ELSE ui.article])
    /\ Return(r)

-----------------------------------------------------------------------------
DetailIsOffered == On("detail") /\ ~ui.loading /\ ui.article # None /\ ui.actioning = None
PinIsOffered    == DetailIsOffered
DeleteIsOffered == DetailIsOffered /\ ui.article \in Mine

Act(c) ==
    /\ Set([actioning |-> c.kind, error |-> FALSE])
    /\ Call(c)

handleLike ==
    /\ DetailIsOffered
    /\ Act([kind |-> "like", of |-> ui.article, likes |-> ~ui.liked])

handlePin == PinIsOffered /\ Act([kind |-> "pin", of |-> ui.article])

handleDelete ==
    /\ DeleteIsOffered
    /\ Act([kind |-> "delete", of |-> ui.article, leads |-> TRUE, shown |-> TRUE])

(* The answer is the article as it is now.                                 *)
Acted(r) ==
    \/ /\ Has(r, "like")
       /\ Set([article |-> req[r].of, liked |-> req[r].likes, actioning |-> None])
       /\ Return(r)
    \/ /\ Has(r, "pin")
       /\ \E liked \in BOOLEAN :
            Set([article |-> req[r].of, liked |-> liked, actioning |-> None])
       /\ Return(r)
    \/ /\ Has(r, "delete")
       /\ Go(<<"list", None>>, [req EXCEPT ![r] = None], Mount(<<"list", None>>))

ActionFailed(r) ==
    /\ ~Free(r) /\ req[r].kind \in Actions
    /\ IF req[r].kind = "delete" /\ ~req[r].shown THEN UNCHANGED ui
                                                  ELSE Set([actioning |-> None, error |-> TRUE])
    /\ Return(r)

-----------------------------------------------------------------------------
EditorIsOffered == On("edit") /\ ~ui.loading
canSave         == id = None \/ ui.existing \in Mine
validate        == ui.filled

Type ==
    /\ EditorIsOffered
    /\ Set([filled |-> ~ui.filled])
    /\ UNCHANGED req

handleSave ==
    /\ EditorIsOffered /\ ui.saveState = "idle" /\ canSave /\ validate
    /\ Set([saveState |-> "saving", error |-> FALSE])
    /\ Call([kind |-> "save", of |-> id, form |-> ui.form, applied |-> ui.applied,
             shown |-> TRUE])

Saved(r) ==
    /\ Has(r, "save")
    /\ \E i \in IF req[r].of = None THEN Records ELSE {req[r].of} :
         Go(<<"detail", i>>, [req EXCEPT ![r] = None], Mount(<<"detail", i>>))

SaveFailed(r) ==
    /\ Has(r, "save")
    /\ IF req[r].shown THEN Set([saveState |-> "idle", error |-> TRUE]) ELSE UNCHANGED ui
    /\ Return(r)

Next ==
    \/ \E route \in Routes : Visit(route, Mount(route))
    \/ handleLike \/ handlePin \/ handleDelete \/ Type \/ handleSave
    \/ \E r \in Slots :
         \/ Loaded(r) \/ LoadFailed(r) \/ Acted(r) \/ ActionFailed(r)
         \/ Saved(r) \/ SaveFailed(r)

-----------------------------------------------------------------------------
(* A flag that greys a button out or shows a spinner is set only while a   *)
(* request of the page is in flight whose end clears it.  A new article is *)
(* left out: who comes back to it from an editor that is still loading     *)
(* finds it loading for ever.                                              *)
FlagsAreReal ==
    /\ ui.loading /\ ui.route[1] # "new" => InFlight({"load"})
    /\ ui.actioning # None => InFlight({ui.actioning})
    /\ ui.saveState = "saving" => \E r \in Slots : Has(r, "save") /\ req[r].shown

(* The editor of an article that could be loaded holds that article,       *)
(* whatever loads are answered late, and its save is sent to it.           *)
FormIsOfTheRecord ==
    /\ On("edit") /\ ~ui.loading /\ ui.applied => ui.form = id
    /\ \A r \in OfKind("save") : req[r].applied => req[r].form = req[r].of
=============================================================================
