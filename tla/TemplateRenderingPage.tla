------------------------- MODULE TemplateRenderingPage -------------------------
(***************************************************************************)
(* The template page of an administrator: a list with filters, a detail,   *)
(* an editor and a preview as views of one component                       *)
(* (pages/TemplateRenderingPage.tsx).  A template is abstracted to its     *)
(* identity and type; any template may be in the list, and what a preview  *)
(* returns is left out.                                                    *)
(***************************************************************************)
EXTENDS PageRequests

CONSTANTS
    Templates,      \* the templates the page may meet
    EmailTemplates  \* those whose stored type is EMAIL

Types   == {"EMAIL", "WEBHOOK"}
Views   == {"list", "detail", "create", "edit", "preview"}
Opened  == {"detail", "edit", "preview"}
Draft   == [of : Templates \cup {None}, type : Types]

UiType ==
    [view : Views, sel : Templates \cup {None}, detail : Templates \cup {None},
     draft : Draft \cup {None},
     listLoading : BOOLEAN, detailLoading : BOOLEAN, detailError : BOOLEAN,
     saveLoading : BOOLEAN, previewLoading : BOOLEAN, pending : Templates \cup {None}]

(* What the functions that wait for a request still know of it.            *)
Request ==
    [kind : {"list", "preview"}]
    \cup [kind : {"reload"}, after : {"save", "status"}]
    \cup [kind : {"detail"}, of : Templates, open : Opened]
    \cup [kind : {"save"}, draft : Draft]
    \cup [kind : {"status"}, of : Templates, shown : BOOLEAN]

TypeOf(t) == IF t \in EmailTemplates THEN "EMAIL" ELSE "WEBHOOK"

buildDraftFromDetail(t) == [of |-> t, type |-> TypeOf(t)]
createEmptyDraft        == [of |-> None, type |-> "EMAIL"]
ListCall                == [kind |-> "list"]

Init ==
    /\ ui = [view |-> "list", sel |-> None, detail |-> None, draft |-> None,
             listLoading |-> TRUE, detailLoading |-> FALSE, detailError |-> FALSE,
             saveLoading |-> FALSE, previewLoading |-> FALSE, pending |-> None]
    /\ Mounted(ListCall)

-----------------------------------------------------------------------------
(* The list: the effect ignores the answer to an earlier filter, the       *)
(* reload after a write does not.                                          *)
ChangeFilter ==
    /\ ui.view = "list"
    /\ Set([listLoading |-> TRUE])
    /\ Again(ListCall)

ListEnds(r) ==
    /\ Has(r, "list")
    /\ Set([listLoading |-> FALSE])
    /\ Return(r)

loadTemplateList(r) == Await(r, [kind |-> "reload", after |-> req[r].kind])

Reloaded(r) ==
    /\ Has(r, "reload")
    /\ Set([listLoading |-> FALSE,
            saveLoading |-> ui.saveLoading /\ req[r].after # "save",
            pending |-> IF req[r].after = "status" THEN None ELSE ui.pending])
    /\ Return(r)

-----------------------------------------------------------------------------
(* The detail is fetched once and then taken from the page's state.        *)
draftFor(v, t) == IF v = "edit" THEN buildDraftFromDetail(t) ELSE ui.draft

Open(v, t) ==
    \/ /\ ui.detail = t
       /\ Set([view |-> v, draft |-> draftFor(v, t)])
       /\ UNCHANGED req
    \/ /\ ui.detail # t
       /\ Set([detailLoading |-> TRUE, detailError |-> FALSE])
       /\ Call([kind |-> "detail", of |-> t, open |-> v])

(* The rows give way to a spinner while the list is loading.               *)
RowsAreOffered == ui.view = "list" /\ ~ui.listLoading

OpenFromList(v, t) == RowsAreOffered /\ Open(v, t)

DetailIsOffered == ui.view = "detail" /\ ~ui.detailLoading /\ ~ui.detailError /\ ui.detail # None

OpenFromDetail(v) ==
    /\ DetailIsOffered /\ v \in {"edit", "preview"}
    /\ ui.sel # None
    /\ Open(v, ui.sel)

DetailAnswered(r) ==
    /\ Has(r, "detail")
    /\ Set([sel |-> req[r].of, detail |-> req[r].of, detailLoading |-> FALSE,
            draft |-> draftFor(req[r].open, req[r].of), view |-> req[r].open])
    /\ Return(r)

DetailFailed(r) ==
    /\ Has(r, "detail")
    /\ Set([detailLoading |-> FALSE, detailError |-> TRUE])
    /\ Return(r)

openCreate ==
    /\ ui.view = "list"
    /\ Set([sel |-> None, draft |-> createEmptyDraft, view |-> "create"])
    /\ UNCHANGED req

(* Every view but a detail that is loading or failed has the button.       *)
handleBack ==
    /\ ui.view \in {"create", "edit", "preview"} \/ DetailIsOffered
    /\ Set([view |-> IF ui.view \in {"edit", "preview"} THEN "detail" ELSE "list"])
    /\ UNCHANGED req

-----------------------------------------------------------------------------
EditorIsOffered == ui.view \in {"create", "edit"} /\ ui.draft # None
StatusIsOffered(t) == \/ RowsAreOffered /\ ui.pending # t
                      \/ DetailIsOffered /\ t = ui.detail /\ ui.pending # ui.sel
PreviewIsOffered == ui.view = "preview" /\ ui.detail # None /\ ~ui.previewLoading

(* The type may be changed in both modes; an update does not send it.      *)
handleTypeChange(y) ==
    /\ EditorIsOffered /\ y # ui.draft.type
    /\ Set([draft |-> [ui.draft EXCEPT !.type = y]])
    /\ UNCHANGED req

handleSave ==
    /\ EditorIsOffered /\ ~ui.saveLoading
    /\ Set([saveLoading |-> TRUE])
    /\ Call([kind |-> "save", draft |-> ui.draft])

(* The server takes the fields of the type that the template has.          *)
Accepts(d) == d.of \in Templates => d.type = TypeOf(d.of)

Saved(r) ==
    /\ Has(r, "save")
    /\ Accepts(req[r].draft)
    /\ \E t \in IF req[r].draft.of = None
                  THEN {t \in Templates : TypeOf(t) = req[r].draft.type}
                  ELSE {req[r].draft.of} :
         Set([sel |-> t, detail |-> t, draft |-> buildDraftFromDetail(t), view |-> "detail",
              listLoading |-> TRUE])
    /\ loadTemplateList(r)

handleToggleStatus(t) ==
    /\ StatusIsOffered(t)
    /\ Set([pending |-> t])
    /\ Call([kind |-> "status", of |-> t, shown |-> ui.detail = t])

Toggled(r) ==
    /\ Has(r, "status")
    /\ Set([sel |-> req[r].of, listLoading |-> TRUE,
            detail |-> IF req[r].shown THEN req[r].of ELSE ui.detail])
    /\ loadTemplateList(r)

WriteFailed(r) ==
    /\ ~Free(r) /\ req[r].kind \in {"save", "status"}
    /\ Set([saveLoading |-> ui.saveLoading /\ req[r].kind # "save",
            pending |-> IF req[r].kind = "status" THEN None ELSE ui.pending])
    /\ Return(r)

handleRunPreview ==
    /\ PreviewIsOffered
    /\ Set([previewLoading |-> TRUE])
    /\ Call([kind |-> "preview"])

Previewed(r) ==
    /\ Has(r, "preview")
    /\ Set([previewLoading |-> FALSE])
    /\ Return(r)

Next ==
    \/ ChangeFilter
    \/ \E v \in Opened, t \in Templates : OpenFromList(v, t)
    \/ \E v \in Opened : OpenFromDetail(v)
    \/ openCreate \/ handleBack \/ handleSave \/ handleRunPreview
    \/ \E y \in Types : handleTypeChange(y)
    \/ \E t \in Templates : handleToggleStatus(t)
    \/ \E r \in Slots :
         \/ ListEnds(r) \/ Reloaded(r)
         \/ DetailAnswered(r) \/ DetailFailed(r)
         \/ Saved(r) \/ Toggled(r) \/ WriteFailed(r) \/ Previewed(r)

-----------------------------------------------------------------------------
(* A flag that greys a button out or shows a spinner is set only while a   *)
(* request is in flight whose end clears it.                               *)
Saving(r, k) == Has(r, k) \/ (Has(r, "reload") /\ req[r].after = k)

FlagsAreReal ==
    /\ ui.listLoading => InFlight({"list", "reload"})
    /\ ui.detailLoading => InFlight({"detail"})
    /\ ui.previewLoading => InFlight({"preview"})
    /\ ui.saveLoading => \E r \in Slots : Saving(r, "save")
    /\ ui.pending # None => \E r \in Slots : Saving(r, "status")

(* A view is reached only with the data it shows: a detail or a preview    *)
(* with a fetched template, an editor with a draft.                        *)
ViewHasItsData ==
    /\ ui.view \in {"detail", "preview"} => ui.detail # None
    /\ ui.view \in {"create", "edit"} => ui.draft # None
=============================================================================
