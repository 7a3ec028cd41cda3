--------------------------------- MODULE Pages ---------------------------------
(***************************************************************************)
(* The pages of the application (app/routes.tsx).  One route is shown at a *)
(* time, and entering it mounts its component anew, so a visit to a page   *)
(* is a behaviour of its own: it starts in the page's first state, with    *)
(* any accounts active that earlier visits may have left so.  The detail   *)
(* page of a ticket keeps a variable per hook and has a server of its own. *)
(***************************************************************************)
EXTENDS Naturals

CONSTANTS
    Slots, Third,   \* slots for requests, and one more
    Items, Special, \* the records of a page, and those of a special type
    Plain,          \* the records of the pages of tickets, users and reports
    Groups, MaxStatuses, \* of the users page
    Settings,       \* of the connections
    MaxChanges, \* of the detail page of a ticket
    None

VARIABLES
    page,   \* the page that is shown
    ui,     \* its state
    req,    \* its requests in flight
    active, \* the users whose account is active
    server, events, last, id, detail, loading, submitting, \* those of the
    editing, panel, saving, live                           \* detail page

ticketView == <<server, events, last, id, detail, loading, submitting,
                editing, panel, saving, live>>

vars == <<page, ui, req, active, ticketView>>

Rendering   == INSTANCE TemplateRenderingPage
                 WITH Templates <- Items, EmailTemplates <- Special
Accounts    == INSTANCE UsersPage WITH Users <- Plain
Rules       == INSTANCE EventRulePages WITH Records <- Items, TimerRules <- Special
Articles    == INSTANCE KnowledgePages WITH Records <- Items, Mine <- Special
TaskList    == INSTANCE TasksPage WITH Tasks <- Items, Failed <- Special
TaskForms   == INSTANCE TaskTemplatesPage WITH TaskTemplates <- Items, EmailTasks <- Special
ReportForms == INSTANCE ReportTemplatesPage WITH ReportTemplates <- Items
TokenList   == INSTANCE ApiTokensPage WITH Tokens <- Items
Senders     == INSTANCE ConnectionPage WITH Connections <- Special
Sources     == INSTANCE AlertSourcesPage WITH Connections <- Special

TicketView  == INSTANCE TicketDetailPage
                 WITH Tickets <- Plain, Requests <- Slots, OwnershipModes <- {"assign"}

(* The ticket list has two requests in flight at once; of the reports      *)
(* page, several reports and several requests are looked at in turn.       *)
TicketList  == INSTANCE TicketListPage
                 WITH Tickets <- Plain, Slots <- Slots \cup {Third}
ReportList  == INSTANCE ReportsPage WITH Reports <- Plain, Slots <- {Third}
ReportBusy  == INSTANCE ReportsPage WITH Reports <- Special

(* None is told apart from everything that it stands for the absence of:   *)
(* a record, a request, a draft, what a save shows, an operation.          *)
NoneIsNoRequest ==
    /\ None \notin Rendering!Request   /\ None \notin Accounts!Request
    /\ None \notin Rules!Request       /\ None \notin Articles!Request
    /\ None \notin TaskList!Request    /\ None \notin TaskForms!Request
    /\ None \notin ReportForms!Request /\ None \notin TokenList!Request
    /\ None \notin Senders!Request     /\ None \notin TicketList!Request
    /\ None \notin ReportList!Request  /\ None \notin ReportBusy!Request

ASSUME PagesAssumption ==
    /\ TicketView!DetailAssumption
    /\ None \notin Items /\ Special \subseteq Items
    /\ Settings # {}
    /\ NoneIsNoRequest
    /\ None \notin Rendering!Draft \cup TaskForms!Shown \cup ReportList!Ops

Starts ==
    \/ page = "rendering" /\ Rendering!Init
    \/ page = "rules"     /\ Rules!Init
    \/ page = "articles"  /\ Articles!Init
    \/ page = "tasks"     /\ TaskList!Init
    \/ page = "taskTmpls" /\ TaskForms!Init
    \/ page = "repTmpls"  /\ ReportForms!Init
    \/ page = "tokens"    /\ TokenList!Init
    \/ page = "senders"   /\ Senders!Init
    \/ page = "sources"   /\ Sources!Init
    \/ page = "tickets"   /\ TicketList!Init
    \/ page = "reports"   /\ ReportList!Init
    \/ page = "busy"      /\ ReportBusy!Init

NoTicketView ==
    /\ server = None /\ events = None /\ last = None /\ id = None /\ detail = None
    /\ loading = None /\ submitting = None /\ editing = None /\ panel = None
    /\ saving = None /\ live = None

Init ==
    \/ page = "ticket" /\ TicketView!Init /\ ui = None /\ active = Plain
    \/ page = "users" /\ Accounts!Init /\ NoTicketView
    \/ Starts /\ active = Plain /\ NoTicketView

(* A step of a page that knows nothing of accounts.                        *)
Moves ==
    \/ page = "rendering" /\ Rendering!Next
    \/ page = "rules"     /\ Rules!Next
    \/ page = "articles"  /\ Articles!Next
    \/ page = "tasks"     /\ TaskList!Next
    \/ page = "taskTmpls" /\ TaskForms!Next
    \/ page = "repTmpls"  /\ ReportForms!Next
    \/ page = "tokens"    /\ TokenList!Next
    \/ page = "senders"   /\ Senders!Next
    \/ page = "sources"   /\ Sources!SourcesNext
    \/ page = "tickets"   /\ TicketList!Next
    \/ page = "reports"   /\ ReportList!Next
    \/ page = "busy"      /\ ReportBusy!Next

Next ==
    /\ UNCHANGED page
    /\ \/ page = "ticket" /\ TicketView!Next /\ UNCHANGED <<ui, active>>
       \/ page = "users" /\ Accounts!Next /\ UNCHANGED ticketView
       \/ Moves /\ UNCHANGED <<active, ticketView>>

Spec == Init /\ [][Next]_vars

-----------------------------------------------------------------------------
(* The hooks of every page keep to their types, and every request is one   *)
(* that the page sends.                                                    *)
Typed(hooks, slots, requests) ==
    ui \in hooks /\ req \in [slots -> requests \cup {None}]

TypeOK ==
    /\ active \subseteq Plain
    /\ CASE page = "ticket"    -> TicketView!TypeOK
         [] page = "rendering" -> Typed(Rendering!UiType, Slots, Rendering!Request)
         [] page = "users"     -> Typed(Accounts!UiType, Slots, Accounts!Request)
         [] page = "rules"     -> Typed(Rules!UiType, Slots, Rules!Request)
         [] page = "articles"  -> Typed(Articles!UiType, Slots, Articles!Request)
         [] page = "tasks"     -> Typed(TaskList!UiType, Slots, TaskList!Request)
         [] page = "taskTmpls" -> Typed(TaskForms!UiType, Slots, TaskForms!Request)
         [] page = "repTmpls"  -> Typed(ReportForms!UiType, Slots, ReportForms!Request)
         [] page = "tokens"    -> Typed(TokenList!UiType, Slots, TokenList!Request)
         [] page = "senders"   -> Typed(Senders!UiType, Slots, Senders!Request)
         [] page = "sources"   -> Typed(Sources!UiType, Slots, Sources!Request)
         [] page = "tickets"   -> Typed(TicketList!UiType, Slots \cup {Third}, TicketList!Request)
         [] page = "reports"   -> Typed(ReportList!UiType, {Third}, ReportList!Request)
         [] page = "busy"      -> Typed(ReportBusy!UiType, Slots, ReportBusy!Request)

(* Nothing stays greyed out or loading for ever: on every page, a flag     *)
(* that disables a button or shows a spinner is set only while a request   *)
(* is in flight whose end clears it, however answers, failures and the     *)
(* user's next clicks interleave.                                          *)
FlagsAreReal ==
    CASE page = "ticket"    -> TicketView!WaitingIsReal
      [] page = "rendering" -> Rendering!FlagsAreReal
      [] page = "users"     -> Accounts!FlagsAreReal
      [] page = "rules"     -> Rules!FlagsAreReal
      [] page = "articles"  -> Articles!FlagsAreReal
      [] page = "tasks"     -> TaskList!FlagsAreReal
      [] page = "taskTmpls" -> TaskForms!FlagsAreReal
      [] page = "repTmpls"  -> ReportForms!FlagsAreReal
      [] page = "tokens"    -> TokenList!FlagsAreReal
      [] page = "senders"   -> Senders!FlagsAreReal
      [] page = "sources"   -> Sources!FlagsAreReal /\ Sources!QueryFlagIsReal
      [] page = "tickets"   -> TicketList!FlagsAreReal
      [] page = "reports"   -> ReportList!FlagsAreReal
      [] page = "busy"      -> ReportBusy!FlagsAreReal

(* On the pages that tell a late answer from the awaited one, what is      *)
(* shown is what was asked for last: the task that is selected, the rows   *)
(* of the ticket list's filter and the row in its drawer, the templates    *)
(* that a report's drawer offers, a live refresh of the ticket in the URL; *)
(* and a view of the template page has a template.  Not so elsewhere: the  *)
(* users page shows whatever detail or rows come last, the template page   *)
(* whatever template, the connections a test of the one selected before,   *)
(* and a ticket whose load failed leaves the ticket before on the screen.  *)
ShownIsAskedFor ==
    /\ page = "ticket"    => TicketView!LiveRefreshIsForThePage
    /\ page = "rendering" => Rendering!ViewHasItsData
    /\ page = "tasks"     => TaskList!ShownIsAskedFor
    /\ page = "tickets"   => TicketList!ShownIsAskedFor /\ TicketList!DrawerShowsTheRow
    /\ page = "reports"   => ReportList!ShownIsAskedFor
    /\ page = "busy"      => ReportBusy!ShownIsAskedFor

(* Once it is loaded, the form of an event rule, an article, a template of *)
(* tasks or reports, or a connection holds the record whose save it sends, *)
(* in the shape of its type: no late answer puts one record's fields under *)
(* another one's identity.  On the users page it does (UsersPage has       *)
(* SavesOwnFields, which fails), and the form of a report is left out.     *)
FormIsOfTheRecord ==
    /\ page = "rules"     => Rules!FormIsOfTheRecord /\ Rules!TimeRuleFitsType
    /\ page = "articles"  => Articles!FormIsOfTheRecord
    /\ page = "taskTmpls" => TaskForms!FormIsOfTheRecord /\ TaskForms!FormFitsType
    /\ page = "repTmpls"  => ReportForms!FormIsOfTheRecord
    /\ page = "senders"   => Senders!FormIsOfTheRecord
    /\ page = "sources"   => Sources!FormIsOfTheRecord

(* On the detail page of a ticket, an edit that the server would accept    *)
(* was made over the basics that the server holds.                         *)
EditIsMadeOverCurrentBasics == page = "ticket" => TicketView!EditIsMadeOverCurrentBasics

(* The system always keeps at least one effective administrator, however   *)
(* the administrators disable each other.                                  *)
AlwaysAnAdministrator == page = "users" => Accounts!AlwaysAnAdministrator
=============================================================================
