------------------------------ MODULE UsersPage ------------------------------
(***************************************************************************)
(* The user management of an administrator: the tables of users and groups *)
(* and one drawer that shows, creates or edits either                      *)
(* (pages/UsersPage.tsx), with the server's change of an account's status  *)
(* (user_management/service.py).  The requests that a handler sends with   *)
(* one Promise.all are one request here.                                   *)
(***************************************************************************)
EXTENDS PageRequests

CONSTANTS
    Users,      \* the users with the role ADMIN
    Groups,     \* the user groups
    MaxStatuses \* how many changes of a status are under way at a time

VARIABLE active \* the users whose account is active: the effective admins

UserKinds  == {"user-create", "user-detail", "user-edit"}
GroupKinds == {"group-create", "group-detail", "group-edit"}
AnyUser    == Users \cup {None}
AnyGroup   == Groups \cup {None}

(* A form is known by the record whose fields were loaded into it; None is *)
(* a form that began empty.  The drawer is that of `user' or `group'.      *)
UiType ==
    [tab : {"users", "groups"}, kind : UserKinds \cup GroupKinds \cup {"closed"},
     user : AnyUser, userDetail : AnyUser, userForm : AnyUser,
     group : AnyGroup, groupDetail : AnyGroup, groupForm : AnyGroup,
     member : BOOLEAN, loading : BOOLEAN, drawerLoading : BOOLEAN, submitting : BOOLEAN]

(* What the functions that wait for a request still know of it, and of a   *)
(* save the form whose fields it sends.                                    *)
Request ==
    [kind : {"list"}]
    \cup [kind : {"openUser"}, of : Users]
    \cup [kind : {"openGroup"}, of : Groups]
    \cup [kind : {"reload"}, clears : BOOLEAN, group : AnyGroup]
    \cup [kind : {"saveUser"}, mode : {"user-create", "user-edit"}, of : AnyUser,
          form : AnyUser, password : BOOLEAN, group : AnyGroup]
    \cup [kind : {"saveGroup"}, mode : {"group-create", "group-edit"}, of : AnyGroup,
          form : AnyGroup]
    \cup [kind : {"member"}, of : Groups, adds : BOOLEAN]
    \cup [kind : {"delete"}, open : BOOLEAN]
    \cup [kind : {"status"}, of : Users, to : {"active", "disabled"}, shown : BOOLEAN,
          state : {"sent", "checked", "done"}, group : AnyGroup]

Init ==
    /\ ui = [tab |-> "users", kind |-> "closed", member |-> FALSE,
             user |-> None, userDetail |-> None, userForm |-> None,
             group |-> None, groupDetail |-> None, groupForm |-> None,
             loading |-> TRUE, drawerLoading |-> FALSE, submitting |-> FALSE]
    /\ active \in SUBSET Users \ {{}}
    /\ Mounted([kind |-> "list"])

-----------------------------------------------------------------------------
(* The tables.  No request is cancelled: any answer ends the loading.      *)
ChangeFilter(tab) ==
    /\ Set([tab |-> tab, loading |-> TRUE])
    /\ Call([kind |-> "list"])
    /\ UNCHANGED active

ListEnds(r) ==
    /\ Has(r, "list")
    /\ Set([loading |-> FALSE])
    /\ Return(r)
    /\ UNCHANGED active

(* What follows a write: the tables and catalogs, and for a user's write   *)
(* the group that was open when the write was asked for.                   *)
refreshActiveGroupDetail == IF None \in {ui.group, ui.groupDetail} THEN None ELSE ui.group
Reload(r, clears, group) == Await(r, [kind |-> "reload", clears |-> clears, group |-> group])

Reloaded(r) ==
    /\ Has(r, "reload")
    /\ \E g \in {req[r].group, None} :
         Set([loading |-> FALSE, submitting |-> ui.submitting /\ ~req[r].clears,
              groupDetail |-> IF g = None THEN ui.groupDetail ELSE g])
    /\ Return(r)
    /\ UNCHANGED active

-----------------------------------------------------------------------------
(* The drawer.  What an answer brings is shown and put into the form       *)
(* whatever the drawer has been opened for since: no answer is ignored,    *)
(* and closing cancels nothing.  A load that fails leaves what was there.  *)
UserRowIsOffered  == ui.tab = "users" /\ ~ui.loading
GroupRowIsOffered == ui.tab = "groups" /\ ~ui.loading

openUserDrawer(kind, u) ==
    /\ UserRowIsOffered
    /\ Set([kind |-> kind, user |-> u, group |-> None, groupDetail |-> None,
            drawerLoading |-> TRUE])
    /\ Call([kind |-> "openUser", of |-> u])
    /\ UNCHANGED active

openGroupDrawer(kind, g) ==
    /\ GroupRowIsOffered
    /\ Set([kind |-> kind, user |-> None, userDetail |-> None, group |-> g,
            drawerLoading |-> TRUE])
    /\ Call([kind |-> "openGroup", of |-> g])
    /\ UNCHANGED active

Opened(r) ==
    /\ \/ Has(r, "openUser") /\ Set([drawerLoading |-> FALSE, userDetail |-> req[r].of,
                                     userForm |-> req[r].of])
       \/ Has(r, "openGroup") /\ Set([drawerLoading |-> FALSE, groupDetail |-> req[r].of,
                                      groupForm |-> req[r].of, member |-> FALSE])
    /\ Return(r)
    /\ UNCHANGED active

OpenFailed(r) ==
    /\ Has(r, "openUser") \/ Has(r, "openGroup")
    /\ Set([drawerLoading |-> FALSE])
    /\ Return(r)
    /\ UNCHANGED active

openUserCreate ==
    /\ ui.tab = "users"
    /\ Set([kind |-> "user-create", user |-> None, userDetail |-> None, userForm |-> None,
            group |-> None, groupDetail |-> None])
    /\ UNCHANGED <<req, active>>

openGroupCreate ==
    /\ ui.tab = "groups"
    /\ Set([kind |-> "group-create", user |-> None, userDetail |-> None,
            group |-> None, groupDetail |-> None, groupForm |-> None])
    /\ UNCHANGED <<req, active>>

closeDrawer ==
    Set([kind |-> "closed", user |-> None, userDetail |-> None, group |-> None,
         groupDetail |-> None, drawerLoading |-> FALSE, member |-> FALSE])

Close == ui.kind # "closed" /\ closeDrawer /\ UNCHANGED <<req, active>>

FooterEdit ==
    /\ \/ ui.kind = "user-detail" /\ ui.user # None /\ Set([kind |-> "user-edit"])
       \/ ui.kind = "group-detail" /\ ui.group # None /\ Set([kind |-> "group-edit"])
    /\ UNCHANGED <<req, active>>

-----------------------------------------------------------------------------
SaveIsOffered(kinds) == ui.kind \in kinds /\ ~ui.submitting
MembersAreOffered == ui.kind = "group-detail" /\ ui.groupDetail # None /\ ~ui.drawerLoading

(* A user is created, or updated and then given a password.                *)
handleSaveUser ==
    /\ SaveIsOffered({"user-create", "user-edit"})
    /\ Set([submitting |-> TRUE])
    /\ \E password \in BOOLEAN :
         Call([kind |-> "saveUser", mode |-> ui.kind, of |-> ui.user, form |-> ui.userForm,
               password |-> password /\ ui.kind = "user-edit",
               group |-> refreshActiveGroupDetail])
    /\ UNCHANGED active

UserSaved(r) ==
    /\ Has(r, "saveUser")
    /\ UNCHANGED active
    /\ IF req[r].mode = "user-edit" /\ req[r].of = None
         THEN Set([loading |-> TRUE]) /\ Reload(r, TRUE, req[r].group)
         ELSE IF req[r].password
         THEN Await(r, [req[r] EXCEPT !.password = FALSE]) /\ UNCHANGED ui
         ELSE /\ \E u \in Users : (* the user that was created, or the edited one *)
                   /\ req[r].of \in {None, u}
                   /\ Set([kind |-> "user-detail", loading |-> TRUE, userDetail |-> u,
                           user |-> IF req[r].of = None THEN u ELSE ui.user])
              /\ Reload(r, TRUE, req[r].group)

handleSaveGroup ==
    /\ SaveIsOffered({"group-create", "group-edit"})
    /\ Set([submitting |-> TRUE])
    /\ Call([kind |-> "saveGroup", mode |-> ui.kind, of |-> ui.group, form |-> ui.groupForm])
    /\ UNCHANGED active

GroupSaved(r) ==
    /\ Has(r, "saveGroup")
    /\ IF req[r].mode = "group-edit" /\ req[r].of = None
         THEN Set([loading |-> TRUE])
         ELSE \E g \in Groups :
                /\ req[r].of \in {None, g}
                /\ Set([kind |-> "group-detail", groupDetail |-> g, loading |-> TRUE,
                        group |-> IF req[r].of = None THEN g ELSE ui.group])
    /\ Reload(r, TRUE, None)
    /\ UNCHANGED active

handleAddMember ==
    /\ MembersAreOffered /\ ui.group # None /\ ui.member /\ ~ui.submitting
    /\ Set([submitting |-> TRUE])
    /\ Call([kind |-> "member", of |-> ui.group, adds |-> TRUE])
    /\ UNCHANGED active

chooseMember ==
    /\ MembersAreOffered /\ ~ui.member
    /\ Set([member |-> TRUE])
    /\ UNCHANGED <<req, active>>

handleRemoveMember ==
    /\ MembersAreOffered /\ ui.group # None
    /\ Call([kind |-> "member", of |-> ui.group, adds |-> FALSE])
    /\ UNCHANGED <<ui, active>>

MemberChanged(r) ==
    /\ Has(r, "member")
    /\ Set([groupDetail |-> req[r].of, member |-> ui.member /\ ~req[r].adds, loading |-> TRUE])
    /\ Reload(r, req[r].adds, None)
    /\ UNCHANGED active

handleDeleteGroup(g) ==
    /\ GroupRowIsOffered
    /\ Call([kind |-> "delete", open |-> ui.group = g])
    /\ UNCHANGED <<ui, active>>

GroupDeleted(r) ==
    /\ Has(r, "delete")
    /\ IF req[r].open
         THEN Set([kind |-> "closed", user |-> None, userDetail |-> None, group |-> None,
                   groupDetail |-> None, drawerLoading |-> FALSE, member |-> FALSE,
                   loading |-> TRUE])
         ELSE Set([loading |-> TRUE])
    /\ Reload(r, FALSE, None)
    /\ UNCHANGED active

WriteFailed(r) ==
    /\ ~Free(r) /\ req[r].kind \in {"saveUser", "saveGroup", "member", "delete"}
    /\ Set([submitting |-> /\ ui.submitting
                           /\ req[r].kind = "delete" \/ (req[r].kind = "member" /\ ~req[r].adds)])
    /\ Return(r)
    /\ UNCHANGED active

-----------------------------------------------------------------------------
(* The status of an account.  The button is not greyed out while a change  *)
(* is under way, so several may be; each asks for what the row shows not   *)
(* to be, and the row may be old.  The answer is shown in the drawer if it *)
(* was the user's when the button was pressed.                             *)
handleUserStatus(u, to) ==
    /\ UserRowIsOffered /\ Cardinality(OfKind("status")) < MaxStatuses
    /\ Call([kind |-> "status", of |-> u, to |-> to, shown |-> ui.user = u, state |-> "sent",
             group |-> refreshActiveGroupDetail])
    /\ UNCHANGED <<ui, active>>

MayChange(u, to) ==
    /\ (to = "disabled") = (u \in active)
    /\ to = "disabled" => Cardinality(active) > 1

(* The handler counts the administrators in one statement and commits the  *)
(* change in another.                                                      *)
update_user_status(r) ==
    /\ Has(r, "status") /\ req[r].state = "sent"
    /\ IF MayChange(req[r].of, req[r].to)
         THEN Await(r, [req[r] EXCEPT !.state = "checked"])
         ELSE Return(r)  \* the refusal is shown and changes nothing
    /\ UNCHANGED <<ui, active>>

StatusCommits(r) ==
    /\ Has(r, "status") /\ req[r].state = "checked"
    /\ active' = IF req[r].to = "active" THEN active \cup {req[r].of}
                                         ELSE active \ {req[r].of}
    /\ Await(r, [req[r] EXCEPT !.state = "done"])
    /\ UNCHANGED ui

StatusAnswered(r) ==
    /\ Has(r, "status") /\ req[r].state = "done"
    /\ \/ /\ Set([loading |-> TRUE,
                  userDetail |-> IF req[r].shown THEN req[r].of ELSE ui.userDetail])
          /\ Reload(r, FALSE, req[r].group)
       \/ Return(r) /\ UNCHANGED ui \* it is lost
    /\ UNCHANGED active

Next ==
    \/ \E tab \in {"users", "groups"} : ChangeFilter(tab)
    \/ \E u \in Users : \/ \E kind \in {"user-detail", "user-edit"} : openUserDrawer(kind, u)
                        \/ \E to \in {"active", "disabled"} : handleUserStatus(u, to)
    \/ \E g \in Groups : \/ \E kind \in {"group-detail", "group-edit"} : openGroupDrawer(kind, g)
                         \/ handleDeleteGroup(g)
    \/ openUserCreate \/ openGroupCreate \/ Close \/ FooterEdit
    \/ handleSaveUser \/ handleSaveGroup
    \/ chooseMember \/ handleAddMember \/ handleRemoveMember
    \/ \E r \in Slots :
         \/ ListEnds(r) \/ Reloaded(r) \/ Opened(r) \/ OpenFailed(r)
         \/ UserSaved(r) \/ GroupSaved(r) \/ MemberChanged(r) \/ GroupDeleted(r) \/ WriteFailed(r)
         \/ update_user_status(r) \/ StatusCommits(r) \/ StatusAnswered(r)

-----------------------------------------------------------------------------
(* A flag that greys a button out or shows a spinner is set only while a   *)
(* request is in flight whose end clears it.                               *)
Submits(r) ==
    ~Free(r) /\ \/ req[r].kind \in {"saveUser", "saveGroup"}
                \/ req[r].kind = "member" /\ req[r].adds
                \/ req[r].kind = "reload" /\ req[r].clears

FlagsAreReal ==
    /\ ui.loading => InFlight({"list", "reload"})
    /\ ui.drawerLoading => InFlight({"openUser", "openGroup"})
    /\ ui.submitting => \E r \in Slots : Submits(r)

(* What does not hold, and no run states: that a save sends the fields of  *)
(* the record it names, or of a form that began empty.  After two loads    *)
(* that cross, after one that fails, and while one is awaited, the form is *)
(* another user's or group's than the selected one.                        *)
SavesOwnFields ==
    \A r \in OfKind("saveUser") \cup OfKind("saveGroup") : req[r].form \in {None, req[r].of}

(* "The system must always keep at least one effective ADMIN."             *)
AlwaysAnAdministrator == active # {}
=============================================================================
