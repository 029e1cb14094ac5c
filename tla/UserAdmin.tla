----------------------------- MODULE UserAdmin -----------------------------
(***************************************************************************)
(* The accounts a super admin manages.  Every change starts from reads     *)
(* that are not repeated when it is written; two guards protect the last   *)
(* active super admin, and deleting a partner's last portal user takes the *)
(* partner's plate registrations along.                                    *)
(***************************************************************************)
EXTENDS HttpClients

CONSTANTS
    Users,              \* the ids of accounts
    Partners            \* the ids of partners

VARIABLES
    account,            \* id |-> the row and whether it holds super_admin
    plates,             \* partners with registered plates
    adminSessions,      \* accounts logged in as super admin; the role is not re-read
    portalSessions,     \* partners somebody is logged in for
    adminCall           \* client |-> the handler it is in

userVars == <<account, plates, adminSessions, portalSessions, adminCall>>

-----------------------------------------------------------------------------
(* Data *)

NoPartner == "no partner"
NoAccount == [at |-> "absent", super |-> FALSE, active |-> FALSE, partner |-> NoPartner]

There(u)     == account[u].at = "there"
UsersOf(p)   == {u \in Users : There(u) /\ account[u].partner = p}
ActiveSuperAdmins == {u \in Users : There(u) /\ account[u].super /\ account[u].active}

Handling(c, op, at) == adminCall[c].op = op /\ adminCall[c].at = at
Proceed(c, call)    == adminCall' = Now(adminCall, c, call)
Finish(c)           == Proceed(c, NoCall)

-----------------------------------------------------------------------------
(* Logging in, registering plates, creating accounts *)

\* validateCredentials: an active account.  The session keeps what it read.
LogIn(u) ==
    /\ There(u) /\ account[u].active
    /\ adminSessions' = IF account[u].super THEN adminSessions \cup {u} ELSE adminSessions
    /\ portalSessions' = IF account[u].partner = NoPartner THEN portalSessions
                         ELSE portalSessions \cup {account[u].partner}
    /\ UNCHANGED <<account, plates, adminCall>>

\* PortalPlatesService.create, 409 if it is registered.  An INSERT of a plate
\* that a transaction is deleting waits for it.
RegisterPlate(c, p) ==
    /\ adminCall[c] = NoCall
    /\ p \in portalSessions
    /\ plates' = plates \cup {p}
    /\ UNCHANGED <<account, adminSessions, portalSessions, adminCall>>

\* createUser: for staff (with roles) or for a partner.
CreateUser(u) ==
    /\ adminSessions # {}
    /\ account[u].at = "absent"
    /\ \E super \in BOOLEAN, p \in Partners \cup {NoPartner} :
        /\ super => p = NoPartner
        /\ account' = [account EXCEPT ![u] =
                        [at |-> "there", super |-> super, active |-> TRUE, partner |-> p]]
    /\ UNCHANGED <<plates, adminSessions, portalSessions, adminCall>>

-----------------------------------------------------------------------------
(* updateUser() *)

\* A field of a patch holds the new value, or nothing if it is left out.
AtMostOne(S) == {{}} \cup {{v} : v \in S}
Patches == [super : AtMostOne(BOOLEAN), active : AtMostOne(BOOLEAN), partner : AtMostOne(Partners)]
Patched(old, field) == IF field = {} THEN old ELSE CHOOSE v \in field : TRUE

\* Mutant: only a change of the roles is guarded.
DropsByRole(patch) == patch.super = {FALSE}

\* Whether the request could take a super admin away.
DropsSuperAdmin(patch) == patch.super = {FALSE} \/ patch.active = {FALSE}

BeginUpdateUser(c) ==
    /\ adminSessions # {}
    /\ adminCall[c] = NoCall
    /\ \E u \in Users, patch \in Patches :
        /\ There(u)
        /\ Proceed(c, [op |-> "update", user |-> u, patch |-> patch,
                       at |-> IF DropsSuperAdmin(patch) THEN "guard" ELSE "write"])
    /\ UNCHANGED <<account, plates, adminSessions, portalSessions>>

\* The last active super admin is neither demoted nor deactivated nor deleted.
GuardLast(c, op, next) ==
    /\ Handling(c, op, "guard")
    /\ IF ActiveSuperAdmins = {adminCall[c].user}
       THEN Finish(c) ELSE Proceed(c, [adminCall[c] EXCEPT !.at = next])
    /\ UNCHANGED <<account, plates, adminSessions, portalSessions>>

GuardUpdate(c) == GuardLast(c, "update", "write")
GuardDelete(c) == GuardLast(c, "delete", "count")

\* The row and its roles in one transaction; nothing of it without the row.
WriteUser(c) ==
    LET patch == adminCall[c].patch
        u     == adminCall[c].user
        old   == account[u]
    IN  /\ Handling(c, "update", "write")
        /\ account' = IF There(u)
                      THEN [account EXCEPT ![u] = [old EXCEPT !.super = Patched(old.super, patch.super),
                                                   !.active = Patched(old.active, patch.active),
                                                   !.partner = Patched(old.partner, patch.partner)]]
                      ELSE account
        /\ Finish(c)
        /\ UNCHANGED <<plates, adminSessions, portalSessions>>

-----------------------------------------------------------------------------
(* deleteUser() *)

\* One cannot delete the account one acts as.
BeginDeleteUser(c) ==
    /\ adminCall[c] = NoCall
    /\ \E acting \in adminSessions : \E u \in Users \ {acting} :
        /\ There(u)
        /\ Proceed(c, [op |-> "delete", at |-> "guard", user |-> u, partner |-> account[u].partner])
    /\ UNCHANGED <<account, plates, adminSessions, portalSessions>>

\* Mutant: the account itself counts as remaining.
CountWithItself(c) ==
    LET call == adminCall[c] IN
    /\ Handling(c, "delete", "count")
    /\ Proceed(c, [op |-> "delete", at |-> "delete", user |-> call.user,
                   drop |-> IF UsersOf(call.partner) = {} THEN {call.partner} \cap plates ELSE {}])
    /\ UNCHANGED <<account, plates, adminSessions, portalSessions>>

\* In the transaction: whether other users of the partner remain; if not, the
\* plates it has now go with the account.
CountUsers(c) ==
    LET call == adminCall[c] IN
    /\ Handling(c, "delete", "count")
    /\ Proceed(c, [op |-> "delete", at |-> "delete", user |-> call.user,
                   drop |-> IF UsersOf(call.partner) \ {call.user} = {}
                            THEN {call.partner} \cap plates ELSE {}])
    /\ UNCHANGED <<account, plates, adminSessions, portalSessions>>

CommitDelete(c) ==
    LET call == adminCall[c] IN
    /\ Handling(c, "delete", "delete")
    /\ account' = [account EXCEPT ![call.user] = [NoAccount EXCEPT !.at = "deleted"]]
    /\ plates' = plates \ call.drop
    /\ Finish(c)
    /\ UNCHANGED <<adminSessions, portalSessions>>

AbortAdminCall(c) ==
    /\ adminCall[c] # NoCall
    /\ Finish(c)
    /\ UNCHANGED <<account, plates, adminSessions, portalSessions>>

-----------------------------------------------------------------------------

\* The seed creates the first super admin.
UserInit ==
    /\ \E seed \in Users :
        account = [u \in Users |-> IF u = seed
            THEN [at |-> "there", super |-> TRUE, active |-> TRUE, partner |-> NoPartner]
            ELSE NoAccount]
    /\ plates = {}
    /\ adminSessions = {}
    /\ portalSessions = {}
    /\ adminCall = [c \in Clients |-> NoCall]

UserHandler(c) ==
    \/ BeginUpdateUser(c) \/ GuardUpdate(c) \/ WriteUser(c)
    \/ BeginDeleteUser(c) \/ GuardDelete(c) \/ CountUsers(c) \/ CommitDelete(c)
    \/ AbortAdminCall(c)

UserNext ==
    \/ \E u \in Users : LogIn(u) \/ CreateUser(u)
    \/ \E c \in Clients : UserHandler(c) \/ \E p \in Partners : RegisterPlate(c, p)

UserSpec == UserInit /\ [][UserNext]_userVars

-----------------------------------------------------------------------------
(* Properties *)

\* Somebody can always administer: "Guards against locking everyone out by
\* demoting/deactivating the last active super_admin" (updateUser, deleteUser).
SomeSuperAdmin == ActiveSuperAdmins # {}

\* "When the account is a partner's LAST portal user, that partner's plate
\* registrations are dropped too" (deleteUser).
PlatesLeaveWithLastUser ==
    [][\A p \in Partners : \A u \in UsersOf(p) :
        account'[u].at = "deleted" /\ UsersOf(p)' = {} => p \notin plates']_userVars
=============================================================================
