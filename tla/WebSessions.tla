---------------------------- MODULE WebSessions ----------------------------
(***************************************************************************)
(* The cookie session of one browser.  It has a slot per audience, admin   *)
(* and partner portal; logging in to one carries the other's slot into a   *)
(* regenerated session, and a login ends after an absolute time.           *)
(*                                                                         *)
(* express-session loads the session when a request arrives and saves the  *)
(* request's copy when it ends, if the handler changed it: requests of one *)
(* browser that overlap work on copies, and the last one to save wins.     *)
(***************************************************************************)
EXTENDS HttpClients

CONSTANTS
    Sids,               \* session ids; each is generated once
    NoSid,              \* a browser without the cookie
    AbsoluteMax,        \* SESSION_ABSOLUTE_MAX_MS
    LastHour            \* when the clock stops

ASSUME SessionAssumption == AbsoluteMax \in Nat /\ LastHour \in Nat /\ NoSid \notin Sids

VARIABLES
    store,              \* Redis: sid |-> the session, or Nowhere
    cookie,             \* the sid the browser sends
    issued,             \* the sids generated so far
    hour,               \* the clock
    overstayed,         \* a request was served on a login older than it may be
    webCall,            \* client |-> the request it is in
    sockets             \* open Socket.IO connections: when their account logged in

sessionVars == <<store, cookie, issued, hour, overstayed, webCall, sockets>>

-----------------------------------------------------------------------------
Audiences == {"admin", "partner"}

\* A slot: when the account logged in as the session has it, when it really did,
\* and whether it still has to change its password.
EmptySlot    == [at |-> 0, real |-> 0, must |-> FALSE, on |-> FALSE]
FreshSlot(m) == [at |-> hour, real |-> hour, must |-> m, on |-> TRUE]
Nowhere      == [a \in Audiences |-> EmptySlot]
Other(a)     == CHOOSE b \in Audiences : b # a
NoRequest    == [op |-> "none", at |-> "none", aud |-> "none", sid |-> NoSid, copy |-> Nowhere]

AtStage(c, at)   == webCall[c].at = at
Serve(c, call) == webCall' = Now(webCall, c, call)

\* liveSlotUser evicts a slot whose login is too old.
Expired(slot)   == slot.on /\ hour - slot.at > AbsoluteMax
Evicted(s, as)  == [a \in Audiences |-> IF a \in as /\ Expired(s[a]) THEN EmptySlot ELSE s[a]]

\* resolveSessionUser: whose slot a path looks at; a shared path takes the one
\* that must change its password, else the administrator's.
Looked(path) == IF path = "shared" THEN Audiences ELSE {path}
Resolved(s, path) ==
    LET live == {a \in Looked(path) : s[a].on}
        must == {a \in live : s[a].must}
    IN  CASE live = {}  -> "none"
          [] must # {}  -> IF "admin" \in must THEN "admin" ELSE "partner"
          [] OTHER      -> IF "admin" \in live THEN "admin" ELSE "partner"

\* A request served on a slot, however old the session believes it is.
Judge(s, aud) == overstayed' = (overstayed \/ hour - s[aud].real > AbsoluteMax)

-----------------------------------------------------------------------------
\* SessionGuard, for a page of either audience, a log-out or a change of
\* password; the handler then runs on the request's copy.
Arrive(c, op, path) ==
    LET s    == IF cookie = NoSid THEN Nowhere ELSE store[cookie]
        copy == Evicted(s, Looked(path))
        aud  == Resolved(copy, path)
        at   == IF aud # "none" /\ op # "page" THEN "handle" ELSE "save"
    IN  /\ AtStage(c, "none")
        /\ Serve(c, IF at = "save" /\ copy = s THEN NoRequest
                    ELSE [op |-> op, at |-> at, aud |-> aud, sid |-> cookie, copy |-> copy])
        /\ IF aud = "none" THEN UNCHANGED overstayed ELSE Judge(copy, aud)
        /\ UNCHANGED <<store, cookie, issued, hour, sockets>>

\* changePassword clears the flag in the slot that holds the account; when the
\* account logged in does not change.
ChangePassword(c) ==
    /\ AtStage(c, "handle") /\ webCall[c].op = "password"
    /\ Serve(c, [webCall[c] EXCEPT !.at = "save", !.copy[webCall[c].aud].must = FALSE])
    /\ UNCHANGED <<store, cookie, issued, hour, overstayed, sockets>>

\* logout clears its slot, and destroys the session if the other one is empty.
LogOut(c) ==
    LET a    == webCall[c].aud
        left == [webCall[c].copy EXCEPT ![a] = EmptySlot]
    IN  /\ AtStage(c, "handle") /\ webCall[c].op = "logout"
        /\ IF left[Other(a)].on
           THEN Serve(c, [webCall[c] EXCEPT !.at = "save", !.copy = left]) /\ UNCHANGED store
           ELSE /\ store' = [store EXCEPT ![webCall[c].sid] = Nowhere]
                /\ Serve(c, NoRequest)
        /\ UNCHANGED <<cookie, issued, hour, overstayed, sockets>>

\* login: the request arrives, the credentials are checked.
ArriveToLogIn(c, a) ==
    /\ AtStage(c, "none")
    /\ Serve(c, [op |-> "login", at |-> "handle", aud |-> a, sid |-> cookie,
                 copy |-> IF cookie = NoSid THEN Nowhere ELSE store[cookie]])
    /\ UNCHANGED <<store, cookie, issued, hour, overstayed, sockets>>

\* Mutant: the time of the login that carries it.
CarriedAnew(slot) == IF slot.on THEN [slot EXCEPT !.at = hour] ELSE slot

\* The slot carried over keeps the time of its login.
Carried(slot) == slot

\* The old session is destroyed, the new one has the new slot and the other's.
Regenerate(c, must) ==
    LET a   == webCall[c].aud
        new == CHOOSE sid \in Sids : sid \notin issued
    IN
    /\ AtStage(c, "handle") /\ webCall[c].op = "login"
    /\ Sids \ issued # {}
    /\ issued' = issued \cup {new}
    /\ store' = IF webCall[c].sid = NoSid THEN store ELSE [store EXCEPT ![webCall[c].sid] = Nowhere]
    /\ Serve(c, [webCall[c] EXCEPT !.at = "save", !.sid = new,
                    !.copy = [b \in Audiences |-> IF b = a THEN FreshSlot(must)
                                                  ELSE Carried(webCall[c].copy[b])]])
    /\ UNCHANGED <<cookie, hour, overstayed, sockets>>

\* The end of a request: its copy is saved, the cookie is set.
SaveSession(c) ==
    /\ AtStage(c, "save")
    /\ store' = [store EXCEPT ![webCall[c].sid] = webCall[c].copy]
    /\ cookie' = webCall[c].sid
    /\ Serve(c, NoRequest)
    /\ UNCHANGED <<issued, hour, overstayed, sockets>>

\* The key's time to live runs out after an idle time; the clock moves on.
IdleOut(sid) ==
    /\ store[sid] # Nowhere
    /\ store' = [store EXCEPT ![sid] = Nowhere]
    /\ UNCHANGED <<cookie, issued, hour, overstayed, webCall, sockets>>

HourPasses ==
    /\ hour < LastHour
    /\ hour' = hour + 1
    /\ UNCHANGED <<store, cookie, issued, overstayed, webCall, sockets>>

\* The handshake of a socket reads the stored session and keeps the account it
\* finds: the administrator's slot, else the partner's, whose account may have an
\* administrator's role as well.  It looks at no age and changes no slot, and
\* nothing closes the connection when the login ends.
Connect ==
    LET s    == IF cookie = NoSid THEN Nowhere ELSE store[cookie]
        user == IF s["admin"].on THEN s["admin"] ELSE s["partner"]
    IN  /\ user.on
        /\ sockets' = sockets \cup {user.real}
        /\ UNCHANGED <<store, cookie, issued, hour, overstayed, webCall>>

Disconnect(login) ==
    /\ sockets' = sockets \ {login}
    /\ UNCHANGED <<store, cookie, issued, hour, overstayed, webCall>>

SessionInit ==
    /\ store = [s \in Sids |-> Nowhere]
    /\ cookie = NoSid
    /\ issued = {}
    /\ hour = 0
    /\ overstayed = FALSE
    /\ webCall = [c \in Clients |-> NoRequest]
    /\ sockets = {}

SessionNext ==
    \/ \E c \in Clients :
        \/ \E a \in Audiences : Arrive(c, "page", a) \/ Arrive(c, "logout", a) \/ ArriveToLogIn(c, a)
        \/ Arrive(c, "password", "shared")
        \/ \E must \in BOOLEAN : Regenerate(c, must)
        \/ ChangePassword(c) \/ LogOut(c) \/ SaveSession(c)
    \/ \E sid \in Sids : IdleOut(sid)
    \/ Connect
    \/ \E login \in sockets : Disconnect(login)
    \/ HourPasses

SessionSpec == SessionInit /\ [][SessionNext]_sessionVars

-----------------------------------------------------------------------------
\* No HTTP request is served on a login older than the absolute cap, however often
\* the slot was carried into another session, its password changed, or an older
\* copy of it saved over a newer one (liveSlotUser).  It says nothing of sockets: a
\* handshake is admitted past the cap, and a connection outlives it, so the comment
\* in config/session.ts ("regardless of activity") holds for requests only.
CapHolds == ~overstayed
=============================================================================
