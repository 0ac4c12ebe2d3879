----------------------------- MODULE LoginPage -----------------------------
(***************************************************************************)
(* Logging in and out: controller loginCtrl, whose $scope.login.userid the *)
(* input field, the login and every request share, and the tables the      *)
(* pages fetch.                                                            *)
(***************************************************************************)
EXTENDS WebPage

VARIABLES
    interface,   \* window.interface: "admin" or "run"
    userid,      \* $scope.login.userid: "admin", "user" or empty
    guid,        \* $scope.login.guid, or 0
    multi,       \* the users' MultiLogin
    dbsessions,  \* the server's sessions: [GUID -> login]
    lastguid     \* the GUIDs that were minted

loginVars == <<interface, userid, guid, multi, dbsessions, lastguid>>

LoginInit ==
    /\ interface \in {"admin", "run"}
    /\ userid = ""
    /\ guid = 0
    /\ multi \in BOOLEAN
    /\ dbsessions = [g \in {} |-> ""]
    /\ lastguid = 0

Pages == {"admin.html", "run.html"}
PageOf(u) == IF u = "admin" THEN "admin.html" ELSE "run.html"
Credentials(u, g) == [user |-> u, guid |-> g]
Known(c) == c.guid \in DOMAIN dbsessions /\ dbsessions[c.guid] = c.user

-----------------------------------------------------------------------------
(* The user                                                                *)

TypeLogin(u) ==
    /\ ActsOn({"login.html"})
    /\ userid' = u
    /\ UNCHANGED <<net, interface, guid, multi, dbsessions, lastguid>>

(* "You do not have admin access.", "Admin user is not allowed here."      *)
dologin ==
    /\ ActsOn({"login.html"})
    /\ IF (userid = "admin") = (interface = "admin")
       THEN Send("login", Credentials(userid, 0)) /\ UNCHANGED userid
       ELSE userid' = "" /\ UNCHANGED net
    /\ UNCHANGED <<interface, guid, multi, dbsessions, lastguid>>

(* Anything the user does on a page that fetches a table.                  *)
Fill ==
    /\ ActsOn(Pages)
    /\ Send("fill", Credentials(userid, guid))
    /\ UNCHANGED loginVars

Logout ==
    /\ ActsOn(Pages)
    /\ Send("logout", Credentials(userid, guid))
    /\ UNCHANGED loginVars

-----------------------------------------------------------------------------
(* The server, see module Sessions                                         *)

(* The sessions a login leaves open.                                       *)
Others(u) == [g \in {h \in DOMAIN dbsessions : multi \/ dbsessions[h] # u} |-> dbsessions[g]]

DoLogin(s) ==
    LET u == net[s].arg.user
    IN /\ Awaited(s, "login")
       /\ \/ /\ u # ""
             /\ lastguid' = lastguid + 1
             /\ dbsessions' = WithRow(Others(u), lastguid', u)
             /\ net' = Answered(s, "ok", lastguid')
          \/ net' = Answered(s, "refused", 0) /\ UNCHANGED <<lastguid, dbsessions>>
       /\ UNCHANGED <<pageurl, loop, moves, session, broke, hasty>>
       /\ UNCHANGED <<interface, userid, guid, multi>>

CheckLogin(s) ==
    LET known == Known(net[s].arg)
    IN /\ Awaited(s, "fill") \/ Awaited(s, "logout")
       /\ net' = Answered(s, IF known THEN "ok" ELSE "expired", 0)
       /\ dbsessions' = IF known /\ net[s].op = "logout"
                        THEN WithoutRow(dbsessions, net[s].arg.guid) ELSE dbsessions
       /\ UNCHANGED <<pageurl, loop, moves, session, broke, hasty>>
       /\ UNCHANGED <<interface, userid, guid, multi, lastguid>>

(* A session times out; session is history here.                           *)
SessionExpires(g) ==
    /\ Expire
    /\ dbsessions' = WithoutRow(dbsessions, g)
    /\ UNCHANGED <<interface, userid, guid, multi, lastguid>>

-----------------------------------------------------------------------------
(* The callbacks                                                           *)

(* Mutant of GuidForPage: the page opens with the GUID of the login        *)
(* before.                                                                 *)
OldGuid(new) == guid

GuidForPage(new) == new

(* The page that opens fetches its table at once.                          *)
LoginArrives(s) ==
    /\ Arrived(s, "login")
    /\ IF net[s].st = "ok"
       THEN /\ guid' = net[s].data
            /\ pageurl' = PageOf(userid)
            /\ IF pageurl' = pageurl THEN net' = Without(s)
               ELSE SendFrom(Without(s), "fill", Credentials(userid, GuidForPage(net[s].data)))
            /\ UNCHANGED userid
       ELSE net' = Without(s) /\ userid' = "" /\ UNCHANGED <<guid, pageurl>>
    /\ UNCHANGED <<loop, moves, session, broke, hasty>>
    /\ UNCHANGED <<interface, multi, dbsessions, lastguid>>

LoginFails(s) ==
    /\ ErrorCallback(s, FALSE)
    /\ net[s].op = "login"
    /\ userid' = ""
    /\ UNCHANGED <<interface, guid, multi, dbsessions, lastguid>>

FillArrives(s) == Arrived(s, "fill") /\ Callback(s) /\ UNCHANGED loginVars

FillFails(s) == ErrorCallback(s, TRUE) /\ net[s].op = "fill" /\ UNCHANGED loginVars

LogoutArrives(s) ==
    /\ net[s] # NoRequest
    /\ net[s].op = "logout"
    /\ net[s].st # "open"
    /\ net' = Without(s)
    /\ guid' = 0
    /\ userid' = ""
    /\ pageurl' = "login.html"
    /\ UNCHANGED <<loop, moves, session, broke, hasty>>
    /\ UNCHANGED <<interface, multi, dbsessions, lastguid>>

-----------------------------------------------------------------------------
LoginUser == (\E u \in {"admin", "user"} : TypeLogin(u)) \/ dologin \/ Fill \/ Logout

LoginServer ==
    \/ \E s \in Slots : DoLogin(s) \/ CheckLogin(s)
    \/ \E g \in DOMAIN dbsessions : SessionExpires(g)
    \/ \E s \in Slots : Break(s) /\ UNCHANGED loginVars

LoginCallbacks ==
    \E s \in Slots : \/ LoginArrives(s) \/ LoginFails(s)
                     \/ FillArrives(s) \/ FillFails(s) \/ LogoutArrives(s)

LoginNext == LoginUser \/ LoginServer \/ LoginCallbacks

-----------------------------------------------------------------------------
LoginTypeOK ==
    /\ pageurl \in Pages \cup {"login.html"}
    /\ userid \in {"", "admin", "user"}
    /\ guid \in 0 .. lastguid
    /\ \A g \in DOMAIN dbsessions : g \in 1 .. lastguid /\ dbsessions[g] \in {"admin", "user"}

(* What SessionShown says while this is the page.                          *)
LoginShown ==
    Patient /\ ~InFlight =>
        IF pageurl = "login.html" THEN DOMAIN dbsessions = {}
        ELSE /\ pageurl = PageOf(userid)
             /\ pageurl = PageOf(interface)
             /\ Known(Credentials(userid, guid))
=============================================================================
