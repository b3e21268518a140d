------------------------------- MODULE Panel -------------------------------
(***************************************************************************)
(* web/src/App.tsx, components/Layout.tsx and pages/Login.tsx: the session *)
(* of one tab and the pages it draws one at a time.                        *)
(*                                                                         *)
(* Every page is a module over the state of PanelApi; here they are put    *)
(* together with what outlives them: the session, the theme, the sockets   *)
(* of the console, and the handlers that go on when their page is left.    *)
(***************************************************************************)
EXTENDS PanelApi

CONSTANTS
    MaxTokens,  \* bound: tokens told apart
    Starts,     \* bound: what a tab may start as, [role, page, choice]
    LinksFrom,  \* bound: the pages the user goes to, from each page
    Exits,      \* bound: the pages the user signs out from
    Themed,     \* bound: the pages on which the provider's own calls are followed
    Ids, Cores, Default, Customs, Dirs, Root, MaxUpload, Queries, MaxTasks,
    Drafts, DefaultDraft, Providers, Users, Me

ASSUME PanelAssumption ==
    /\ MaxTokens \in Nat \ {0} /\ MaxUpload \in Nat \ {0} /\ MaxTasks \in Nat
    /\ Default \in Cores /\ Root \in Dirs /\ DefaultDraft \in Drafts /\ Me \in Users

VARIABLES
    auth,     \* App's state: "checking", "anonymous" or "in"
    role,     \* the role of the account
    sockets,  \* PanelConsole
    look      \* PanelTheme

appVars == <<page, auth, role>>
vars == <<appVars, token, faults, look, sockets, view, host, calls>>

Servers    == INSTANCE PanelServers
Console    == INSTANCE PanelConsole
Theme      == INSTANCE PanelTheme
Files      == INSTANCE PanelFiles
Catalog    == INSTANCE PanelCatalog
Modpacks   == INSTANCE PanelModpacks
\* Bound: there is one schedule to type.
Backups    == INSTANCE PanelBackups WITH Drafts <- {DefaultDraft}
Connect    == INSTANCE PanelConnect
Properties == INSTANCE PanelProperties
Options    == INSTANCE PanelOptions
Links      == INSTANCE PanelLinks
Bots       == INSTANCE PanelBots
Admin      == INSTANCE PanelAdmin

ASSUME ThemeAssumption ==
    /\ Theme!Preview \notin Customs
    /\ \A start \in Starts : start.choice \in Theme!ThemeChoices

AdminPages == {"admin", "bots"}

\* The tabs of ServerDetail, and the two sections of Settings, are pages here.
\* Bound: what is around a tab, and the other section, is at rest meanwhile.
Tabs == {"console", "files", "catalog", "modpacks", "backups", "connect", "properties",
         "options"}
Sections == {"theme", "links"}
Pages == {"servers"} \cup Tabs \cup Sections \cup AdminPages

\* The address a tab is opened at is that of a page; Routes sends any other to
\* the servers before a page is drawn.
ASSUME StartAssumption == \A start \in Starts : start.page \in Pages

\* The routes; one that there is not leads to the servers.
Route(p) ==
    IF p \in Pages \ AdminPages \/ (p \in AdminPages /\ role = "admin") THEN p ELSE "servers"

-----------------------------------------------------------------------------
(* Pages come and go.                                                      *)

\* The handlers that act on more than their component go on without it; what
\* else a page awaits when it is left is forgotten.
Lasting == {"closed", "delete", "loadUser", "elsewhere", "handleLogout"} \cup Theme!Handlers

Left(cs) == Forget(Console!Closed(cs), DOMAIN cs \ Lasting)

HungUp == IF page = "console" THEN Console!CloseRef ELSE sockets

Unpainted == IF page \in Sections THEN Theme!EndPreview ELSE look

\* A page is mounted; cs is in flight already.
Enter(p, cs) ==
    /\ page' = p
    /\ \/ p = "servers" /\ host' \in Servers!Found /\ view' = Servers!Opening
          /\ calls' = Servers!FirstCalls(cs)
       \/ p = "console" /\ host' \in Console!Found /\ view' = Console!Opening
          /\ calls' = Console!FirstCalls(cs)
       \/ p = "theme" /\ host' \in Theme!Found /\ view' = Theme!Opening
          /\ calls' = Theme!FirstCalls(cs)
       \/ p = "files" /\ host' \in Files!Found /\ view' = Files!Opening
          /\ calls' = Files!FirstCalls(cs)
       \/ p = "catalog" /\ host' \in Catalog!Found /\ view' = Catalog!Opening
          /\ calls' = Catalog!FirstCalls(cs)
       \/ p = "modpacks" /\ host' \in Modpacks!Found /\ view' = Modpacks!Opening
          /\ calls' = Modpacks!FirstCalls(cs)
       \/ p = "backups" /\ host' \in Backups!Found /\ view' = Backups!Opening
          /\ calls' = Backups!FirstCalls(cs)
       \/ p = "connect" /\ host' \in Connect!Found /\ view' = Connect!Opening
          /\ calls' = Connect!FirstCalls(cs)
       \/ p = "properties" /\ host' \in Properties!Found /\ view' = Properties!Opening
          /\ calls' = Properties!FirstCalls(cs)
       \/ p = "options" /\ host' \in Options!Found /\ view' = Options!Opening
          /\ calls' = Options!FirstCalls(cs)
       \/ p = "links" /\ host' \in Links!Found /\ view' = Links!Opening
          /\ calls' = Links!FirstCalls(cs)
       \/ p = "bots" /\ host' \in Bots!Found /\ view' = Bots!Opening
          /\ calls' = Bots!FirstCalls(cs)
       \/ p = "admin" /\ host' \in Admin!Found /\ view' = Admin!Opening
          /\ calls' = Admin!FirstCalls(cs)

\* The links of the sidebar and the cards.
Navigate(p) ==
    /\ auth = "in" /\ p \in LinksFrom[page]
    /\ Route(p) \in Sections => Theme!Handlers \cap DOMAIN calls = {}
    /\ Enter(Route(p), Left(calls))
    /\ sockets' = HungUp
    /\ look' = IF Route(p) \in Sections THEN Theme!Previewed(Unpainted) ELSE Unpainted
    /\ UNCHANGED <<apiVars, auth, role>>

-----------------------------------------------------------------------------
(* The session.                                                            *)

loginForm == [busy |-> FALSE]

\* The login form takes the place of whatever was drawn.
SignedOut(cs) ==
    /\ auth' = "anonymous" /\ page' = "login"
    /\ host' = None
    /\ IF auth = "in"
         THEN calls' = Left(cs) /\ sockets' = HungUp /\ look' = Unpainted
         ELSE calls' = cs /\ UNCHANGED <<sockets, look>>
    /\ view' = IF auth = "anonymous" THEN view ELSE loginForm

\* App's first effect: without a token nobody is asked.
Init ==
    /\ \E start \in Starts :
         /\ page = start.page /\ role = start.role
         /\ Theme!LookInit(start.choice)
    /\ token \in {None, Revoked, 1}
    /\ auth = "checking"
    /\ faults = 0
    /\ sockets = <<>>
    /\ view = None /\ host = None
    /\ calls = IF token = None THEN <<>> ELSE [h \in {"loadUser"} |-> <<Call("me", None)>>]

NoToken ==
    /\ auth = "checking" /\ token = None
    /\ SignedOut(calls)
    /\ UNCHANGED <<apiVars, role>>

\* Mutant: the token that was refused is kept.
KeepRefusedToken(i) ==
    \/ /\ Replied(i, "loadUser") /\ auth' = "in" /\ Enter(Route(page), Without(i))
       /\ look' = Theme!Adopt(At(i).val)
       /\ UNCHANGED <<token, sockets>>
    \/ /\ Failed(i, "loadUser")
       /\ SignedOut(Without(i))
       /\ UNCHANGED token

\* loadUser.
SettleLoadUser(i) ==
    \/ /\ Replied(i, "loadUser")
       /\ LET adopted == Theme!Adopt(At(i).val)
              rest == Rename(Without(i), "handleSubmit", "elsewhere")
          IN  IF auth = "in"
                THEN /\ look' = adopted
                     /\ calls' = Without(i)
                     /\ UNCHANGED <<page, auth, view, host>>
                ELSE /\ auth' = "in"
                     /\ Enter(Route(page), IF page \in Themed
                                             THEN Theme!LoadThemes(rest, "provider", None)
                                             ELSE rest)
                     /\ look' = IF page \in Sections /\ adopted = look
                                  THEN Theme!Previewed(look) ELSE adopted
       /\ UNCHANGED <<token, sockets>>
    \/ /\ Failed(i, "loadUser")
       /\ token' = None
       /\ SignedOut(Without(i))

\* handleSubmit: the token is kept, and the form may be used again while the
\* user is loaded.
Login ==
    /\ auth = "anonymous" /\ ~view.busy
    /\ Ask("handleSubmit", "login", None)
    /\ view' = [view EXCEPT !.busy = TRUE]
    /\ UNCHANGED <<apiVars, appVars, host, look, sockets>>

SettleLogin(i) ==
    /\ \/ /\ Replied(i, "handleSubmit") \/ Replied(i, "elsewhere")
          /\ token' = At(i).val
          /\ calls' = Add(Without(i), "loadUser", [Call("me", None) EXCEPT !.tok = token'])
       \/ /\ Failed(i, "handleSubmit") \/ Failed(i, "elsewhere")
          /\ calls' = Without(i) /\ UNCHANGED token
    /\ view' = IF i[1] = "handleSubmit" THEN [view EXCEPT !.busy = FALSE] ELSE view
    /\ UNCHANGED <<page, auth, host, look, sockets>>

\* handleLogout: the token goes whatever the daemon says, the user only when
\* it agrees.
Logout ==
    /\ auth = "in" /\ page \in Exits
    /\ Ask("handleLogout", "logout", None)
    /\ UNCHANGED <<apiVars, appVars, view, host, look, sockets>>

SettleLogout(i) ==
    /\ token' = None
    /\ \/ Replied(i, "handleLogout") /\ SignedOut(Without(i))
       \/ /\ Failed(i, "handleLogout")
          /\ calls' = Without(i)
          /\ UNCHANGED <<page, auth, view, host, look, sockets>>

\* handleDelete goes to the servers from wherever the user is by then.
SettleDelete(i) ==
    /\ Replied(i, "delete")
    /\ IF auth = "in"
         THEN /\ Enter("servers", Left(Without(i)))
              /\ sockets' = HungUp /\ look' = Unpainted
         ELSE /\ calls' = Without(i)
              /\ UNCHANGED <<page, view, host, look, sockets>>
    /\ UNCHANGED <<token, auth>>

SettleApp(i) ==
    /\ SettleLoadUser(i) \/ SettleLogin(i) \/ SettleLogout(i) \/ SettleDelete(i)
    /\ UNCHANGED role

\* A session gets a token that nobody has.
Fresh ==
    LET logins == {i \in InFlight : At(i).op = "login"}
        held == {token} \cup {At(i).tok : i \in InFlight} \cup {At(i).val : i \in logins}
    IN  1..MaxTokens \ held

\* The daemon's half.
ServeApp(i) ==
    /\ \/ /\ Asked(i, "me")
          /\ \E profile \in IF page \in Themed THEN Theme!ThemeChoices ELSE {look.choice} :
                Answer(i, profile)
          /\ UNCHANGED token
       \/ /\ Asked(i, "logout")
          /\ LET without(tok) == IF tok = At(i).tok THEN Revoked ELSE tok
             IN  /\ token' = without(token)
                 /\ calls' = [h \in DOMAIN calls |->
                                [k \in DOMAIN calls[h] |->
                                   IF <<h, k>> = i THEN Answered(At(i), "ok", None)
                                   ELSE [calls[h][k] EXCEPT !.tok = without(@)]]]
       \/ /\ At(i).op = "login" /\ At(i).st = "sent"
          /\ \/ Reject(i)
             \/ Fresh # {} /\ Answer(i, CHOOSE t \in Fresh : \A u \in Fresh : t <= u)
          /\ UNCHANGED token
    /\ UNCHANGED <<faults, view, host, look>>

\* What a page that is gone asked for.
ServeLate(i) ==
    /\ page # "console" /\ i[1] \in {"closed", "delete"}
    /\ Asked(i, At(i).op)
    /\ Answer(i, None)
    /\ UNCHANGED <<apiVars, view, host>>

SettleLate(i) ==
    /\ page # "console"
    /\ Ended(i, "closed") \/ Failed(i, "delete")
    /\ calls' = Without(i)
    /\ UNCHANGED <<token, view, host, sockets>>

-----------------------------------------------------------------------------
On(p) == page = p /\ auth = "in" /\ UNCHANGED appVars

Serve(i) ==
    \/ ServeApp(i) /\ UNCHANGED <<appVars, sockets>>
    \/ ServeLate(i) /\ UNCHANGED <<appVars, sockets, look>>
    \/ Theme!Serve(i) /\ UNCHANGED <<appVars, sockets, look>>
    \/ On("servers") /\ Servers!Serve(i) /\ UNCHANGED <<sockets, look>>
    \/ On("console") /\ Console!Serve(i) /\ UNCHANGED look
    \/ On("files") /\ Files!Serve(i) /\ UNCHANGED <<sockets, look>>
    \/ On("catalog") /\ Catalog!Serve(i) /\ UNCHANGED <<sockets, look>>
    \/ On("modpacks") /\ Modpacks!Serve(i) /\ UNCHANGED <<sockets, look>>
    \/ On("backups") /\ Backups!Serve(i) /\ UNCHANGED <<sockets, look>>
    \/ On("connect") /\ Connect!Serve(i) /\ UNCHANGED <<sockets, look>>
    \/ On("properties") /\ Properties!Serve(i) /\ UNCHANGED <<sockets, look>>
    \/ On("options") /\ Options!Serve(i) /\ UNCHANGED <<sockets, look>>
    \/ On("links") /\ Links!Serve(i) /\ UNCHANGED <<sockets, look>>
    \/ On("bots") /\ Bots!Serve(i) /\ UNCHANGED <<sockets, look>>
    \/ On("admin") /\ Admin!Serve(i) /\ UNCHANGED <<sockets, look>>

Settle(i) ==
    \/ SettleApp(i)
    \/ SettleLate(i) /\ UNCHANGED <<appVars, look>>
    \/ Theme!Settle(i) /\ UNCHANGED <<appVars, sockets>>
    \/ On("servers") /\ Servers!Settle(i) /\ UNCHANGED <<sockets, look>>
    \/ On("console") /\ Console!Settle(i) /\ UNCHANGED look
    \/ On("files") /\ Files!Settle(i) /\ UNCHANGED <<sockets, look>>
    \/ On("catalog") /\ Catalog!Settle(i) /\ UNCHANGED <<sockets, look>>
    \/ On("modpacks") /\ Modpacks!Settle(i) /\ UNCHANGED <<sockets, look>>
    \/ On("backups") /\ Backups!Settle(i) /\ UNCHANGED <<sockets, look>>
    \/ On("connect") /\ Connect!Settle(i) /\ UNCHANGED <<sockets, look>>
    \/ On("properties") /\ Properties!Settle(i) /\ UNCHANGED <<sockets, look>>
    \/ On("options") /\ Options!Settle(i) /\ UNCHANGED <<sockets, look>>
    \/ On("links") /\ Links!Settle(i) /\ UNCHANGED <<sockets, look>>
    \/ On("bots") /\ Bots!Settle(i) /\ UNCHANGED <<sockets, look>>
    \/ On("admin") /\ Admin!Settle(i) /\ UNCHANGED <<sockets, look>>

Refuse(i) == Unauthorized(i) /\ UNCHANGED <<appVars, look, sockets>>

PageNext ==
    \/ On("servers") /\ Servers!Next /\ UNCHANGED <<sockets, look>>
    \/ On("console") /\ Console!Next /\ UNCHANGED look
    \/ On("theme") /\ Theme!Next /\ UNCHANGED sockets
    \/ On("files") /\ Files!Next /\ UNCHANGED <<sockets, look>>
    \/ On("catalog") /\ Catalog!Next /\ UNCHANGED <<sockets, look>>
    \/ On("modpacks") /\ Modpacks!Next /\ UNCHANGED <<sockets, look>>
    \/ On("backups") /\ Backups!Next /\ UNCHANGED <<sockets, look>>
    \/ On("connect") /\ Connect!Next /\ UNCHANGED <<sockets, look>>
    \/ On("properties") /\ Properties!Next /\ UNCHANGED <<sockets, look>>
    \/ On("options") /\ Options!Next /\ UNCHANGED <<sockets, look>>
    \/ On("links") /\ Links!Next /\ UNCHANGED <<sockets, look>>
    \/ On("bots") /\ Bots!Next /\ UNCHANGED <<sockets, look>>
    \/ On("admin") /\ Admin!Next /\ UNCHANGED <<sockets, look>>

\* The theme button of the sidebar.
Toggle == auth = "in" /\ page \in Themed /\ Theme!Toggle /\ UNCHANGED <<appVars, sockets>>

Next ==
    \/ \E i \in InFlight : Serve(i) \/ Settle(i) \/ Refuse(i)
    \/ NoToken \/ Login \/ Logout
    \/ \E p \in Pages : Navigate(p)
    \/ PageNext
    \/ Toggle

Spec == Init /\ [][Next]_vars

-----------------------------------------------------------------------------
(* Fairness: what is asked is answered or fails in the end, and the        *)
(* timers of the open page fire.  Nobody has to press anything.  Calls are *)
(* taken together where one of them cannot be asked for again and again    *)
(* while a button waits for another.  The fairness of the timers is strong *)
(* because the bound MaxCalls, which the code does not have, stops them    *)
(* while other calls are in flight.                                        *)

Session == {"loadUser", "handleSubmit", "elsewhere", "handleLogout"}
Awaited == {{"change", "poll"}, {"save", "saveTheme"}}
Others ==
    Session \cup {"reload", "provider", "removeTheme", "effect", "read", "search", "upload",
                  "orphan", "versions", "connect", "closed", "delete"}

Progress(handlers) ==
    \E h \in DOMAIN calls \cap handlers :
        Settle(<<h, 1>>) \/ Serve(<<h, 1>>) \/ Refuse(<<h, 1>>)

Timers ==
    \/ On("servers") /\ Servers!Tick /\ UNCHANGED <<sockets, look>>
    \/ On("console") /\ Console!Tick /\ UNCHANGED look
    \/ On("backups") /\ Backups!Tick /\ UNCHANGED <<sockets, look>>
    \/ On("modpacks") /\ Modpacks!Poll /\ UNCHANGED <<sockets, look>>

FairSpec ==
    /\ Spec
    /\ \A handlers \in Awaited \cup {Others} : WF_vars(Progress(handlers))
    /\ SF_vars(Timers)

-----------------------------------------------------------------------------
(* Properties.                                                             *)

\* What every variable holds, on every page.
TypeOK ==
    /\ page \in Pages \cup {"login"} /\ auth \in {"checking", "anonymous", "in"}
    /\ token \in {None} \cup 0..MaxTokens /\ faults \in 0..MaxFaults
    /\ \A i \in InFlight :
         /\ At(i).op \in Operations /\ At(i).tok \in {None} \cup 0..MaxTokens
         /\ At(i).st \in {"sent", "ok", "err"}
    /\ Theme!LookType /\ Console!SocketType
    /\ auth = "in" =>
         /\ page = "servers" => Servers!Types
         /\ page = "console" => Console!Types
         /\ page = "theme" => Theme!Types
         /\ page = "files" => Files!Types
         /\ page = "catalog" => Catalog!Types
         /\ page = "modpacks" => Modpacks!Types
         /\ page = "backups" => Backups!Types
         /\ page = "connect" => Connect!Types
         /\ page = "properties" => Properties!Types
         /\ page = "options" => Options!Types
         /\ page = "links" => Links!Types
         /\ page = "bots" => Bots!Types
         /\ page = "admin" => Admin!Types

\* A page leaves nothing behind: whatever order the ticket, the status and
\* the user came in, there is one console socket at most, and only while the
\* console is drawn of a server that is live; the unsaved theme of the editor
\* is painted only while Settings is open.
LeavesNothing ==
    /\ Len(sockets) <= 1
    /\ sockets # <<>> => auth = "in" /\ page = "console" /\ Console!Available(view.status)
    /\ look.painted = Theme!Preview => auth = "in" /\ page \in Sections

\* A button that is drawn is disabled, or a list is hidden, until a handler ends.
Waits ==
    \/ page = "login" /\ view.busy
    \/ auth = "in" /\ page = "servers" /\ Servers!Waits
    \/ auth = "in" /\ page = "theme" /\ Theme!Waits
    \/ auth = "in" /\ page = "files" /\ Files!Waits
    \/ auth = "in" /\ page = "catalog" /\ Catalog!Waits
    \/ auth = "in" /\ page = "modpacks" /\ Modpacks!Waits
    \/ auth = "in" /\ page = "backups" /\ Backups!Waits
    \/ auth = "in" /\ page = "connect" /\ Connect!Waits
    \/ auth = "in" /\ page = "properties" /\ Properties!Waits
    \/ auth = "in" /\ page = "options" /\ Options!Waits
    \/ auth = "in" /\ page = "links" /\ Links!Waits
    \/ auth = "in" /\ page = "bots" /\ Bots!Waits
    \/ auth = "in" /\ page = "admin" /\ Admin!Waits

\* What a handler awaits, whatever it is.
Awaits(h) == h \in DOMAIN calls

\* What is disabled waits for something: while a button is disabled, or a list
\* hidden, the handler that brings it back still awaits a call, whatever the
\* other handlers of the page, the session and the theme did meanwhile; each
\* card of a server waits for a power action on that very server.
WaitsForACall ==
    /\ page = "login" /\ view.busy => Awaits("handleSubmit")
    /\ auth = "in" =>
         /\ page = "servers" =>
              /\ \A id \in view.busy : \E i \in InFlight :
                    i[1] = "change" /\ At(i).op = "power" /\ At(i).arg = id
              /\ view.form # None /\ view.form.busy => Awaits("save")
         /\ page = "theme" /\ Theme!Waits => Awaits("saveTheme")
         /\ page = "files" /\ Files!Waits => Awaits("save")
         /\ page = "modpacks" /\ Modpacks!Waits => Awaits("save")
         /\ page = "properties" /\ Properties!Waits => Awaits("save")
         /\ page = "options" /\ Options!Waits => Awaits("save")
         /\ page = "catalog" /\ Catalog!Waits => Awaits("save") \/ Awaits("change")
         /\ page = "backups" /\ Backups!Waits => Awaits("save") \/ Awaits("change")
         /\ page = "connect" /\ Connect!Waits => Awaits("change")
         /\ page = "links" /\ Links!Waits => Awaits("change")
         /\ page = "bots" /\ Bots!Waits => Awaits("change")
         /\ page = "admin" =>
              /\ view.busy # None => Awaits("change")
              /\ view.loading => \E i \in InFlight : At(i).op = "listUsers"

\* No button waits for ever: the flags that disable one are reset on every path
\* through its handler, refusals and lost answers among them.
ButtonsComeBack == []<>~Waits

\* What is drawn is what the daemon says: the list, the status of a server, and
\* no backup or install that is over is drawn as one that still runs.
UpToDate ==
    (auth = "in" /\ Accepted(token)) =>
        /\ (page = "servers" /\ view.form = None) => view.servers = host.servers
        /\ page = "console" => view.status = host.status \/ host.status = None
        /\ (page = "backups" /\ view.backup = "running") => host.backup = "running"
        /\ (page = "modpacks" /\ Modpacks!installing) => ~host.tasks[view.task.id]

\* Once nothing changes at the daemon any more, the page ends up drawing that
\* and keeps to it: late answers and dead sockets are made good by the timers.
CatchesUp == <>[][UNCHANGED host]_host => <>[]UpToDate

\* An answer is drawn only where it belongs: versions under the core that was
\* chosen last, hits under the query they were found for.
AnswersBelong ==
    /\ (auth = "in" /\ page = "servers") => Servers!VersionsBelong
    /\ (auth = "in" /\ page = "catalog") => Catalog!HitsBelong
    /\ (auth = "in" /\ page = "modpacks") => Modpacks!HitsBelong

\* Whatever was opened and loaded meanwhile, and whichever of it failed, a
\* rename takes a file to no other directory, and the editor writes no file's
\* text over another file.
MovesStayPut == (auth = "in" /\ page = "files") => Files!StaysPut

\* A bot drawn as on its way is being asked about, or the page says what failed.
BotsFollowedOrSaid == (auth = "in" /\ page = "bots") => Bots!FollowedOrSaid

\* A tab that shows the login form, with no handler of the session under way,
\* keeps no token: the next load of the tab asks to sign in too.
SessionAgrees ==
    (auth = "anonymous" /\ Session \cap DOMAIN calls = {})
        => token = None
=============================================================================
