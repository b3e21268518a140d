-------------------------- MODULE PanelPageProofs --------------------------
(***************************************************************************)
(* What the pages of the panel promise of what they draw: of each page,    *)
(* the calls its handlers may have in flight (Own), its state beside them, *)
(* and that each of its steps, and each step aside of it, keeps both.      *)
(***************************************************************************)
EXTENDS PanelProofs

-----------------------------------------------------------------------------
(* What a page knows of the calls that its own handlers await.             *)

\* BotSettings.tsx.
BotsCall(h, c) ==
    /\ h = "reload" => c.op = "listBots"
    /\ c.op = "listBots" /\ c.st = "ok" => c.val \in BOOLEAN

\* ServerFiles.tsx: what is asked for is in the directory that is named.
FilesCall(h, c) ==
    /\ h \in {"reload", "read", "save", "change", "upload"}
    /\ h = "reload" => c.op = "listFiles" /\ c.arg \in Dirs
    /\ h = "read" => /\ c.op \in {"readFile", "downloadFile"} /\ c.arg \in Dirs
                     /\ c.st = "ok" => c.val = c.arg
    /\ h = "save" => /\ c.op = "writeFile" /\ c.arg \in [text : Files!Text, dir : Dirs]
                     /\ c.arg.text.path = c.arg.text.content
    /\ h = "change" => /\ c.op \in {"deleteFile", "movePath", "makeDirectory", "unarchive"}
                       /\ c.arg.dir \in Dirs
                       /\ c.op = "movePath" => c.arg.from = c.arg.to
    /\ h = "upload" => c.op = "uploadFile" /\ c.arg \in [dir : Dirs, left : 1..MaxUpload]

\* Servers.tsx.
ServersCall(h, c) ==
    /\ h \in {"reload", "change", "effect", "versions", "save", "orphan"}
    /\ h = "reload" => c.op = "listServers" /\ (c.st = "ok" => DOMAIN c.val \subseteq Ids)
    /\ h = "change" => c.op = "power"
    /\ h = "effect" => c.op = "listCores" /\ (c.st = "ok" => c.val \subseteq Cores)
    /\ h = "versions" => c.op = "listCoreVersions" /\ (c.st = "ok" => c.val = c.arg)
    /\ h \in {"save", "orphan"} => c.op = "createServer"

\* The search box.
SearchCall(c) ==
    c.op = "searchCatalog" /\ c.arg \in Queries /\ (c.st = "ok" => c.val = c.arg)

\* ServerCatalog.tsx.
CatalogCall(h, c) ==
    /\ h = "search" => SearchCall(c)
    /\ h = "effect" => c.op = "serverContent" /\ (c.st = "ok" => c.val \in {"none", "paper"})

\* ServerModpacks.tsx.
ModpacksCall(h, c) == h = "search" => SearchCall(c)

\* ServerBackups.tsx.
BackupsCall(h, c) ==
    /\ h = "reload" => c.op = "listBackups"
    /\ c.op = "listBackups" /\ c.st = "ok" => c.val \in Backups!States
    /\ h = "effect" => c.op = "getBackupSchedule"
    /\ c.op = "getBackupSchedule" /\ c.st = "ok" => c.val \in Backups!Schedules
    /\ h = "save" => c.op = "putBackupSchedule"
    /\ c.op = "putBackupSchedule" =>
         c.arg \in Backups!Schedules /\ (c.st = "ok" => c.val \in Backups!Schedules)

\* ServerConnect.tsx.
ConnectCall(h, c) ==
    /\ h = "reload" => c.op = "serverConnect"
    /\ h = "change" => c.op \in ConnectCalls.reads \cup ConnectCalls.writes
    /\ c.op \in {"serverConnect", "forwardPort", "enableRelay"} /\ c.st = "ok"
         => c.val \in Connect!Info

\* ServerSettings.tsx.
PropertiesCall(h, c) ==
    /\ h = "reload" => c.op = "getSettings"
    /\ h = "save" => c.op = "patchSettings"
    /\ c.op = "patchSettings" => c.arg \in Drafts
    /\ c.op \in {"getSettings", "patchSettings"} /\ c.st = "ok" => c.val \in Drafts

\* ServerOptions.tsx.
OptionsCall(h, c) ==
    /\ h = "save" => c.op = "patchServer"
    /\ c.op = "patchServer" => c.arg \in Drafts /\ (c.st = "ok" => c.val \in Drafts)

\* LinkedAccounts.tsx.
LinksCall(h, c) ==
    /\ h = "reload" => c.op = "listIntegrations"
    /\ c.op = "listIntegrations" /\ c.st = "ok" => c.val \subseteq Providers
    /\ c.op = "createLinkCode" => c.arg \in Providers

\* Admin.tsx.
AdminCall(h, c) ==
    /\ h = "reload" => c.op = "listUsers"
    /\ c.op = "listUsers" /\ c.st = "ok" => c.val \subseteq Users

\* ServerDetail.tsx.
ConsoleCall(h, c) ==
    /\ h = "reload" => c.op = "getServer"
    /\ c.op = "getServer" /\ c.st = "ok" => c.val \in Statuses

OwnCall(p, h, c) ==
    /\ p = "bots" => BotsCall(h, c)
    /\ p = "files" => FilesCall(h, c)
    /\ p = "servers" => ServersCall(h, c)
    /\ p = "catalog" => CatalogCall(h, c)
    /\ p = "modpacks" => ModpacksCall(h, c)
    /\ p = "backups" => BackupsCall(h, c)
    /\ p = "connect" => ConnectCall(h, c)
    /\ p = "properties" => PropertiesCall(h, c)
    /\ p = "options" => OptionsCall(h, c)
    /\ p = "links" => LinksCall(h, c)
    /\ p = "admin" => AdminCall(h, c)
    /\ p = "console" => ConsoleCall(h, c)

Own(p, cs) ==
    \A x \in Sent(cs) : /\ x[1] \in Inner \cup Outer \cup {"connect"}
                        /\ x[1] \in Inner => OwnCall(p, x[1], x[2])

\* One more call that the page knows.
LEMMA OwnAdd ==
    ASSUME NEW p, NEW cs, Calls(cs), Own(p, cs), NEW h \in Inner, NEW c, Shaped(c),
           OwnCall(p, h, c)
    PROVE  Calls(Add(cs, h, c)) /\ Own(p, Add(cs, h, c))
<1>1. AddIs(Add(cs, h, c), cs, h, c)  BY AddKeeps DEF Calls
<1>2. \A x \in Sent(Add(cs, h, c)) : x \in Sent(cs) \/ x = <<h, c>>  BY <1>1 DEF AddIs
<1>3. Queues(Add(cs, h, c))  BY <1>1 DEF AddIs
<1> QED  BY <1>2, <1>3 DEF Calls, Own

\* What a page's handlers may do to the calls it knows.
LEMMA OwnSteps ==
    ASSUME Calls(calls), NEW p, Own(p, calls)
    PROVE  /\ \A i \in InFlight : Calls(Without(i)) /\ Own(p, Without(i))
           /\ \A cs, h, c :
                Calls(cs) /\ Own(p, cs) /\ h \in Inner /\ Shaped(c) /\ OwnCall(p, h, c)
                  => Calls(Add(cs, h, c)) /\ Own(p, Add(cs, h, c))
           /\ \A i \in InFlight : \A st, val :
                Update(i, Answered(At(i), st, val))
                    /\ (i[1] \in Inner => OwnCall(p, i[1], Answered(At(i), st, val)))
                  => Own(p, calls')
           /\ \A cs, hs :
                Calls(cs) /\ Own(p, cs) => Calls(Forget(cs, hs)) /\ Own(p, Forget(cs, hs))
<1>1. ASSUME NEW i \in InFlight  PROVE Calls(Without(i)) /\ Own(p, Without(i))
  <2>1. WithoutIs(Without(i), calls, i[1])  BY WithoutKeeps DEF Calls
  <2> QED  BY <2>1 DEF WithoutIs, Calls, Own
<1>2. ASSUME NEW cs, NEW h \in Inner, NEW c, Calls(cs), Own(p, cs), Shaped(c), OwnCall(p, h, c)
      PROVE  Calls(Add(cs, h, c)) /\ Own(p, Add(cs, h, c))
  BY <1>2, OwnAdd
<1>3. ASSUME NEW i \in InFlight, NEW st, NEW val, Update(i, Answered(At(i), st, val)),
             i[1] \in Inner => OwnCall(p, i[1], Answered(At(i), st, val))
      PROVE  Own(p, calls')
  <2> DEFINE c == Answered(At(i), st, val)
  <2>1. UpdateIs(calls', calls, i[1], c)  BY <1>3, UpdateKeeps DEF Calls
  <2>2. <<i[1], At(i)>> \in Sent(calls)  BY AtIsSent
  <2>3. i[1] \in Inner => OwnCall(p, i[1], c)  BY <1>3
  <2> HIDE DEF c
  <2>4. \A x \in Sent(calls') : x \in Sent(calls) \/ x = <<i[1], c>>  BY <2>1 DEF UpdateIs
  <2> QED  BY <2>2, <2>3, <2>4 DEF Own
<1>4. ASSUME NEW cs, NEW hs, Calls(cs), Own(p, cs)
      PROVE  Calls(Forget(cs, hs)) /\ Own(p, Forget(cs, hs))
  <2>1. ForgetIs(Forget(cs, hs), cs, hs)  BY <1>4, ForgetKeeps DEF Calls
  <2> QED  BY <1>4, <2>1 DEF ForgetIs, Calls, Own
<1> QED  BY <1>1, <1>2, <1>3, <1>4, Zenon

\* Who awaits something after a step.
LEMMA Awaiting ==
    ASSUME Calls(calls)
    PROVE  /\ \A i \in InFlight : /\ DOMAIN Without(i) \subseteq DOMAIN calls
                                  /\ DOMAIN calls \ {i[1]} \subseteq DOMAIN Without(i)
           /\ \A cs, h, c : Calls(cs) => DOMAIN Add(cs, h, c) = DOMAIN cs \cup {h}
           /\ \A i, c : Update(i, c) => DOMAIN calls' = DOMAIN calls
           /\ \A cs, hs : DOMAIN Forget(cs, hs) = DOMAIN cs \ hs
<1>1. ASSUME NEW i \in InFlight
      PROVE  /\ DOMAIN Without(i) \subseteq DOMAIN calls
             /\ DOMAIN calls \ {i[1]} \subseteq DOMAIN Without(i)
  <2>1. WithoutIs(Without(i), calls, i[1])  BY WithoutKeeps DEF Calls
  <2> QED  BY <2>1 DEF WithoutIs
<1>2. ASSUME NEW cs, NEW h, NEW c, Calls(cs)  PROVE DOMAIN Add(cs, h, c) = DOMAIN cs \cup {h}
  <2>1. AddIs(Add(cs, h, c), cs, h, c)  BY <1>2, AddKeeps DEF Calls
  <2> QED  BY <2>1 DEF AddIs
<1>3. \A i, c : Update(i, c) => DOMAIN calls' = DOMAIN calls  BY DEF Update
<1>4. \A cs, hs : DOMAIN Forget(cs, hs) = DOMAIN cs \ hs  BY DEF Forget
<1> QED  BY <1>1, <1>2, <1>3, <1>4, Zenon

\* What others do beside a page changes nothing that it knows.
LEMMA OwnAside ==
    ASSUME Calls(calls), NEW p, Own(p, calls), Aside(calls')
    PROVE  /\ Own(p, calls')
           /\ \A h \in Inner : h \in DOMAIN calls' <=> h \in DOMAIN calls
           /\ \A x \in Sent(calls') : x[1] \in Inner =>
                \E y \in Sent(calls) : AsBefore(x, y, Shared)
<1>1. Inner \cap Around = {} /\ Around \subseteq Outer
  BY DEF Inner, Around, Outer, Lasting, Theme!Handlers
<1>2. ASSUME NEW x \in Sent(calls'), x[1] \notin Around
      PROVE  \E y \in Sent(calls) : AsBefore(x, y, Shared)
  BY <1>2 DEF Aside, Beside
<1>3. ASSUME NEW h, NEW c, NEW d, AsBefore(<<h, c>>, <<h, d>>, Shared), OwnCall(p, h, d)
      PROVE  OwnCall(p, h, c)
  <2>1. /\ c.op = d.op /\ c.arg = d.arg
        /\ c.st = "ok" /\ c.op \notin Shared => d.st = "ok" /\ c.val = d.val
    BY <1>3 DEF AsBefore
  <2>2. BotsCall(h, d) => BotsCall(h, c)  BY <2>1 DEF BotsCall, Shared
  <2>3. FilesCall(h, d) => FilesCall(h, c)  BY <2>1 DEF FilesCall, Shared
  <2>4. ServersCall(h, d) => ServersCall(h, c)  BY <2>1 DEF ServersCall, Shared
  <2>5. CatalogCall(h, d) => CatalogCall(h, c)  BY <2>1 DEF CatalogCall, SearchCall, Shared
  <2>6. ModpacksCall(h, d) => ModpacksCall(h, c)  BY <2>1 DEF ModpacksCall, SearchCall, Shared
  <2>7. BackupsCall(h, d) => BackupsCall(h, c)  BY <2>1 DEF BackupsCall, Shared
  <2>8. ConnectCall(h, d) => ConnectCall(h, c)  BY <2>1 DEF ConnectCall, Shared
  <2>9. PropertiesCall(h, d) => PropertiesCall(h, c)  BY <2>1 DEF PropertiesCall, Shared
  <2>10. OptionsCall(h, d) => OptionsCall(h, c)  BY <2>1 DEF OptionsCall, Shared
  <2>11. LinksCall(h, d) => LinksCall(h, c)  BY <2>1 DEF LinksCall, Shared
  <2>12. AdminCall(h, d) => AdminCall(h, c)  BY <2>1 DEF AdminCall, Shared
  <2>13. ConsoleCall(h, d) => ConsoleCall(h, c)  BY <2>1 DEF ConsoleCall, Shared
  <2> QED
    BY <1>3, <2>2, <2>3, <2>4, <2>5, <2>6, <2>7, <2>8, <2>9, <2>10, <2>11, <2>12, <2>13
    DEF OwnCall
<1>4. Own(p, calls')
  <2>1. ASSUME NEW x \in Sent(calls')
        PROVE  /\ x[1] \in Inner \cup Outer \cup {"connect"}
               /\ x[1] \in Inner => OwnCall(p, x[1], x[2])
    <3>1. CASE x[1] \in Around  BY <1>1, <3>1
    <3>2. CASE x[1] \notin Around
      <4>1. PICK y \in Sent(calls) : AsBefore(x, y, Shared)  BY <1>2, <3>2
      <4>2. y[1] = x[1]  BY <4>1 DEF AsBefore
      <4>3. AsBefore(<<x[1], x[2]>>, <<x[1], y[2]>>, Shared)  BY <4>1 DEF AsBefore
      <4> QED  BY <1>3, <4>2, <4>3 DEF Own
    <3> QED  BY <3>1, <3>2
  <2> QED  BY <2>1 DEF Own
<1>5. \A h \in Inner : h \in DOMAIN calls' <=> h \in DOMAIN calls
  BY <1>1 DEF Aside, Beside
<1> QED  BY <1>1, <1>2, <1>4, <1>5

\* Nothing of a page is in flight when it is entered.
LEMMA OwnFit ==
    ASSUME NEW cs, Fit(cs), NEW p
    PROVE  Own(p, cs) /\ Calls(cs) /\ DOMAIN cs \cap Inner = {}
<1>1. \A x \in Sent(cs) : x[1] \in DOMAIN cs  BY SentIs
<1>2. Inner \cap Lasting = {} /\ Lasting \subseteq Outer  BY OuterAndInner
<1> QED  BY <1>1, <1>2 DEF Fit, Own

\* A call as it is made, of whatever page.
LEMMA CallMade ==
    ASSUME NEW op, NEW arg
    PROVE  /\ op \in Operations /\ token \in Tokens => Shaped(Call(op, arg))
           /\ Call(op, arg).op = op /\ Call(op, arg).arg = arg /\ Call(op, arg).st # "ok"
BY CallIsShaped

\* A call that a page's handler awaits.
LEMMA OwnAt ==
    ASSUME Calls(calls), NEW p, Own(p, calls), NEW i \in InFlight
    PROVE  /\ i[1] \in DOMAIN calls /\ i[1] \in Inner \cup Outer \cup {"connect"}
           /\ <<i[1], At(i)>> \in Sent(calls)
           /\ i[1] \in Inner => OwnCall(p, i[1], At(i))
BY AtIsSent DEF Own

\* The answer to a call.
LEMMA AnswerMade ==
    ASSUME Calls(calls), NEW i \in InFlight, NEW st, NEW val
    PROVE  /\ Answered(At(i), st, val).op = At(i).op
           /\ Answered(At(i), st, val).arg = At(i).arg
           /\ Answered(At(i), st, val).st = st
           /\ Answered(At(i), st, val).val = val
<1>1. Shaped(At(i))  BY AtIsSent DEF Calls
<1> QED  BY <1>1, AnswerIsShaped

\* A handler of a page asks for something.
LEMMA OwnAsks ==
    ASSUME token \in Tokens, NEW p, NEW cs, Calls(cs), Own(p, cs), NEW h \in Inner,
           NEW op \in Operations, NEW arg, OwnCall(p, h, Call(op, arg))
    PROVE  /\ Calls(Add(cs, h, Call(op, arg))) /\ Own(p, Add(cs, h, Call(op, arg)))
           /\ \A k : k \in DOMAIN Add(cs, h, Call(op, arg)) <=> k \in DOMAIN cs \/ k = h
<1>1. Shaped(Call(op, arg))  BY CallMade
<1>2. AddIs(Add(cs, h, Call(op, arg)), cs, h, Call(op, arg))  BY AddKeeps DEF Calls
<1>3. \A k : k \in DOMAIN Add(cs, h, Call(op, arg)) <=> k \in DOMAIN cs \/ k = h
  BY <1>2 DEF AddIs
<1> QED  BY <1>1, <1>3, OwnAdd

\* The handlers of the pages.
LEMMA InnerNames ==
    /\ "reload" \in Inner /\ "change" \in Inner /\ "save" \in Inner /\ "effect" \in Inner
    /\ "versions" \in Inner /\ "orphan" \in Inner /\ "read" \in Inner /\ "upload" \in Inner
    /\ "search" \in Inner /\ "poll" \in Inner
BY DEF Inner

\* Some are forgotten.
LEMMA OwnForget ==
    ASSUME NEW p, NEW cs, Calls(cs), Own(p, cs), NEW hs
    PROVE  Calls(Forget(cs, hs)) /\ Own(p, Forget(cs, hs))
<1>1. ForgetIs(Forget(cs, hs), cs, hs)  BY ForgetKeeps DEF Calls
<1> QED  BY <1>1 DEF ForgetIs, Calls, Own

\* What a handler of a page awaits, another of its handlers does.
LEMMA OwnRename ==
    ASSUME NEW p, NEW cs, Calls(cs), Own(p, cs), NEW h \in Inner, NEW as \in Inner, h # as,
           \A c : OwnCall(p, h, c) => OwnCall(p, as, c)
    PROVE  /\ Calls(Rename(cs, h, as)) /\ Own(p, Rename(cs, h, as))
           /\ h \notin DOMAIN Rename(cs, h, as)
           /\ DOMAIN Rename(cs, h, as) \subseteq DOMAIN cs \cup {as}
<1> DEFINE ds == Rename(cs, h, as)
<1>1. RenameIs(ds, cs, h, as) /\ Beside(ds, cs, {h, as}, {})
  BY RenameKeeps, BesideRename DEF Calls
<1> HIDE DEF ds
<1>2. ASSUME NEW x \in Sent(ds)
      PROVE  /\ x[1] \in Inner \cup Outer \cup {"connect"}
             /\ x[1] \in Inner => OwnCall(p, x[1], x[2])
  <2>1. CASE x \in Sent(cs)  BY <2>1 DEF Own
  <2>2. CASE x[1] = as /\ <<h, x[2]>> \in Sent(cs)  BY <2>2 DEF Own
  <2> QED  BY <1>1, <2>1, <2>2 DEF RenameIs
<1>3. Own(p, ds)  BY <1>2 DEF Own
<1> QED  BY <1>1, <1>3 DEF RenameIs, Beside, ds

-----------------------------------------------------------------------------
(* What a handler has asked about.                                         *)

\* All that k has asked for is about v.
ArgIs(cs, k, v) == \A x \in Sent(cs) : x[1] = k => x[2].arg = v

\* It stays so, whatever others do.
LEMMA ArgStays ==
    ASSUME Calls(calls), NEW k, NEW v
    PROVE  /\ \A i \in InFlight : ArgIs(calls, k, v) => ArgIs(Without(i), k, v)
           /\ \A i \in InFlight : \A st, val :
                ArgIs(calls, k, v) /\ Update(i, Answered(At(i), st, val)) => ArgIs(calls', k, v)
           /\ ArgIs(calls, k, v) /\ k \in Inner /\ Aside(calls') => ArgIs(calls', k, v)
<1>1. ASSUME NEW i \in InFlight, ArgIs(calls, k, v)  PROVE ArgIs(Without(i), k, v)
  <2>1. WithoutIs(Without(i), calls, i[1])  BY WithoutKeeps DEF Calls
  <2> QED  BY <1>1, <2>1 DEF WithoutIs, ArgIs
<1>2. ASSUME NEW i \in InFlight, NEW st, NEW val,
             ArgIs(calls, k, v), Update(i, Answered(At(i), st, val))
      PROVE  ArgIs(calls', k, v)
  <2> DEFINE c == Answered(At(i), st, val)
  <2>1. UpdateIs(calls', calls, i[1], c)  BY <1>2, UpdateKeeps DEF Calls
  <2>2. <<i[1], At(i)>> \in Sent(calls)  BY AtIsSent
  <2>3. c.arg = At(i).arg  BY AnswerMade
  <2> HIDE DEF c
  <2>4. \A x \in Sent(calls') : x \in Sent(calls) \/ x = <<i[1], c>>  BY <2>1 DEF UpdateIs
  <2> QED  BY <1>2, <2>2, <2>3, <2>4 DEF ArgIs
<1>3. ASSUME ArgIs(calls, k, v), k \in Inner, Aside(calls')  PROVE ArgIs(calls', k, v)
  <2>1. k \notin Around  BY <1>3 DEF Inner, Around, Lasting, Theme!Handlers
  <2>2. ASSUME NEW x \in Sent(calls'), x[1] = k  PROVE x[2].arg = v
    <3>1. PICK y \in Sent(calls) : AsBefore(x, y, Shared)
      BY <1>3, <2>1, <2>2 DEF Aside, Beside
    <3> QED  BY <1>3, <2>2, <3>1 DEF AsBefore, ArgIs
  <2> QED  BY <2>2 DEF ArgIs
<1> QED  BY <1>1, <1>2, <1>3, Zenon

\* One more call: of another handler, or about the same.
LEMMA ArgAsked ==
    ASSUME NEW cs, Calls(cs), NEW k, NEW v, ArgIs(cs, k, v), NEW h, NEW op, NEW arg,
           h # k \/ arg = v
    PROVE  ArgIs(Add(cs, h, Call(op, arg)), k, v)
<1> DEFINE c == Call(op, arg)
<1>1. AddIs(Add(cs, h, c), cs, h, c)  BY AddKeeps DEF Calls
<1>2. c.arg = arg  BY CallMade
<1> HIDE DEF c
<1>3. ArgIs(Add(cs, h, c), k, v)  BY <1>1, <1>2 DEF AddIs, ArgIs
<1> QED  BY <1>3 DEF c

\* Nothing of what is forgotten is about anything.
LEMMA ArgForgotten ==
    ASSUME NEW cs, Calls(cs), NEW k, NEW v, NEW hs, k \in hs
    PROVE  ArgIs(Forget(cs, hs), k, v)
<1>1. ForgetIs(Forget(cs, hs), cs, hs)  BY ForgetKeeps DEF Calls
<1> QED  BY <1>1 DEF ForgetIs, ArgIs

\* Who awaits nothing has asked about anything.
LEMMA ArgOfNone ==
    ASSUME NEW cs, NEW k, NEW v, k \notin DOMAIN cs
    PROVE  ArgIs(cs, k, v)
<1>1. \A x \in Sent(cs) : x[1] \in DOMAIN cs  BY SentIs
<1> QED  BY <1>1 DEF ArgIs

-----------------------------------------------------------------------------
(* The bots.                                                               *)

BotsInv ==
    auth = "in" /\ page = "bots" =>
      Bots!Types /\ Bots!FollowedOrSaid /\ Own("bots", calls)

\* Bots answers with Answer and Reject of PanelApi.
LEMMA BotsAnswers ==
    /\ \A i, val : Bots!Answer(i, val) => Update(i, Answered(At(i), "ok", val))
    /\ \A i : Bots!Reject(i) => Update(i, Answered(At(i), "err", None))
<1>1. \A i, val : Bots!Answer(i, val) => Update(i, Answered(At(i), "ok", val))
  BY Zenon DEF Bots!Answer, Bots!Update, Bots!Answered, Bots!At, Update, Answered, At
<1>2. \A i : Bots!Reject(i) => Update(i, Answered(At(i), "err", None))
  BY Zenon DEF Bots!Reject, Bots!Update, Bots!Answered, Bots!At, Update, Answered, At
<1> QED  BY <1>1, <1>2, Zenon

\* What the page knows of a call is what BotsCall says.
LEMMA BotsOwn == \A h, c : OwnCall("bots", h, c) <=> BotsCall(h, c)
BY DEF OwnCall

\* The bots when the daemon answers.
LEMMA BotsServed ==
    ASSUME Calls(calls), Bots!Types, Bots!FollowedOrSaid, Own("bots", calls),
           NEW i \in InFlight, Bots!Serve(i)
    PROVE  Bots!Types' /\ Bots!FollowedOrSaid' /\ Own("bots", calls')
<1>1. Own("bots", calls') /\ DOMAIN calls' = DOMAIN calls
  <2>1. ASSUME NEW st, NEW val, Update(i, Answered(At(i), st, val)),
               At(i).op = "listBots" => (st = "ok" => val \in BOOLEAN)
        PROVE  Own("bots", calls') /\ DOMAIN calls' = DOMAIN calls
    <3>1. ASSUME i[1] \in Inner  PROVE OwnCall("bots", i[1], Answered(At(i), st, val))
      <4>1. BotsCall(i[1], At(i))  BY <3>1, OwnAt, BotsOwn
      <4>2. BotsCall(i[1], Answered(At(i), st, val))  BY <2>1, <4>1, AnswerMade DEF BotsCall
      <4> QED  BY <4>2, BotsOwn
    <3> QED  BY <2>1, <3>1, OwnSteps, Awaiting
  <2>2. CASE Bots!Asked(i, "listBots") /\ \E pending \in BOOLEAN : Bots!Answer(i, pending)
    BY <2>1, <2>2, BotsAnswers
  <2>3. CASE Bots!Asked(i, "saveBot") \/ Bots!Asked(i, "deleteBot")
    <3>1. At(i).op # "listBots"  BY <2>3, BotsApi DEF Bots!Asked
    <3>2. \/ Update(i, Answered(At(i), "ok", None)) \/ Update(i, Answered(At(i), "err", None))
          \/ \E pending \in BOOLEAN : Update(i, Answered(At(i), "ok", pending))
      BY BotsAnswers DEF Bots!Serve
    <3> QED  BY <2>1, <3>1, <3>2
  <2> QED  BY <2>2, <2>3 DEF Bots!Serve
<1>2. view' = view  BY DEF Bots!Serve
<1> QED  BY <1>1, <1>2 DEF Bots!Types, Bots!FollowedOrSaid

\* The bots when an answer comes.
LEMMA BotsSettled ==
    ASSUME token \in Tokens, Calls(calls), Bots!Types, Bots!FollowedOrSaid, Own("bots", calls),
           NEW i \in InFlight, Bots!Settle(i)
    PROVE  Bots!Types' /\ Bots!FollowedOrSaid' /\ Own("bots", calls')
<1>1. Own("bots", Without(i)) /\ Calls(Without(i))  BY OwnSteps
<1>2. i[1] \in {"reload", "change"}
  BY DEF Bots!Settle, Bots!SettleReload, Bots!SettleChange, Bots!Replied, Bots!Failed, Bots!Got
<1>3. BotsCall(i[1], At(i))  BY <1>2, OwnAt, BotsOwn DEF Inner
<1>4. \A h \in {"reload", "change"} :
        /\ Own("bots", Add(Without(i), h, Call("listBots", None)))
        /\ h \in DOMAIN Add(Without(i), h, Call("listBots", None))
  <2> TAKE h \in {"reload", "change"}
  <2>1. OwnCall("bots", h, Call("listBots", None))  BY CallMade, BotsOwn DEF BotsCall
  <2> QED  BY <1>1, <2>1, OwnAsks, OperationNames, InnerNames
<1>5. ASSUME NEW pending \in BOOLEAN, view' = Bots!Read(pending)
      PROVE  Bots!Types' /\ (view'.pending => view'.timer)
  BY <1>5 DEF Bots!Types, Bots!Read
<1>6. CASE Bots!SettleReload(i)
  <2>1. \/ view' = Bots!Read(At(i).val) /\ At(i).st = "ok" /\ At(i).op = "listBots"
        \/ view' = [view EXCEPT !.error = TRUE]
    BY <1>3, <1>6, BotsApi DEF Bots!SettleReload, Bots!Replied, BotsCall
  <2>2. calls' = Without(i)  BY <1>6, BotsApi DEF Bots!SettleReload
  <2> QED  BY <1>1, <1>3, <1>5, <2>1, <2>2 DEF BotsCall, Bots!Types, Bots!FollowedOrSaid
<1>7. CASE Bots!SettleChange(i)
  <2>1. CASE /\ Bots!Replied(i, "change") /\ UNCHANGED view
             /\ calls' = Bots!Reload(Bots!Without(i), "change")
    <3>1. calls' = Add(Without(i), "change", Call("listBots", None))
      BY <2>1, BotsApi DEF Bots!Reload
    <3> QED  BY <1>4, <2>1, <3>1 DEF Bots!Types, Bots!FollowedOrSaid
  <2>2. CASE /\ Bots!Got(i, "change", "listBots") /\ calls' = Bots!Without(i)
             /\ view' = [Bots!Read(At(i).val) EXCEPT !.busy = None]
    <3>1. At(i).val \in BOOLEAN  BY <1>3, <2>2, BotsApi DEF Bots!Got, Bots!Replied, BotsCall
    <3> QED  BY <1>1, <2>2, <3>1, BotsApi DEF Bots!Types, Bots!FollowedOrSaid, Bots!Read
  <2>3. CASE calls' = Bots!Without(i) /\ view' = [view EXCEPT !.busy = None, !.error = TRUE]
    BY <1>1, <2>3, BotsApi DEF Bots!Types, Bots!FollowedOrSaid
  <2> QED  BY <1>7, <2>1, <2>2, <2>3, BotsApi DEF Bots!SettleChange
<1> QED  BY <1>6, <1>7 DEF Bots!Settle

\* The bots when the user or the timer acts.
LEMMA BotsActed ==
    ASSUME token \in Tokens, Calls(calls), Bots!Types, Bots!FollowedOrSaid, Own("bots", calls),
           Bots!Next
    PROVE  Bots!Types' /\ Bots!FollowedOrSaid' /\ Own("bots", calls')
<1>1. CASE Bots!Follow
  <2>1. calls' = Add(calls, "reload", Call("listBots", None))
    BY <1>1, BotsApi DEF Bots!Follow, Bots!Reload
  <2>2. OwnCall("bots", "reload", Call("listBots", None))  BY CallMade, BotsOwn DEF BotsCall
  <2>3. Own("bots", calls') /\ "reload" \in DOMAIN calls'
    BY <2>1, <2>2, OwnAsks, OperationNames, InnerNames
  <2> QED  BY <1>1, <2>3 DEF Bots!Follow, Bots!Types, Bots!FollowedOrSaid
<1>2. ASSUME NEW provider \in Providers, NEW op \in {"saveBot", "deleteBot"},
             Bots!Press(op, provider)
      PROVE  Bots!Types' /\ Bots!FollowedOrSaid' /\ Own("bots", calls')
  <2>1. calls' = Add(calls, "change", Call(op, provider))
    BY <1>2, BotsApi DEF Bots!Press, Bots!Ask
  <2>2. OwnCall("bots", "change", Call(op, provider))  BY CallMade, BotsOwn DEF BotsCall
  <2>3. Own("bots", calls') /\ "change" \in DOMAIN calls'
    BY <2>1, <2>2, OwnAsks, OperationNames, InnerNames
  <2> QED  BY <1>2, <2>3 DEF Bots!Press, Bots!Types, Bots!FollowedOrSaid
<1> QED  BY <1>1, <1>2 DEF Bots!Next, Bots!BotCalls

\* No step of the bots loses it.
LEMMA BotsKeep ==
    ASSUME PanelInv, BotsInv, [Next]_vars
    PROVE  BotsInv'
<1> SUFFICES ASSUME auth' = "in", page' = "bots"
             PROVE  Bots!Types' /\ Bots!FollowedOrSaid' /\ Own("bots", calls')
  BY DEF BotsInv
<1>1. AppInv /\ Calls(calls) /\ token \in Tokens  BY DEF PanelInv, AppInv, Held
<1>2. auth = "in" /\ page = "bots" =>
        Bots!Types /\ Bots!FollowedOrSaid /\ Own("bots", calls)
  BY DEF BotsInv
<1>3. CASE PageStep
  <2>1. auth = "in" /\ page = "bots"  BY <1>1, <1>3, PageIsInside
  <2>2. Bots!Next \/ \E i \in InFlight : Bots!Serve(i) \/ Bots!Settle(i)
    BY <1>3, <2>1 DEF PageStep, On
  <2> QED  BY <1>1, <1>2, <2>1, <2>2, BotsServed, BotsSettled, BotsActed
<1>4. CASE AsideStep
  <2>1. auth = "in" /\ page = "bots" /\ view' = view /\ Aside(calls')  BY <1>4 DEF AsideStep
  <2>2. /\ Own("bots", calls')
        /\ \A h \in Inner : h \in DOMAIN calls' <=> h \in DOMAIN calls
    BY <1>1, <1>2, <2>1, OwnAside
  <2>3. "reload" \in Inner /\ "change" \in Inner  BY DEF Inner
  <2> QED  BY <1>2, <2>1, <2>2, <2>3 DEF Bots!Types, Bots!FollowedOrSaid
<1>5. CASE EnterStep
  <2>1. PICK p \in Pages : \E cs : Fit(cs) /\ Enter(p, cs)  BY <1>5, Zenon DEF EnterStep
  <2>2. PICK cs : Fit(cs) /\ Enter(p, cs)  BY <2>1, Zenon
  <2>3. p = "bots"  BY <1>1, <2>2, EntersWith
  <2>4. view' = Bots!Opening /\ calls' = Bots!FirstCalls(cs)  BY <2>2, <2>3 DEF Enter
  <2>5. calls' = Add(cs, "reload", Call("listBots", None))
    BY <2>4, BotsApi DEF Bots!FirstCalls, Bots!Reload
  <2>6. OwnCall("bots", "reload", Call("listBots", None))  BY CallMade, BotsOwn DEF BotsCall
  <2>7. Own("bots", cs) /\ Calls(cs)  BY <2>2, OwnFit
  <2>8. Own("bots", calls')  BY <1>1, <2>5, <2>6, <2>7, OwnAsks, OperationNames, InnerNames
  <2> QED  BY <2>4, <2>8 DEF Bots!Opening, Bots!Types, Bots!FollowedOrSaid
<1>6. CASE SignOutStep  BY <1>6 DEF SignOutStep
<1>7. CASE UNCHANGED vars
  BY <1>2, <1>7 DEF vars, appVars, Bots!Types, Bots!FollowedOrSaid
<1> QED  BY <1>1, <1>3, <1>4, <1>5, <1>6, <1>7, StepIsOneOf

\* BotSettings.tsx: a bot drawn as on its way is being asked about, or the page
\* says what failed, whatever was saved, forgotten, answered and lost meanwhile.
THEOREM BotsAreFollowed == Spec => []BotsFollowedOrSaid
<1>1. Init => BotsInv  BY DEF Init, BotsInv
<1>2. PanelInv /\ BotsInv /\ [Next]_vars => BotsInv'  BY BotsKeep
<1>3. BotsInv => BotsFollowedOrSaid  BY DEF BotsInv, BotsFollowedOrSaid
<1> QED  BY <1>1, <1>2, <1>3, PanelInvariance, PTL DEF Spec

-----------------------------------------------------------------------------
(* The files.                                                              *)

\* The rows are those of the directory that is named, and the text in the
\* editor is that of the file that is named.
FilesView ==
    /\ Files!Types
    /\ view.of \in {None, view.dir}
    /\ view.editing # None => view.editing.path = view.editing.content

FilesInv == auth = "in" /\ page = "files" => FilesView /\ Own("files", calls)

\* Files answers with Answer and Reject of PanelApi.
LEMMA FilesAnswers ==
    /\ \A i, val : Files!Answer(i, val) => Update(i, Answered(At(i), "ok", val))
    /\ \A i : Files!Reject(i) => Update(i, Answered(At(i), "err", None))
<1>1. \A i, val : Files!Answer(i, val) => Update(i, Answered(At(i), "ok", val))
  BY Zenon DEF Files!Answer, Files!Update, Files!Answered, Files!At, Update, Answered, At
<1>2. \A i : Files!Reject(i) => Update(i, Answered(At(i), "err", None))
  BY Zenon DEF Files!Reject, Files!Update, Files!Answered, Files!At, Update, Answered, At
<1> QED  BY <1>1, <1>2, Zenon

\* What the page knows of a call is what FilesCall says.
LEMMA FilesOwn == \A h, c : OwnCall("files", h, c) <=> FilesCall(h, c)
BY DEF OwnCall

\* The files when the daemon answers.
LEMMA FilesServed ==
    ASSUME Calls(calls), FilesView, Own("files", calls), NEW i \in InFlight, Files!Serve(i)
    PROVE  FilesView' /\ Own("files", calls')
<1>1. ASSUME NEW st, NEW val, Update(i, Answered(At(i), st, val)),
             st = "ok" => val = At(i).arg
      PROVE  Own("files", calls')
  <2>1. ASSUME i[1] \in Inner  PROVE OwnCall("files", i[1], Answered(At(i), st, val))
    <3>1. FilesCall(i[1], At(i))  BY <2>1, OwnAt, FilesOwn
    <3>2. FilesCall(i[1], Answered(At(i), st, val))  BY <1>1, <3>1, AnswerMade DEF FilesCall
    <3> QED  BY <3>2, FilesOwn
  <2> QED  BY <1>1, <2>1, OwnSteps
<1>2. Files!Answer(i, At(i).arg) \/ Files!Reject(i)  BY FilesApi DEF Files!Serve
<1>3. Own("files", calls')
  <2>1. \/ Update(i, Answered(At(i), "ok", At(i).arg))
        \/ Update(i, Answered(At(i), "err", None))
    BY <1>2, FilesAnswers
  <2> QED  BY <1>1, <2>1
<1>4. view' = view  BY DEF Files!Serve
<1> QED  BY <1>3, <1>4 DEF FilesView, Files!Types

\* A directory is loaded.
LEMMA FilesLoads ==
    ASSUME token \in Tokens, NEW cs, Calls(cs), Own("files", cs), NEW target \in Dirs
    PROVE  Own("files", Files!Load(cs, target))
<1>1. Files!Load(cs, target) = Add(cs, "reload", Call("listFiles", target))
  BY FilesApi DEF Files!Load
<1>2. OwnCall("files", "reload", Call("listFiles", target))
  BY CallMade, FilesOwn DEF FilesCall
<1> QED  BY <1>1, <1>2, OwnAsks, OperationNames, InnerNames

\* The files when an answer comes.
LEMMA FilesSettled ==
    ASSUME token \in Tokens, Calls(calls), FilesView, Own("files", calls), NEW i \in InFlight,
           Files!Settle(i)
    PROVE  FilesView' /\ Own("files", calls')
<1>1. Own("files", Without(i)) /\ Calls(Without(i))  BY OwnSteps
<1>2. i[1] \in {"reload", "read", "save", "change", "upload"}
  BY DEF Files!Settle, Files!SettleLoad, Files!SettleRead, Files!SettleSave, Files!SettleChange,
    Files!SettleUpload, Files!Replied, Files!Failed, Files!Got
<1>3. FilesCall(i[1], At(i))  BY <1>2, OwnAt, FilesOwn DEF Inner
<1>4. \A target \in Dirs : Own("files", Files!Load(Without(i), target))  BY <1>1, FilesLoads
<1>5. CASE Files!SettleLoad(i)
  <2>1. \/ /\ i[1] = "reload"
           /\ view' = [view EXCEPT !.dir = At(i).arg, !.of = At(i).arg, !.loading = FALSE]
        \/ view' = [view EXCEPT !.loading = FALSE]
    BY <1>5, FilesApi DEF Files!SettleLoad, Files!Replied
  <2>2. calls' = Without(i)  BY <1>5, FilesApi DEF Files!SettleLoad
  <2> QED  BY <1>1, <1>3, <2>1, <2>2 DEF FilesCall, FilesView, Files!Types
<1>6. CASE Files!SettleRead(i)
  <2>1. \/ /\ At(i).arg \in Dirs /\ At(i).val = At(i).arg
           /\ view' = [view EXCEPT !.editing = [path |-> At(i).arg, content |-> At(i).val]]
        \/ view' = view
    BY <1>3, <1>6, FilesApi DEF Files!SettleRead, Files!Got, Files!Replied, FilesCall
  <2>2. calls' = Without(i)  BY <1>6, FilesApi DEF Files!SettleRead
  <2> QED  BY <1>1, <2>1, <2>2 DEF FilesView, Files!Types, Files!Text
<1>7. CASE Files!SettleSave(i)
  <2>1. CASE /\ Files!Replied(i, "save")
             /\ view' = [view EXCEPT !.saving = FALSE, !.editing = None, !.loading = TRUE]
             /\ calls' = Files!Load(Without(i), At(i).arg.dir)
    <3>1. At(i).arg.dir \in Dirs  BY <1>3, <2>1 DEF Files!Replied, FilesCall
    <3> QED  BY <1>4, <2>1, <3>1 DEF FilesView, Files!Types
  <2>2. CASE view' = [view EXCEPT !.saving = FALSE] /\ calls' = Without(i)
    BY <1>1, <2>2 DEF FilesView, Files!Types
  <2> QED  BY <1>7, <2>1, <2>2, FilesApi DEF Files!SettleSave
<1>8. CASE Files!SettleChange(i)
  <2>1. CASE /\ Files!Replied(i, "change") /\ view' = [view EXCEPT !.loading = TRUE]
             /\ calls' = Files!Load(Without(i), At(i).arg.dir)
    <3>1. At(i).arg.dir \in Dirs  BY <1>3, <2>1 DEF Files!Replied, FilesCall
    <3> QED  BY <1>4, <2>1, <3>1 DEF FilesView, Files!Types
  <2>2. CASE calls' = Without(i) /\ UNCHANGED view
    BY <1>1, <2>2 DEF FilesView, Files!Types
  <2> QED  BY <1>8, <2>1, <2>2, FilesApi DEF Files!SettleChange
<1>9. CASE Files!SettleUpload(i)
  <2> DEFINE arg == At(i).arg
  <2>1. i[1] = "upload" /\ arg \in [dir : Dirs, left : 1..MaxUpload] /\ MaxUpload \in Nat
    BY <1>3, <1>9, PanelAssumption DEF Files!SettleUpload, Files!Replied, Files!Failed,
      FilesCall
  <2>2. CASE arg.left > 1 /\ UNCHANGED view
             /\ calls' = Add(Without(i), "upload", Call("uploadFile", [arg EXCEPT !.left = @ - 1]))
    <3> DEFINE rest == [arg EXCEPT !.left = @ - 1]
    <3>1. rest \in [dir : Dirs, left : 1..MaxUpload]  BY <2>1, <2>2
    <3> HIDE DEF rest, arg
    <3>2. OwnCall("files", "upload", Call("uploadFile", rest))
      BY <3>1, CallMade, FilesOwn DEF FilesCall
    <3>3. Own("files", Add(Without(i), "upload", Call("uploadFile", rest)))
      BY <1>1, <3>2, OwnAsks, OperationNames, InnerNames
    <3> QED  BY <2>2, <3>3 DEF FilesView, Files!Types, rest, arg
  <2>3. CASE /\ view' = [view EXCEPT !.loading = TRUE]
             /\ calls' = Files!Load(Without(i), arg.dir)
    BY <1>4, <2>1, <2>3 DEF FilesView, Files!Types
  <2>4. CASE calls' = Without(i) /\ UNCHANGED view
    BY <1>1, <2>4 DEF FilesView, Files!Types
  <2> QED  BY <1>9, <2>2, <2>3, <2>4, FilesApi DEF Files!SettleUpload
<1> QED  BY <1>5, <1>6, <1>7, <1>8, <1>9 DEF Files!Settle

\* The files when the user acts.
LEMMA FilesActed ==
    ASSUME token \in Tokens, Calls(calls), FilesView, Own("files", calls), Files!Next
    PROVE  FilesView' /\ Own("files", calls')
<1>1. ASSUME NEW h \in Inner, NEW op \in Operations, NEW arg, calls' = Add(calls, h, Call(op, arg)),
             FilesCall(h, Call(op, arg))
      PROVE  Own("files", calls')
  <2>1. OwnCall("files", h, Call(op, arg))  BY <1>1, FilesOwn
  <2> QED  BY <1>1, <2>1, OwnAsks, OperationNames
<1>2. CASE \E target \in Dirs : Files!Open(target)
  <2>1. Own("files", calls')  BY <1>2, FilesLoads DEF Files!Open
  <2> QED  BY <1>2, <2>1 DEF Files!Open, FilesView, Files!Types
<1>3. CASE Files!ReadFile \/ Files!Download
  <2>1. view.of \in Dirs
    BY <1>3 DEF Files!ReadFile, Files!Download, Files!Rows, FilesView, Files!Types
  <2>2. PICK op \in {"readFile", "downloadFile"} : calls' = Add(calls, "read", Call(op, view.of))
    BY <1>3, FilesApi DEF Files!ReadFile, Files!Download, Files!Ask
  <2>3. FilesCall("read", Call(op, view.of))  BY <2>1, CallMade DEF FilesCall
  <2>4. Own("files", calls')  BY <1>1, <2>2, <2>3, OperationNames, InnerNames
  <2> QED  BY <1>3, <2>4 DEF Files!ReadFile, Files!Download, FilesView, Files!Types
<1>4. CASE Files!Cancel  BY <1>4 DEF Files!Cancel, FilesView, Files!Types
<1>5. CASE Files!Save
  <2> DEFINE arg == [text |-> view.editing, dir |-> view.dir]
  <2>1. /\ arg \in [text : Files!Text, dir : Dirs] /\ arg.text.path = arg.text.content
    BY <1>5 DEF Files!Save, FilesView, Files!Types
  <2>2. calls' = Add(calls, "save", Call("writeFile", arg))
    BY <1>5, FilesApi DEF Files!Save, Files!Ask
  <2> HIDE DEF arg
  <2>3. FilesCall("save", Call("writeFile", arg))  BY <2>1, CallMade DEF FilesCall
  <2>4. Own("files", calls')  BY <1>1, <2>2, <2>3, OperationNames, InnerNames
  <2> QED  BY <1>5, <2>4 DEF Files!Save, FilesView, Files!Types
<1>6. CASE Files!DeleteFile \/ Files!MoveFile \/ Files!MakeDirectory \/ Files!Unarchive
  <2>1. PICK op \in {"deleteFile", "movePath", "makeDirectory", "unarchive"} :
          \E from, to : /\ op = "movePath" => from = to
                        /\ calls' = Add(calls, "change",
                                        Call(op, [dir |-> view.dir, from |-> from, to |-> to]))
    BY <1>6, FilesApi DEF Files!DeleteFile, Files!MoveFile, Files!MakeDirectory,
      Files!Unarchive,
      Files!Change, Files!Ask, Files!Rows, FilesView
  <2>2. PICK from, to : /\ op = "movePath" => from = to
                        /\ calls' = Add(calls, "change",
                                        Call(op, [dir |-> view.dir, from |-> from, to |-> to]))
    BY <2>1
  <2> DEFINE arg == [dir |-> view.dir, from |-> from, to |-> to]
  <2>3. arg.dir \in Dirs /\ (op = "movePath" => arg.from = arg.to)
    BY <2>2 DEF FilesView, Files!Types
  <2>4. calls' = Add(calls, "change", Call(op, arg))  BY <2>2
  <2> HIDE DEF arg
  <2>5. FilesCall("change", Call(op, arg))  BY <2>3, CallMade DEF FilesCall
  <2>6. Own("files", calls')  BY <1>1, <2>4, <2>5, OperationNames, InnerNames
  <2>7. view' = view
    BY <1>6 DEF Files!DeleteFile, Files!MoveFile, Files!MakeDirectory, Files!Unarchive,
      Files!Change
  <2> QED  BY <2>6, <2>7 DEF FilesView, Files!Types
<1>7. CASE Files!Upload
  <2>1. PICK left \in 1..MaxUpload :
          calls' = Add(calls, "upload", Call("uploadFile", [dir |-> view.dir, left |-> left]))
    BY <1>7, FilesApi DEF Files!Upload, Files!Ask
  <2> DEFINE arg == [dir |-> view.dir, left |-> left]
  <2>2. arg \in [dir : Dirs, left : 1..MaxUpload]  BY DEF FilesView, Files!Types
  <2>3. calls' = Add(calls, "upload", Call("uploadFile", arg))  BY <2>1
  <2> HIDE DEF arg
  <2>4. FilesCall("upload", Call("uploadFile", arg))  BY <2>2, CallMade DEF FilesCall
  <2>5. Own("files", calls')  BY <1>1, <2>3, <2>4, OperationNames, InnerNames
  <2> QED  BY <1>7, <2>5 DEF Files!Upload, FilesView, Files!Types
<1> QED  BY <1>2, <1>3, <1>4, <1>5, <1>6, <1>7 DEF Files!Next

\* No step of the tab loses it.
LEMMA FilesKeep ==
    ASSUME PanelInv, FilesInv, [Next]_vars
    PROVE  FilesInv'
<1> SUFFICES ASSUME auth' = "in", page' = "files"  PROVE FilesView' /\ Own("files", calls')
  BY DEF FilesInv
<1>1. AppInv /\ Calls(calls) /\ token \in Tokens  BY DEF PanelInv, AppInv, Held
<1>2. auth = "in" /\ page = "files" => FilesView /\ Own("files", calls)  BY DEF FilesInv
<1>3. CASE PageStep
  <2>1. auth = "in" /\ page = "files"  BY <1>1, <1>3, PageIsInside
  <2>2. Files!Next \/ \E i \in InFlight : Files!Serve(i) \/ Files!Settle(i)
    BY <1>3, <2>1 DEF PageStep, On
  <2> QED  BY <1>1, <1>2, <2>1, <2>2, FilesServed, FilesSettled, FilesActed
<1>4. CASE AsideStep
  <2>1. auth = "in" /\ page = "files" /\ view' = view /\ Aside(calls')  BY <1>4 DEF AsideStep
  <2>2. Own("files", calls')  BY <1>1, <1>2, <2>1, OwnAside
  <2> QED  BY <1>2, <2>1, <2>2 DEF FilesView, Files!Types
<1>5. CASE EnterStep
  <2>1. PICK p \in Pages : \E cs : Fit(cs) /\ Enter(p, cs)  BY <1>5, Zenon DEF EnterStep
  <2>2. PICK cs : Fit(cs) /\ Enter(p, cs)  BY <2>1, Zenon
  <2>3. p = "files"  BY <1>1, <2>2, EntersWith
  <2>4. view' = Files!Opening /\ calls' = Files!Load(cs, Root)
    BY <2>2, <2>3 DEF Enter, Files!FirstCalls
  <2>5. Own("files", calls')
    <3>1. Own("files", cs) /\ Calls(cs)  BY <2>2, OwnFit
    <3> QED  BY <1>1, <2>4, <3>1, FilesLoads, PanelAssumption
  <2> QED  BY <2>4, <2>5, PanelAssumption DEF Files!Opening, FilesView, Files!Types
<1>6. CASE SignOutStep  BY <1>6 DEF SignOutStep
<1>7. CASE UNCHANGED vars  BY <1>2, <1>7 DEF vars, appVars, FilesView, Files!Types
<1> QED  BY <1>1, <1>3, <1>4, <1>5, <1>6, <1>7, StepIsOneOf

\* ServerFiles.tsx: whatever was opened and loaded meanwhile, and whichever of
\* it failed, a rename takes a file to no other directory, and the editor writes
\* no file's text over another file.
THEOREM MovesAlwaysStay == Spec => []MovesStayPut
<1>1. Init => FilesInv  BY DEF Init, FilesInv
<1>2. PanelInv /\ FilesInv /\ [Next]_vars => FilesInv'  BY FilesKeep
<1>3. PanelInv /\ FilesInv => MovesStayPut
  <2> SUFFICES ASSUME PanelInv, FilesInv, auth = "in", page = "files", NEW i \in Files!InFlight
               PROVE  /\ At(i).op = "movePath" => At(i).arg.from = At(i).arg.to
                      /\ At(i).op = "writeFile" => At(i).arg.text.path = At(i).arg.text.content
    BY FilesApi DEF MovesStayPut, Files!StaysPut
  <2>1. i \in InFlight  BY DEF Files!InFlight, InFlight
  <2>2. Calls(calls) /\ Known(calls) /\ Own("files", calls)
    BY DEF PanelInv, AppInv, FilesInv
  <2>3. CASE i[1] \in Inner
    <3>1. FilesCall(i[1], At(i))  BY <2>1, <2>2, <2>3, OwnAt, FilesOwn
    <3> QED  BY <3>1 DEF FilesCall
  <2>4. CASE i[1] \in Outer \cup {"connect"}
    <3>1. KnownCall(i[1], At(i))  BY <2>1, <2>2, InFlightIsKnown
    <3> QED  BY <2>4, <3>1 DEF KnownCall, PageWrites
  <2> QED  BY <2>1, <2>2, <2>3, <2>4, OwnAt
<1> QED  BY <1>1, <1>2, <1>3, PanelInvariance, PTL DEF Spec

-----------------------------------------------------------------------------
(* The list of servers and the form.                                       *)

\* A form that is drawn: what is listed is of the core chosen, and so is the
\* version picked from it.
FormHolds(form) ==
    /\ form \in [core : Cores, cores : SUBSET Cores, listed : Cores \cup {None},
                 version : Cores \cup {None}, busy : BOOLEAN]
    /\ form.listed # None => form.listed = form.core /\ form.version = form.core

ServersHost ==
    /\ host = [servers |-> host.servers, cores |-> host.cores]
    /\ DOMAIN host.servers \subseteq Ids /\ host.cores \subseteq Cores

ServersView ==
    /\ view = [servers |-> view.servers, busy |-> view.busy, form |-> view.form]
    /\ view.servers = None \/ DOMAIN view.servers \subseteq Ids
    /\ view.busy \subseteq Ids
    /\ view.form = None \/ FormHolds(view.form)

\* The form is there for what is asked for it, and the versions that are asked
\* for are those of the core that is chosen.
FormAwaits ==
    /\ {"effect", "versions", "save"} \cap DOMAIN calls # {} => FormHolds(view.form)
    /\ ArgIs(calls, "versions", view.form.core)

ServersCalls(cs) == Calls(cs) /\ Own("servers", cs)

ServersInv ==
    auth = "in" /\ page = "servers" =>
      ServersHost /\ ServersView /\ FormAwaits /\ Own("servers", calls)

\* Servers answers with Answer and Reject of PanelApi.
LEMMA ServersAnswers ==
    /\ \A i, val : Servers!Answer(i, val) => Update(i, Answered(At(i), "ok", val))
    /\ \A i : Servers!Reject(i) => Update(i, Answered(At(i), "err", None))
<1>1. \A i, val : Servers!Answer(i, val) => Update(i, Answered(At(i), "ok", val))
  BY Zenon DEF Servers!Answer, Servers!Update, Servers!Answered, Servers!At, Update,
    Answered, At
<1>2. \A i : Servers!Reject(i) => Update(i, Answered(At(i), "err", None))
  BY Zenon DEF Servers!Reject, Servers!Update, Servers!Answered, Servers!At, Update,
    Answered, At
<1> QED  BY <1>1, <1>2, Zenon

\* What the page knows of a call is what ServersCall says.
LEMMA ServersOwn == \A h, c : OwnCall("servers", h, c) <=> ServersCall(h, c)
BY DEF OwnCall

\* The list is loaded.
LEMMA ServersReload ==
    ASSUME token \in Tokens, NEW cs, ServersCalls(cs), NEW core
    PROVE  /\ ServersCalls(Servers!Reload(cs))
           /\ \A k : k \in DOMAIN Servers!Reload(cs) <=> k \in DOMAIN cs \/ k = "reload"
           /\ ArgIs(cs, "versions", core) => ArgIs(Servers!Reload(cs), "versions", core)
<1>1. Servers!Reload(cs) = Add(cs, "reload", Call("listServers", None))
  BY ServersApi DEF Servers!Reload
<1>2. OwnCall("servers", "reload", Call("listServers", None))
  BY CallMade, ServersOwn DEF ServersCall
<1>3. /\ Calls(Servers!Reload(cs)) /\ Own("servers", Servers!Reload(cs))
      /\ \A k : k \in DOMAIN Servers!Reload(cs) <=> k \in DOMAIN cs \/ k = "reload"
  BY <1>1, <1>2, OwnAsks, OperationNames, InnerNames DEF ServersCalls
<1>4. ArgIs(cs, "versions", core) => ArgIs(Servers!Reload(cs), "versions", core)
  BY <1>1, ArgAsked DEF ServersCalls
<1> QED  BY <1>3, <1>4 DEF ServersCalls

\* The versions of a core are asked for, and those of no other any more.
LEMMA ServersAskVersions ==
    ASSUME token \in Tokens, NEW cs, ServersCalls(cs), NEW core \in Cores
    PROVE  /\ ServersCalls(Servers!AskVersions(cs, core))
           /\ ArgIs(Servers!AskVersions(cs, core), "versions", core)
<1> DEFINE ds == Forget(cs, {"versions"})
           c == Call("listCoreVersions", core)
<1>1. Servers!AskVersions(cs, core) = Add(ds, "versions", c)
  BY ServersApi DEF Servers!AskVersions
<1>2. OwnCall("servers", "versions", c)  BY CallMade, ServersOwn DEF ServersCall
<1>3. Calls(ds) /\ Own("servers", ds)  BY OwnForget DEF ServersCalls
<1>4. ArgIs(ds, "versions", core)  BY ArgForgotten DEF ServersCalls
<1> HIDE DEF ds
<1>5. Calls(Add(ds, "versions", c)) /\ Own("servers", Add(ds, "versions", c))
  BY <1>2, <1>3, OwnAsks, OperationNames, InnerNames
<1>6. ArgIs(Add(ds, "versions", c), "versions", core)  BY <1>3, <1>4, ArgAsked
<1> QED  BY <1>1, <1>5, <1>6 DEF ServersCalls

\* A form that is closed awaits nothing.
LEMMA ServersCloseForm ==
    ASSUME NEW cs, ServersCalls(cs)
    PROVE  /\ ServersCalls(Servers!CloseForm(cs))
           /\ {"effect", "versions", "save"} \cap DOMAIN Servers!CloseForm(cs) = {}
<1> DEFINE ds == Forget(cs, {"effect", "versions"})
<1>1. Servers!CloseForm(cs) = Rename(ds, "save", "orphan")
  BY ServersApi DEF Servers!CloseForm
<1>2. Calls(ds) /\ Own("servers", ds)  BY OwnForget DEF ServersCalls
<1>3. DOMAIN ds = DOMAIN cs \ {"effect", "versions"}  BY DEF Forget
<1>4. \A c : OwnCall("servers", "save", c) => OwnCall("servers", "orphan", c)
  BY ServersOwn DEF ServersCall
<1> HIDE DEF ds
<1>5. /\ Calls(Rename(ds, "save", "orphan")) /\ Own("servers", Rename(ds, "save", "orphan"))
      /\ "save" \notin DOMAIN Rename(ds, "save", "orphan")
      /\ DOMAIN Rename(ds, "save", "orphan") \subseteq DOMAIN ds \cup {"orphan"}
  BY <1>2, <1>4, OwnRename, InnerNames
<1> QED  BY <1>1, <1>3, <1>5 DEF ServersCalls

\* The servers when the daemon answers.
LEMMA ServersServed ==
    ASSUME Calls(calls), ServersHost, ServersView, FormAwaits, Own("servers", calls),
           NEW i \in InFlight, Servers!Serve(i)
    PROVE  ServersHost' /\ ServersView' /\ FormAwaits' /\ Own("servers", calls')
<1>1. view' = view  BY DEF Servers!Serve
<1>2. ASSUME NEW st, NEW val, Update(i, Answered(At(i), st, val)),
             \/ st # "ok"
             \/ At(i).op = "listServers" /\ DOMAIN val \subseteq Ids
             \/ At(i).op = "listCores" /\ val \subseteq Cores
             \/ At(i).op = "listCoreVersions" /\ val = At(i).arg
             \/ At(i).op \in {"power", "createServer"}
      PROVE  ServersView' /\ FormAwaits' /\ Own("servers", calls')
  <2>1. ASSUME i[1] \in Inner  PROVE OwnCall("servers", i[1], Answered(At(i), st, val))
    <3>1. ServersCall(i[1], At(i))  BY <2>1, OwnAt, ServersOwn
    <3>2. ServersCall(i[1], Answered(At(i), st, val))
      BY <1>2, <3>1, AnswerMade DEF ServersCall
    <3> QED  BY <3>2, ServersOwn
  <2>2. Own("servers", calls')  BY <1>2, <2>1, OwnSteps
  <2>3. DOMAIN calls' = DOMAIN calls  BY <1>2 DEF Update
  <2>4. ArgIs(calls', "versions", view.form.core)  BY <1>2, ArgStays DEF FormAwaits
  <2> QED  BY <1>1, <2>2, <2>3, <2>4 DEF FormAwaits, ServersView
<1>3. CASE Servers!ServeList(i)
  <2>1. Update(i, Answered(At(i), "ok", host.servers)) /\ At(i).op = "listServers" /\ host' = host
    BY <1>3, ServersApi, ServersAnswers DEF Servers!ServeList, Servers!Asked
  <2> QED  BY <1>2, <2>1 DEF ServersHost
<1>4. CASE Servers!ServePower(i)
  <2>1. /\ \/ Update(i, Answered(At(i), "ok", None)) \/ Update(i, Answered(At(i), "err", None))
        /\ At(i).op = "power" /\ host' = host
    BY <1>4, ServersApi, ServersAnswers DEF Servers!ServePower, Servers!Asked
  <2> QED  BY <1>2, <2>1 DEF ServersHost
<1>5. CASE Servers!ServeCores(i)
  <2>1. Update(i, Answered(At(i), "ok", host.cores)) /\ At(i).op = "listCores" /\ host' = host
    BY <1>5, ServersApi, ServersAnswers DEF Servers!ServeCores, Servers!Asked
  <2> QED  BY <1>2, <2>1 DEF ServersHost
<1>6. CASE Servers!ServeVersions(i)
  <2>1. Update(i, Answered(At(i), "ok", At(i).arg)) /\ At(i).op = "listCoreVersions" /\ host' = host
    BY <1>6, ServersApi, ServersAnswers DEF Servers!ServeVersions, Servers!Asked
  <2> QED  BY <1>2, <2>1 DEF ServersHost
<1>7. CASE Servers!ServeCreate(i)
  <2>1. /\ At(i).op = "createServer"
        /\ \/ Servers!Answer(i, None) /\ \E id \in Ids :
                host' = [host EXCEPT !.servers =
                           [s \in DOMAIN @ \cup {id} |-> IF s = id THEN "creating" ELSE @[s]]]
           \/ Servers!Reject(i) /\ host' = host
    BY <1>7, ServersApi DEF Servers!ServeCreate, Servers!Asked
  <2>2. ASSUME NEW id \in Ids,
               host' = [host EXCEPT !.servers =
                          [s \in DOMAIN @ \cup {id} |-> IF s = id THEN "creating" ELSE @[s]]]
        PROVE  ServersHost'
    <3>1. /\ host'.servers = [s \in DOMAIN host.servers \cup {id} |->
                                IF s = id THEN "creating" ELSE host.servers[s]]
          /\ host'.cores = host.cores
          /\ host' = [servers |-> host'.servers, cores |-> host'.cores]
      BY <2>2 DEF ServersHost
    <3> QED  BY <3>1 DEF ServersHost
  <2>3. host' = host => ServersHost'  BY DEF ServersHost
  <2>4. ServersHost'  BY <2>1, <2>2, <2>3
  <2>5. \/ Update(i, Answered(At(i), "ok", None)) \/ Update(i, Answered(At(i), "err", None))
    BY <2>1, ServersAnswers
  <2> QED  BY <1>2, <2>1, <2>4, <2>5
<1> QED  BY <1>3, <1>4, <1>5, <1>6, <1>7 DEF Servers!Serve

\* A form of which some is another.
Reformed(form, cores, core, listed) ==
    [form EXCEPT !.cores = cores, !.core = core, !.listed = listed]

LEMMA FormIs ==
    ASSUME NEW form, FormHolds(form), NEW cores, NEW core, NEW listed
    PROVE  Reformed(form, cores, core, listed) =
             [core |-> core, cores |-> cores, listed |-> listed, version |-> form.version,
              busy |-> form.busy]
<1> DEFINE f == [form EXCEPT !.cores = cores]
           g == [f EXCEPT !.core = core]
<1>1. f = [core |-> form.core, cores |-> cores, listed |-> form.listed,
           version |-> form.version, busy |-> form.busy]
  BY DEF FormHolds
<1> HIDE DEF f
<1>2. g = [core |-> core, cores |-> cores, listed |-> form.listed,
           version |-> form.version, busy |-> form.busy]
  BY <1>1
<1> HIDE DEF g
<1>3. [g EXCEPT !.listed = listed] =
        [core |-> core, cores |-> cores, listed |-> listed, version |-> form.version,
         busy |-> form.busy]
  BY <1>2
<1> QED  BY <1>3 DEF f, g, Reformed

\* Only the form is another.
Formed(form) == view' = [servers |-> view.servers, busy |-> view.busy, form |-> form]

LEMMA ServersFormed ==
    ASSUME ServersView, NEW form, form = None \/ FormHolds(form), Formed(form)
    PROVE  ServersView' /\ view'.form = form
BY DEF ServersView, Formed

\* The servers when a handler goes on.
LEMMA ServersSettled ==
    ASSUME token \in Tokens, Calls(calls), ServersHost, ServersView, FormAwaits,
           Own("servers", calls), NEW i \in InFlight, Servers!Settle(i)
    PROVE  ServersHost' /\ ServersView' /\ FormAwaits' /\ Own("servers", calls')
<1> DEFINE cs == Without(i)
<1>1. /\ ServersCalls(cs) /\ ArgIs(cs, "versions", view.form.core)
      /\ DOMAIN cs \subseteq DOMAIN calls /\ i[1] \in DOMAIN calls
  BY OwnSteps, ArgStays, Awaiting, OwnAt DEF ServersCalls, FormAwaits
<1>2. i[1] \in Inner => ServersCall(i[1], At(i))  BY OwnAt, ServersOwn
<1> HIDE DEF cs
<1>3. host' = host  BY DEF Servers!Settle
<1>4. ServersHost'  BY <1>3 DEF ServersHost
<1>5. CASE Servers!SettleReload(i)
  <2>1. calls' = cs  BY <1>5, ServersApi DEF Servers!SettleReload, cs
  <2>2. ServersView' /\ view'.form = view.form
    <3>1. CASE view' = view  BY <3>1 DEF ServersView
    <3>2. CASE view' = [view EXCEPT !.servers = At(i).val, !.busy = @ \cap DOMAIN At(i).val]
               /\ i[1] = "reload" /\ At(i).st = "ok"
      <4>1. DOMAIN At(i).val \subseteq Ids  BY <1>2, <3>2, InnerNames DEF ServersCall
      <4>2. view' = [servers |-> At(i).val, busy |-> view.busy \cap DOMAIN At(i).val,
                     form |-> view.form]
        BY <3>2 DEF ServersView
      <4> QED  BY <4>1, <4>2 DEF ServersView
    <3> QED
      BY <1>5, <3>1, <3>2, ServersApi
      DEF Servers!SettleReload, Servers!Replied
  <2> QED  BY <1>1, <1>4, <2>1, <2>2 DEF FormAwaits, ServersCalls
<1>6. CASE Servers!SettlePower(i)
  <2>1. calls' = cs \/ calls' = Servers!Reload(cs)
    BY <1>6, ServersApi DEF Servers!SettlePower, cs
  <2>2. /\ ServersCalls(calls') /\ ArgIs(calls', "versions", view.form.core)
        /\ DOMAIN calls' \subseteq DOMAIN calls \cup {"reload"}
    BY <1>1, <2>1, ServersReload
  <2>3. view' = [servers |-> view.servers, busy |-> view.busy \ {At(i).arg}, form |-> view.form]
    BY <1>6, ServersApi DEF Servers!SettlePower, ServersView
  <2>4. ServersView' /\ view'.form = view.form  BY <2>3 DEF ServersView
  <2> QED  BY <1>4, <2>2, <2>4 DEF FormAwaits, ServersCalls
<1>7. CASE Servers!SettleCores(i)
  <2>1. i[1] = "effect"  BY <1>7 DEF Servers!SettleCores, Servers!Replied, Servers!Failed
  <2>2. FormHolds(view.form)  BY <1>1, <2>1 DEF FormAwaits
  <2>3. ASSUME At(i).st = "ok", NEW core \in Cores, NEW listed,
               listed = None \/ (core = view.form.core /\ listed = view.form.listed),
               Formed(Reformed(view.form, At(i).val, core, listed))
        PROVE  ServersView' /\ FormHolds(view'.form) /\ view'.form.core = core
    <3> DEFINE form == Reformed(view.form, At(i).val, core, listed)
    <3>1. At(i).val \subseteq Cores  BY <1>2, <2>1, <2>3, InnerNames DEF ServersCall
    <3>2. form = [core |-> core, cores |-> At(i).val, listed |-> listed,
                  version |-> view.form.version, busy |-> view.form.busy]
      BY <2>2, FormIs
    <3>3. FormHolds(form) /\ form.core = core  BY <2>2, <2>3, <3>1, <3>2 DEF FormHolds
    <3> HIDE DEF form
    <3>4. ServersView' /\ view'.form = form  BY <2>3, <3>3, ServersFormed DEF form
    <3> QED  BY <3>3, <3>4
  <2>4. CASE At(i).st = "ok" /\ calls' = cs /\ view.form.core \in Cores
             /\ view' = [view EXCEPT !.form = [view.form EXCEPT !.cores = At(i).val]]
    <3>1. Formed(Reformed(view.form, At(i).val, view.form.core, view.form.listed))
      BY <2>2, <2>4 DEF Formed, Reformed, ServersView, FormHolds
    <3>2. ServersView' /\ FormHolds(view'.form) /\ view'.form.core = view.form.core
      BY <2>3, <2>4, <3>1
    <3> QED  BY <1>1, <1>4, <2>4, <3>2 DEF FormAwaits, ServersCalls
  <2>5. ASSUME At(i).st = "ok", NEW core \in At(i).val,
               calls' = Servers!AskVersions(cs, core),
               view' = [view EXCEPT !.form = [[view.form EXCEPT !.cores = At(i).val]
                                                EXCEPT !.core = core, !.listed = None]]
        PROVE  ServersView' /\ FormAwaits' /\ Own("servers", calls')
    <3>1. core \in Cores  BY <1>2, <2>1, <2>5, InnerNames DEF ServersCall
    <3>2. Formed(Reformed(view.form, At(i).val, core, None))
      BY <2>2, <2>5 DEF Formed, Reformed, ServersView, FormHolds
    <3>3. ServersView' /\ FormHolds(view'.form) /\ view'.form.core = core
      BY <2>3, <2>5, <3>1, <3>2
    <3>4. ServersCalls(calls') /\ ArgIs(calls', "versions", core)
      BY <1>1, <2>5, <3>1, ServersAskVersions
    <3> QED  BY <3>3, <3>4 DEF FormAwaits, ServersCalls
  <2>6. CASE view' = view /\ calls' = cs
    BY <1>1, <1>4, <2>6 DEF FormAwaits, ServersCalls, ServersView
  <2>7. \/ view' = view /\ calls' = cs
        \/ /\ At(i).st = "ok" /\ calls' = cs
           /\ view' = [view EXCEPT !.form = [view.form EXCEPT !.cores = At(i).val]]
        \/ /\ At(i).st = "ok"
           /\ \E core \in At(i).val :
                /\ calls' = Servers!AskVersions(cs, core)
                /\ view' = [view EXCEPT !.form = [[view.form EXCEPT !.cores = At(i).val]
                                                    EXCEPT !.core = core, !.listed = None]]
    <3>1. [view.form EXCEPT !.cores = At(i).val].cores = At(i).val  BY <2>2 DEF FormHolds
    <3> QED
      BY <1>7, <3>1, ServersApi DEF Servers!SettleCores, Servers!Replied, Servers!Failed, cs
  <2>8. view.form.core \in Cores  BY <2>2 DEF FormHolds
  <2> QED  BY <1>4, <2>4, <2>5, <2>6, <2>7, <2>8
<1>8. CASE Servers!SettleVersions(i)
  <2>1. i[1] = "versions" /\ calls' = cs
    BY <1>8, ServersApi DEF Servers!SettleVersions, Servers!Replied, Servers!Failed, cs
  <2>2. FormHolds(view.form)  BY <1>1, <2>1 DEF FormAwaits
  <2>3. CASE view' = view  BY <1>1, <1>4, <2>1, <2>3 DEF FormAwaits, ServersCalls, ServersView
  <2>4. CASE At(i).st = "ok"
             /\ view' = [view EXCEPT !.form.listed = At(i).val, !.form.version = At(i).val]
    <3> DEFINE form == [core |-> view.form.core, cores |-> view.form.cores,
                        listed |-> At(i).val, version |-> At(i).val, busy |-> view.form.busy]
    <3>1. At(i).val = At(i).arg  BY <1>2, <2>1, <2>4, InnerNames DEF ServersCall
    <3>2. At(i).arg = view.form.core  BY <2>1, OwnAt DEF FormAwaits, ArgIs
    <3>3. FormHolds(form)  BY <2>2, <3>1, <3>2 DEF FormHolds
    <3>4. Formed(form)  BY <2>2, <2>4 DEF Formed, ServersView, FormHolds
    <3>5. form.core = view.form.core  OBVIOUS
    <3> HIDE DEF form
    <3>6. ServersView' /\ view'.form = form  BY <3>3, <3>4, ServersFormed
    <3> QED  BY <1>1, <1>4, <2>1, <3>3, <3>5, <3>6 DEF FormAwaits, ServersCalls
  <2> QED
    BY <1>8, <2>3, <2>4, ServersApi DEF Servers!SettleVersions, Servers!Replied
<1>9. CASE Servers!SettleSubmit(i)
  <2>1. CASE view' = [view EXCEPT !.form = None]
             /\ calls' = Servers!Reload(Servers!CloseForm(cs))
    <3>1. /\ ServersCalls(Servers!CloseForm(cs))
          /\ {"effect", "versions", "save"} \cap DOMAIN Servers!CloseForm(cs) = {}
      BY <1>1, ServersCloseForm
    <3>2. /\ ServersCalls(calls')
          /\ \A k : k \in DOMAIN calls' <=> k \in DOMAIN Servers!CloseForm(cs) \/ k = "reload"
      BY <2>1, <3>1, ServersReload
    <3>3. {"effect", "versions", "save"} \cap DOMAIN calls' = {}  BY <3>1, <3>2
    <3>4. ArgIs(calls', "versions", view'.form.core)  BY <3>3, ArgOfNone
    <3>5. Formed(None)  BY <2>1 DEF ServersView, Formed
    <3>6. ServersView'  BY <3>5, ServersFormed
    <3> QED  BY <1>4, <3>2, <3>3, <3>4, <3>6 DEF FormAwaits, ServersCalls
  <2>2. CASE i[1] = "save" /\ view' = [view EXCEPT !.form.busy = FALSE] /\ calls' = cs
    <3> DEFINE form == [core |-> view.form.core, cores |-> view.form.cores,
                        listed |-> view.form.listed, version |-> view.form.version,
                        busy |-> FALSE]
    <3>1. FormHolds(view.form)  BY <1>1, <2>2 DEF FormAwaits
    <3>2. FormHolds(form) /\ Formed(form)  BY <2>2, <3>1 DEF Formed, ServersView, FormHolds
    <3>3. form.core = view.form.core  OBVIOUS
    <3> HIDE DEF form
    <3>4. ServersView' /\ view'.form = form  BY <3>2, ServersFormed
    <3> QED  BY <1>1, <1>4, <2>2, <3>2, <3>3, <3>4 DEF FormAwaits, ServersCalls
  <2>3. CASE view' = view /\ calls' = cs
    BY <1>1, <1>4, <2>3 DEF FormAwaits, ServersCalls, ServersView
  <2> QED
    BY <1>9, <2>1, <2>2, <2>3, ServersApi DEF Servers!SettleSubmit, Servers!Failed, cs
<1> QED  BY <1>5, <1>6, <1>7, <1>8, <1>9 DEF Servers!Settle

\* The servers when the user acts.
LEMMA ServersActed ==
    ASSUME token \in Tokens, Calls(calls), ServersHost, ServersView, FormAwaits,
           Own("servers", calls), Servers!Next
    PROVE  ServersHost' /\ ServersView' /\ FormAwaits' /\ Own("servers", calls')
<1>1. ServersCalls(calls) /\ ArgIs(calls, "versions", view.form.core)
  BY DEF ServersCalls, FormAwaits
<1>2. ASSUME host' = host  PROVE ServersHost'  BY <1>2 DEF ServersHost
<1>3. ASSUME view' = view  PROVE ServersView'  BY <1>3 DEF ServersView
<1>4. CASE Servers!Tick
  <2>1. calls' = Servers!Reload(calls) /\ view' = view /\ host' = host  BY <1>4 DEF Servers!Tick
  <2>2. /\ ServersCalls(calls') /\ ArgIs(calls', "versions", view.form.core)
        /\ \A k : k \in DOMAIN calls' <=> k \in DOMAIN calls \/ k = "reload"
    BY <1>1, <2>1, ServersReload
  <2> QED  BY <1>2, <1>3, <2>1, <2>2 DEF FormAwaits, ServersCalls
<1>5. CASE \E id \in Ids, action \in Servers!Powers : Servers!Power(id, action)
  <2>1. PICK id \in Ids : \E action \in Servers!Powers : Servers!Power(id, action)  BY <1>5
  <2>2. /\ calls' = Add(calls, "change", Call("power", id)) /\ host' = host
        /\ view' = [view EXCEPT !.busy = @ \cup {id}]
    BY <2>1, ServersApi DEF Servers!Power, Servers!Ask
  <2>3. OwnCall("servers", "change", Call("power", id))  BY CallMade, ServersOwn DEF ServersCall
  <2>4. /\ Own("servers", calls')
        /\ \A k : k \in DOMAIN calls' <=> k \in DOMAIN calls \/ k = "change"
    BY <2>2, <2>3, OwnAsks, OperationNames, InnerNames
  <2>5. ArgIs(calls', "versions", view.form.core)  BY <1>1, <2>2, ArgAsked
  <2>6. view' = [servers |-> view.servers, busy |-> view.busy \cup {id}, form |-> view.form]
    BY <2>2 DEF ServersView
  <2>7. ServersView' /\ view'.form = view.form  BY <2>6 DEF ServersView
  <2> QED  BY <1>2, <2>2, <2>4, <2>5, <2>7 DEF FormAwaits
<1>6. CASE Servers!ToggleForm
  <2>1. CASE /\ DOMAIN calls \subseteq {"orphan"} /\ host' = host
             /\ view' = [view EXCEPT !.form = Servers!emptyForm]
             /\ calls' = Servers!AskVersions(Add(calls, "effect", Call("listCores", None)), Default)
    <3> DEFINE cs == Add(calls, "effect", Call("listCores", None))
    <3>1. OwnCall("servers", "effect", Call("listCores", None))
      BY CallMade, ServersOwn DEF ServersCall
    <3>2. ServersCalls(cs)  BY <3>1, OwnAsks, OperationNames, InnerNames DEF ServersCalls
    <3> HIDE DEF cs
    <3>3. ServersCalls(calls') /\ ArgIs(calls', "versions", Default)
      BY <2>1, <3>2, ServersAskVersions, PanelAssumption DEF cs
    <3>4. FormHolds(Servers!emptyForm) /\ Servers!emptyForm.core = Default
      BY PanelAssumption DEF FormHolds, Servers!emptyForm
    <3>5. Formed(Servers!emptyForm)  BY <2>1 DEF Formed, ServersView
    <3>6. ServersView' /\ view'.form = Servers!emptyForm  BY <3>4, <3>5, ServersFormed
    <3> QED  BY <1>2, <2>1, <3>3, <3>4, <3>6 DEF FormAwaits, ServersCalls
  <2>2. CASE /\ view' = [view EXCEPT !.form = None]
             /\ calls' = Servers!CloseForm(calls) /\ host' = host
    <3>1. /\ ServersCalls(calls')
          /\ {"effect", "versions", "save"} \cap DOMAIN calls' = {}
      BY <1>1, <2>2, ServersCloseForm
    <3>2. ArgIs(calls', "versions", view'.form.core)  BY <3>1, ArgOfNone
    <3>3. Formed(None)  BY <2>2 DEF ServersView, Formed
    <3>4. ServersView'  BY <3>3, ServersFormed
    <3> QED  BY <1>2, <2>2, <3>1, <3>2, <3>4 DEF FormAwaits, ServersCalls
  <2> QED  BY <1>6, <2>1, <2>2, ServersApi DEF Servers!ToggleForm, Servers!Rest
<1>7. CASE \E core \in Cores : Servers!PickCore(core)
  <2>1. PICK core \in Cores : Servers!PickCore(core)  BY <1>7
  <2>2. /\ calls' = Servers!AskVersions(calls, core) /\ host' = host /\ view.form # None
        /\ view' = [view EXCEPT !.form.core = core, !.form.listed = None]
    BY <2>1 DEF Servers!PickCore
  <2> DEFINE form == [core |-> core, cores |-> view.form.cores, listed |-> None,
                      version |-> view.form.version, busy |-> view.form.busy]
  <2>3. FormHolds(view.form)  BY <2>2 DEF ServersView
  <2>4. FormHolds(form) /\ Formed(form)  BY <2>2, <2>3 DEF FormHolds, Formed, ServersView
  <2>5. form.core = core  OBVIOUS
  <2> HIDE DEF form
  <2>6. ServersView' /\ view'.form = form  BY <2>4, ServersFormed
  <2>7. ServersCalls(calls') /\ ArgIs(calls', "versions", core)
    BY <1>1, <2>2, ServersAskVersions
  <2> QED  BY <1>2, <2>2, <2>4, <2>5, <2>6, <2>7 DEF FormAwaits, ServersCalls
<1>8. CASE Servers!TypeVersion
  <2> DEFINE form == [core |-> view.form.core, cores |-> view.form.cores,
                      listed |-> view.form.listed, version |-> view.form.core,
                      busy |-> view.form.busy]
  <2>1. FormHolds(view.form)  BY <1>8 DEF Servers!TypeVersion, ServersView
  <2>2. FormHolds(form) /\ Formed(form)
    BY <1>8, <2>1 DEF Servers!TypeVersion, FormHolds, Formed, ServersView
  <2>3. form.core = view.form.core  OBVIOUS
  <2> HIDE DEF form
  <2>4. ServersView' /\ view'.form = form  BY <2>2, ServersFormed
  <2>5. calls' = calls /\ host' = host  BY <1>8 DEF Servers!TypeVersion
  <2> QED  BY <1>2, <2>2, <2>3, <2>4, <2>5 DEF FormAwaits
<1>9. CASE Servers!Submit
  <2> DEFINE arg == [core |-> view.form.core, version |-> view.form.version]
             form == [core |-> view.form.core, cores |-> view.form.cores,
                      listed |-> view.form.listed, version |-> view.form.version,
                      busy |-> TRUE]
  <2>1. FormHolds(view.form)  BY <1>9 DEF Servers!Submit, ServersView
  <2>2. FormHolds(form) /\ Formed(form)
    BY <1>9, <2>1 DEF Servers!Submit, FormHolds, Formed, ServersView
  <2>3. form.core = view.form.core  OBVIOUS
  <2>4. calls' = Add(calls, "save", Call("createServer", arg)) /\ host' = host
    BY <1>9, ServersApi DEF Servers!Submit, Servers!Ask
  <2> HIDE DEF form, arg
  <2>5. ServersView' /\ view'.form = form  BY <2>2, ServersFormed
  <2>6. OwnCall("servers", "save", Call("createServer", arg))
    BY CallMade, ServersOwn DEF ServersCall
  <2>7. Own("servers", calls')  BY <2>4, <2>6, OwnAsks, OperationNames, InnerNames
  <2>8. ArgIs(calls', "versions", view.form.core)  BY <1>1, <2>4, ArgAsked
  <2> QED  BY <1>2, <2>2, <2>3, <2>4, <2>5, <2>7, <2>8 DEF FormAwaits
<1>10. CASE Servers!HostMoves
  <2>1. PICK id, status : host' = [host EXCEPT !.servers[id] = status]
    BY <1>10 DEF Servers!HostMoves
  <2>2. /\ host'.servers = [host.servers EXCEPT ![id] = status] /\ host'.cores = host.cores
        /\ host' = [servers |-> host'.servers, cores |-> host'.cores]
    BY <2>1 DEF ServersHost
  <2>3. ServersHost'  BY <2>2 DEF ServersHost
  <2>4. view' = view /\ calls' = calls  BY <1>10 DEF Servers!HostMoves
  <2> QED  BY <1>3, <2>3, <2>4 DEF FormAwaits
<1> QED
  BY <1>4, <1>5, <1>6, <1>7, <1>8, <1>9, <1>10 DEF Servers!Next, Servers!User

\* No step of the list loses it.
LEMMA ServersKeep ==
    ASSUME PanelInv, ServersInv, [Next]_vars
    PROVE  ServersInv'
<1> SUFFICES ASSUME auth' = "in", page' = "servers"
             PROVE  ServersHost' /\ ServersView' /\ FormAwaits' /\ Own("servers", calls')
  BY DEF ServersInv
<1>1. AppInv /\ Calls(calls) /\ token \in Tokens  BY DEF PanelInv, AppInv, Held
<1>2. auth = "in" /\ page = "servers" =>
        ServersHost /\ ServersView /\ FormAwaits /\ Own("servers", calls)
  BY DEF ServersInv
<1>3. CASE PageStep
  <2>1. auth = "in" /\ page = "servers"  BY <1>1, <1>3, PageIsInside
  <2>2. Servers!Next \/ \E i \in InFlight : Servers!Serve(i) \/ Servers!Settle(i)
    BY <1>3, <2>1 DEF PageStep, On
  <2> QED  BY <1>1, <1>2, <2>1, <2>2, ServersServed, ServersSettled, ServersActed
<1>4. CASE AsideStep
  <2>1. auth = "in" /\ page = "servers" /\ UNCHANGED <<view, host>> /\ Aside(calls')
    BY <1>4 DEF AsideStep
  <2>2. /\ Own("servers", calls')
        /\ \A h \in Inner : h \in DOMAIN calls' <=> h \in DOMAIN calls
    BY <1>1, <1>2, <2>1, OwnAside
  <2>3. ArgIs(calls', "versions", view.form.core)
    BY <1>1, <1>2, <2>1, ArgStays, InnerNames DEF FormAwaits
  <2> QED  BY <1>2, <2>1, <2>2, <2>3, InnerNames DEF ServersHost, ServersView, FormAwaits
<1>5. CASE EnterStep
  <2>1. PICK p \in Pages : \E cs : Fit(cs) /\ Enter(p, cs)  BY <1>5, Zenon DEF EnterStep
  <2>2. PICK cs : Fit(cs) /\ Enter(p, cs)  BY <2>1, Zenon
  <2>3. p = "servers"  BY <1>1, <2>2, EntersWith
  <2>4. /\ view' = Servers!Opening /\ calls' = Servers!Reload(cs) /\ host' \in Servers!Found
    BY <2>2, <2>3 DEF Enter, Servers!FirstCalls
  <2>5. ServersCalls(cs) /\ DOMAIN cs \cap Inner = {}  BY <2>2, OwnFit DEF ServersCalls
  <2>6. /\ Own("servers", calls') /\ {"effect", "versions", "save"} \cap DOMAIN calls' = {}
    BY <1>1, <2>4, <2>5, ServersReload, InnerNames DEF ServersCalls
  <2>7. ArgIs(calls', "versions", view'.form.core)  BY <2>6, ArgOfNone
  <2>8. ServersView'  BY <2>4 DEF Servers!Opening, ServersView
  <2>9. ServersHost'  BY <2>4 DEF Servers!Found, ServersHost
  <2> QED  BY <2>6, <2>7, <2>8, <2>9 DEF FormAwaits
<1>6. CASE SignOutStep  BY <1>6 DEF SignOutStep
<1>7. CASE UNCHANGED vars
  BY <1>2, <1>7 DEF vars, appVars, ServersHost, ServersView, FormAwaits
<1> QED  BY <1>1, <1>3, <1>4, <1>5, <1>6, <1>7, StepIsOneOf

-----------------------------------------------------------------------------
(* The search box, of the catalog and of the modpacks.                     *)

\* While the timer runs no search does, a search that runs is for what is typed,
\* and what is drawn once none runs was found for it.
Boxed(box, cs) ==
    /\ box \in Catalog!BoxType
    /\ box.timer => box.query # Catalog!Short /\ "search" \notin DOMAIN cs
    /\ box.query # Catalog!Short => ArgIs(cs, "search", box.query)
    /\ box.query # Catalog!Short /\ ~box.timer /\ "search" \notin DOMAIN cs
         => box.hits \in {box.query, Catalog!Nothing, None}

\* A box is left as it is by what touches no search.
LEMMA BoxKept ==
    ASSUME NEW box, NEW cs, NEW ds, Boxed(box, cs),
           \A v : ArgIs(cs, "search", v) => ArgIs(ds, "search", v),
           "search" \in DOMAIN ds <=> "search" \in DOMAIN cs
    PROVE  Boxed(box, ds)
BY DEF Boxed

\* Something is typed, or what the search needs comes.
LEMMA BoxTyped ==
    ASSUME NEW box, NEW cs, Calls(cs), Boxed(box, cs), NEW ready,
           NEW query \in Queries \cup {Catalog!Short},
           ready \/ query = box.query \/ "search" \notin DOMAIN cs
    PROVE  Boxed(Catalog!Typed(box, query, ready), Catalog!Superseded(cs, query, ready))
<1> DEFINE new == Catalog!Typed(box, query, ready)
           ds == Catalog!Superseded(cs, query, ready)
<1>1. box = [query |-> box.query, timer |-> box.timer, hits |-> box.hits]
  BY DEF Boxed, Catalog!BoxType
<1>2. CASE ready /\ query # Catalog!Short
  <2>1. ds = Forget(cs, {"search"})  BY <1>2, CatalogApi DEF Catalog!Superseded
  <2>2. ArgIs(ds, "search", query)  BY <2>1, ArgForgotten
  <2>3. "search" \notin DOMAIN ds  BY <2>1 DEF Forget
  <2>4. new = [query |-> query, timer |-> TRUE, hits |-> box.hits]
    BY <1>1, <1>2 DEF Catalog!Typed
  <2> HIDE DEF new, ds
  <2>5. new \in Catalog!BoxType  BY <2>4 DEF Boxed, Catalog!BoxType
  <2>6. Boxed(new, ds)  BY <1>2, <2>2, <2>3, <2>4, <2>5 DEF Boxed
  <2> QED  BY <2>6 DEF new, ds
<1>3. CASE ~(ready /\ query # Catalog!Short)
  <2>1. ds = cs  BY <1>3 DEF Catalog!Superseded
  <2>2. new = [query |-> query, timer |-> FALSE, hits |-> None]  BY <1>3 DEF Catalog!Typed
  <2>3. query # Catalog!Short => ArgIs(cs, "search", query)  BY <1>3, ArgOfNone DEF Boxed
  <2> HIDE DEF new, ds
  <2>4. new \in Catalog!BoxType  BY <2>2 DEF Catalog!BoxType
  <2>5. Boxed(new, ds)  BY <2>1, <2>2, <2>3, <2>4 DEF Boxed
  <2> QED  BY <2>5 DEF new, ds
<1> QED  BY <1>2, <1>3

\* The timer of the debounce.
LEMMA BoxSearches ==
    ASSUME NEW box, NEW cs, Calls(cs), Boxed(box, cs), box.timer
    PROVE  /\ box.query \in Queries
           /\ Boxed([box EXCEPT !.timer = FALSE],
                    Add(cs, "search", Call("searchCatalog", box.query)))
<1> DEFINE ds == Add(cs, "search", Call("searchCatalog", box.query))
           new == [box EXCEPT !.timer = FALSE]
<1>1. /\ box.query \in Queries /\ box.hits \in Queries \cup {None, Catalog!Nothing}
      /\ ArgIs(cs, "search", box.query)
  BY DEF Boxed, Catalog!BoxType
<1>2. ArgIs(ds, "search", box.query)  BY <1>1, ArgAsked
<1>3. "search" \in DOMAIN ds
  <2> DEFINE c == Call("searchCatalog", box.query)
  <2> HIDE DEF c
  <2>1. AddIs(Add(cs, "search", c), cs, "search", c)  BY AddKeeps DEF Calls
  <2> QED  BY <2>1 DEF AddIs, c
<1>4. new = [query |-> box.query, timer |-> FALSE, hits |-> box.hits]
  <2>1. box \in [query : Queries \cup {Catalog!Short}, timer : BOOLEAN,
                hits : Queries \cup {None, Catalog!Nothing}]
    BY DEF Boxed, Catalog!BoxType
  <2>2. new.query = box.query /\ new.timer = FALSE /\ new.hits = box.hits  BY <2>1
  <2>3. new \in [query : Queries \cup {Catalog!Short}, timer : BOOLEAN,
                hits : Queries \cup {None, Catalog!Nothing}]
    BY <2>1
  <2> HIDE DEF new
  <2>4. new = [query |-> new.query, timer |-> new.timer, hits |-> new.hits]  BY <2>3
  <2> QED  BY <2>2, <2>4
<1> HIDE DEF new, ds
<1>5. new \in Catalog!BoxType  BY <1>1, <1>4 DEF Catalog!BoxType
<1>6. Boxed(new, ds)  BY <1>2, <1>3, <1>4, <1>5 DEF Boxed
<1> QED  BY <1>1, <1>6 DEF new, ds

\* A search ends, well or badly.
LEMMA BoxFinds ==
    ASSUME NEW box, Calls(calls), Boxed(box, calls), NEW i \in InFlight, i[1] = "search",
           SearchCall(At(i)), NEW hits,
           (At(i).st = "ok" /\ hits = At(i).val) \/ hits = Catalog!Nothing
    PROVE  Boxed([box EXCEPT !.hits = hits], Without(i))
<1> DEFINE new == [box EXCEPT !.hits = hits]
           ds == Without(i)
<1>1. <<i[1], At(i)>> \in Sent(calls) /\ i[1] \in DOMAIN calls  BY AtIsSent, SentIs
<1>2. box.query # Catalog!Short => hits \in {box.query, Catalog!Nothing}
  BY <1>1 DEF Boxed, ArgIs, SearchCall
<1>3. hits \in Queries \cup {Catalog!Nothing}  BY DEF SearchCall
<1>4. new = [query |-> box.query, timer |-> FALSE, hits |-> hits]
  <2>1. PICK q, t, h : box = [query |-> q, timer |-> t, hits |-> h]
    BY DEF Boxed, Catalog!BoxType
  <2>2. box.query = q /\ box.timer = t  BY <2>1
  <2>3. new = [query |-> q, timer |-> t, hits |-> hits]  BY <2>1
  <2>4. box.timer = FALSE  BY <1>1 DEF Boxed, Catalog!BoxType
  <2> QED  BY <2>2, <2>3, <2>4
<1>5. box.query # Catalog!Short => ArgIs(ds, "search", box.query)  BY ArgStays DEF Boxed
<1>6. box.query \in Queries \cup {Catalog!Short}  BY DEF Boxed, Catalog!BoxType
<1> HIDE DEF new, ds
<1>7. new \in Catalog!BoxType  BY <1>3, <1>4, <1>6 DEF Catalog!BoxType
<1>8. Boxed(new, ds)  BY <1>2, <1>4, <1>5, <1>7 DEF Boxed
<1> QED  BY <1>8 DEF new, ds

\* The box of both pages is one.
LEMMA BoxIsShared ==
    /\ Modpacks!Short = Catalog!Short /\ Modpacks!Nothing = Catalog!Nothing
    /\ Modpacks!BoxType = Catalog!BoxType
    /\ \A box, query, ready : Modpacks!Typed(box, query, ready) = Catalog!Typed(box, query, ready)
    /\ \A cs, query, ready : Modpacks!Superseded(cs, query, ready) = Catalog!Superseded(cs, query, ready)
<1>1. Modpacks!Short = Catalog!Short /\ Modpacks!Nothing = Catalog!Nothing
  BY DEF Modpacks!Short, Catalog!Short, Modpacks!Nothing, Catalog!Nothing
<1>2. Modpacks!BoxType = Catalog!BoxType  BY <1>1 DEF Modpacks!BoxType, Catalog!BoxType
<1>3. \A box, query, ready : Modpacks!Typed(box, query, ready) = Catalog!Typed(box, query, ready)
  BY <1>1 DEF Modpacks!Typed, Catalog!Typed
<1>4. \A cs, query, ready : Modpacks!Superseded(cs, query, ready) = Catalog!Superseded(cs, query, ready)
  BY <1>1, CatalogApi, ModpacksApi DEF Modpacks!Superseded, Catalog!Superseded
<1> QED  BY <1>1, <1>2, <1>3, <1>4

\* A page with a box, and what it has asked for.
Searching(p, box, cs) == Calls(cs) /\ Own(p, cs) /\ Boxed(box, cs)

\* What is awaited under another name touches no search.
LEMMA OthersEnd ==
    ASSUME NEW p, NEW box, Searching(p, box, calls), NEW i \in InFlight, i[1] # "search"
    PROVE  /\ Searching(p, box, Without(i))
           /\ "search" \in DOMAIN Without(i) <=> "search" \in DOMAIN calls
<1>1. Calls(Without(i)) /\ Own(p, Without(i))  BY OwnSteps DEF Searching
<1>2. "search" \in DOMAIN Without(i) <=> "search" \in DOMAIN calls
  BY Awaiting DEF Searching
<1>3. \A v : ArgIs(calls, "search", v) => ArgIs(Without(i), "search", v)
  BY ArgStays DEF Searching
<1>4. Boxed(box, Without(i))  BY <1>2, <1>3, BoxKept DEF Searching
<1> QED  BY <1>1, <1>2, <1>4 DEF Searching

LEMMA OthersAsk ==
    ASSUME token \in Tokens, NEW p, NEW box, NEW cs, Searching(p, box, cs),
           NEW h \in Inner, h # "search", NEW op \in Operations, NEW arg,
           OwnCall(p, h, Call(op, arg))
    PROVE  /\ Searching(p, box, Add(cs, h, Call(op, arg)))
           /\ "search" \in DOMAIN Add(cs, h, Call(op, arg)) <=> "search" \in DOMAIN cs
<1> DEFINE ds == Add(cs, h, Call(op, arg))
<1>1. /\ Calls(ds) /\ Own(p, ds)
      /\ \A k : k \in DOMAIN ds <=> k \in DOMAIN cs \/ k = h
  BY OwnAsks DEF Searching
<1>2. \A v : ArgIs(cs, "search", v) => ArgIs(ds, "search", v)
  BY ArgAsked DEF Searching
<1> HIDE DEF ds
<1>3. "search" \in DOMAIN ds <=> "search" \in DOMAIN cs  BY <1>1
<1>4. Boxed(box, ds)  BY <1>2, <1>3, BoxKept DEF Searching
<1>5. Searching(p, box, ds)  BY <1>1, <1>4 DEF Searching
<1> QED  BY <1>3, <1>5 DEF ds

LEMMA OthersAnswered ==
    ASSUME NEW p, NEW box, Searching(p, box, calls), NEW i \in InFlight, NEW st, NEW val,
           Update(i, Answered(At(i), st, val)),
           i[1] \in Inner => OwnCall(p, i[1], Answered(At(i), st, val))
    PROVE  /\ Own(p, calls') /\ Boxed(box, calls')
           /\ "search" \in DOMAIN calls' <=> "search" \in DOMAIN calls
<1>1. Own(p, calls')  BY OwnSteps DEF Searching
<1>2. DOMAIN calls' = DOMAIN calls  BY DEF Update
<1>3. \A v : ArgIs(calls, "search", v) => ArgIs(calls', "search", v)
  BY ArgStays DEF Searching
<1> QED  BY <1>1, <1>2, <1>3, BoxKept DEF Searching

LEMMA OthersAside ==
    ASSUME NEW p, NEW box, Searching(p, box, calls), Aside(calls')
    PROVE  /\ Own(p, calls') /\ Boxed(box, calls')
           /\ "search" \in DOMAIN calls' <=> "search" \in DOMAIN calls
<1>1. Own(p, calls') /\ ("search" \in DOMAIN calls' <=> "search" \in DOMAIN calls)
  BY OwnAside, InnerNames DEF Searching
<1>2. \A v : ArgIs(calls, "search", v) => ArgIs(calls', "search", v)
  BY ArgStays, InnerNames DEF Searching
<1> QED  BY <1>1, <1>2, BoxKept DEF Searching

\* The search of a page that knows it.
LEMMA SearchAsked ==
    ASSUME token \in Tokens, NEW p \in {"catalog", "modpacks"}, NEW box, NEW cs,
           Searching(p, box, cs), box.timer
    PROVE  LET ds == Add(cs, "search", Call("searchCatalog", box.query))
           IN  Own(p, ds) /\ Boxed([box EXCEPT !.timer = FALSE], ds)
<1> DEFINE q == box.query
           c == Call("searchCatalog", q)
           new == [box EXCEPT !.timer = FALSE]
<1>1. q \in Queries /\ Boxed(new, Add(cs, "search", c))  BY BoxSearches DEF Searching
<1> HIDE DEF q
<1>2. SearchCall(c)  BY <1>1, CallMade DEF SearchCall
<1>3. OwnCall(p, "search", c)  BY <1>2 DEF OwnCall, CatalogCall, ModpacksCall
<1>4. Own(p, Add(cs, "search", c))  BY <1>3, OwnAsks, OperationNames, InnerNames DEF Searching
<1> QED  BY <1>1, <1>4 DEF q

LEMMA SearchEnded ==
    ASSUME NEW p \in {"catalog", "modpacks"}, NEW box, Searching(p, box, calls),
           NEW i \in InFlight, i[1] = "search", NEW hits,
           (At(i).st = "ok" /\ hits = At(i).val) \/ hits = Catalog!Nothing
    PROVE  Own(p, Without(i)) /\ Boxed([box EXCEPT !.hits = hits], Without(i))
<1>1. Own(p, Without(i))  BY OwnSteps DEF Searching
<1>2. OwnCall(p, "search", At(i))  BY OwnAt, InnerNames DEF Searching
<1>3. SearchCall(At(i))  BY <1>2 DEF OwnCall, CatalogCall, ModpacksCall
<1> QED  BY <1>1, <1>3, BoxFinds DEF Searching

\* A page with a box that is typed in.
LEMMA BoxOfPageTyped ==
    ASSUME NEW p, NEW box, NEW cs, Searching(p, box, cs), NEW ready,
           NEW query \in Queries \cup {Catalog!Short},
           ready \/ query = box.query \/ "search" \notin DOMAIN cs
    PROVE  /\ Searching(p, Catalog!Typed(box, query, ready), Catalog!Superseded(cs, query, ready))
           /\ DOMAIN Catalog!Superseded(cs, query, ready) \subseteq DOMAIN cs
           /\ Catalog!Typed(box, query, ready) \in Catalog!BoxType
           /\ Catalog!Typed(box, query, ready).timer => ready
<1> DEFINE ds == Catalog!Superseded(cs, query, ready)
<1>1. Boxed(Catalog!Typed(box, query, ready), ds)  BY BoxTyped DEF Searching
<1>2. ds = cs \/ ds = Forget(cs, {"search"})  BY CatalogApi DEF Catalog!Superseded
<1>3. Calls(ds) /\ Own(p, ds)  BY <1>2, OwnForget DEF Searching
<1>4. DOMAIN ds \subseteq DOMAIN cs  BY <1>2 DEF Forget
<1>5. Catalog!Typed(box, query, ready).timer => ready  BY DEF Catalog!Typed
<1> QED  BY <1>1, <1>3, <1>4, <1>5 DEF Searching, Boxed

-----------------------------------------------------------------------------
(* The catalog.                                                            *)

\* The box is searched for a loader only; no handler types in it before the
\* loader is known.
CatalogHolds ==
    /\ Catalog!Types
    /\ host.loader \in {"none", "paper"}
    /\ Boxed(view.box, calls)
    /\ view.box.timer \/ "search" \in DOMAIN calls => view.loader \in {"none", "paper"}

CatalogInv == auth = "in" /\ page = "catalog" => CatalogHolds /\ Own("catalog", calls)

LEMMA CatalogOwn ==
    \A h, c : OwnCall("catalog", h, c) <=> CatalogCall(h, c)
BY DEF OwnCall

\* Catalog answers with Answer and Reject of PanelApi.
LEMMA CatalogAnswers ==
    /\ \A i, val : Catalog!Answer(i, val) => Update(i, Answered(At(i), "ok", val))
    /\ \A i : Catalog!Reject(i) => Update(i, Answered(At(i), "err", None))
<1>1. \A i, val : Catalog!Answer(i, val) => Update(i, Answered(At(i), "ok", val))
  BY Zenon DEF Catalog!Answer, Catalog!Update, Catalog!Answered, Catalog!At, Update,
    Answered, At
<1>2. \A i : Catalog!Reject(i) => Update(i, Answered(At(i), "err", None))
  BY Zenon DEF Catalog!Reject, Catalog!Update, Catalog!Answered, Catalog!At, Update,
    Answered, At
<1> QED  BY <1>1, <1>2, Zenon

\* The catalog when the daemon answers.
LEMMA CatalogServed ==
    ASSUME Calls(calls), CatalogHolds, Own("catalog", calls), NEW i \in InFlight, Catalog!Serve(i)
    PROVE  CatalogHolds' /\ Own("catalog", calls')
<1>1. view' = view /\ host' = host  BY DEF Catalog!Serve
<1>2. PICK st, val :
        /\ Update(i, Answered(At(i), st, val))
        /\ \/ st # "ok"
           \/ At(i).op = "serverContent" /\ val = host.loader
           \/ At(i).op = "searchCatalog" /\ val = At(i).arg
           \/ At(i).op \notin {"serverContent", "searchCatalog"}
  BY CatalogApi, CatalogAnswers DEF Catalog!Serve, Catalog!Asked
<1>3. Searching("catalog", view.box, calls)  BY DEF Searching, CatalogHolds
<1>4. ASSUME i[1] \in Inner  PROVE OwnCall("catalog", i[1], Answered(At(i), st, val))
  <2>1. CatalogCall(i[1], At(i))  BY <1>4, OwnAt, CatalogOwn
  <2>2. CatalogCall(i[1], Answered(At(i), st, val))
    BY <1>2, <2>1, AnswerMade DEF CatalogCall, SearchCall, CatalogHolds
  <2> QED  BY <2>2, CatalogOwn
<1>5. /\ Own("catalog", calls') /\ Boxed(view.box, calls')
      /\ "search" \in DOMAIN calls' <=> "search" \in DOMAIN calls
  BY <1>2, <1>3, <1>4, OthersAnswered
<1> QED  BY <1>1, <1>5 DEF CatalogHolds, Catalog!Types

\* The catalog when a handler goes on.
LEMMA CatalogSettled ==
    ASSUME token \in Tokens, Calls(calls), CatalogHolds, Own("catalog", calls),
           NEW i \in InFlight, Catalog!Settle(i)
    PROVE  CatalogHolds' /\ Own("catalog", calls')
<1> DEFINE cs == Without(i)
<1>1. Searching("catalog", view.box, calls)  BY DEF Searching, CatalogHolds
<1>2. host' = host  BY DEF Catalog!Settle
<1>3. i[1] \in Inner => CatalogCall(i[1], At(i))  BY OwnAt, CatalogOwn
<1>4. i[1] # "search" => /\ Searching("catalog", view.box, cs)
                         /\ "search" \in DOMAIN cs <=> "search" \in DOMAIN calls
  BY <1>1, OthersEnd
<1> HIDE DEF cs
\* Nothing of the box changes, and no search is made.
<1>5. ASSUME Catalog!Types', view'.box = view.box, view'.loader = view.loader,
             Searching("catalog", view.box, calls'),
             "search" \in DOMAIN calls' <=> "search" \in DOMAIN calls
      PROVE  CatalogHolds' /\ Own("catalog", calls')
  BY <1>2, <1>5 DEF CatalogHolds, Searching
<1>6. ASSUME NEW h \in {"save", "change"}, NEW op \in Operations, NEW arg, i[1] # "search",
             calls' = Add(cs, h, Call(op, arg))
      PROVE  /\ Searching("catalog", view.box, calls')
             /\ "search" \in DOMAIN calls' <=> "search" \in DOMAIN calls
  <2>1. OwnCall("catalog", h, Call(op, arg))  BY CatalogOwn DEF CatalogCall
  <2> QED  BY <1>4, <1>6, <2>1, OthersAsk, InnerNames
<1>7. CASE Catalog!SettleContent(i)
  <2>1. i[1] = "effect"  BY <1>7 DEF Catalog!SettleContent, Catalog!Replied, Catalog!Failed
  <2>2. CASE view' = view /\ calls' = cs
    BY <1>4, <1>5, <2>1, <2>2 DEF CatalogHolds, Catalog!Types
  <2>3. ASSUME NEW val, val = At(i).val, At(i).st = "ok", NEW ready, ready = (val = "paper"),
               view' = [view EXCEPT !.loader = val,
                                    !.box = Catalog!Typed(@, view.box.query, ready)],
               calls' = Catalog!Superseded(cs, view.box.query, ready)
        PROVE  CatalogHolds' /\ Own("catalog", calls')
    <3>1. val \in {"none", "paper"}  BY <1>3, <2>1, <2>3, InnerNames DEF CatalogCall
    <3>2. view.box.query \in Queries \cup {Catalog!Short}
      BY DEF CatalogHolds, Catalog!Types, Catalog!BoxType
    <3> DEFINE box == Catalog!Typed(view.box, view.box.query, ready)
    <3>3. /\ Searching("catalog", box, calls') /\ box \in Catalog!BoxType
      BY <1>4, <2>1, <2>3, <3>2, BoxOfPageTyped
    <3> HIDE DEF box
    <3>4. view' = [view EXCEPT !.loader = val, !.box = box]  BY <2>3 DEF box
    <3>5. Catalog!Types' /\ view'.box = box /\ view'.loader = val
      BY <3>1, <3>3, <3>4 DEF CatalogHolds, Catalog!Types
    <3> QED  BY <1>2, <3>1, <3>3, <3>5 DEF CatalogHolds, Searching
  <2> QED
    BY <1>7, <2>2, <2>3, CatalogApi DEF Catalog!SettleContent, Catalog!Replied, cs
<1>8. CASE Catalog!SettleInstalled(i)
  <2>1. i[1] = "reload" /\ view' = view /\ calls' = cs
    BY <1>8, CatalogApi DEF Catalog!SettleInstalled, Catalog!Ended,
      Catalog!Replied, Catalog!Failed, cs
  <2> QED  BY <1>4, <1>5, <2>1 DEF CatalogHolds, Catalog!Types
<1>9. CASE Catalog!SettleSearch(i)
  <2>1. i[1] = "search" /\ calls' = cs
    BY <1>9, CatalogApi DEF Catalog!SettleSearch, Catalog!Replied, Catalog!Failed, cs
  <2>2. PICK hits : /\ view' = [view EXCEPT !.box.hits = hits]
                    /\ (At(i).st = "ok" /\ hits = At(i).val) \/ hits = Catalog!Nothing
    BY <1>9, CatalogApi DEF Catalog!SettleSearch, Catalog!Replied
  <2> DEFINE box == [view.box EXCEPT !.hits = hits]
  <2>3. Own("catalog", calls') /\ Boxed(box, calls')
    BY <1>1, <2>1, <2>2, SearchEnded DEF cs
  <2>4. box \in Catalog!BoxType  BY <2>3 DEF Boxed
  <2> HIDE DEF box
  <2>5. view' = [view EXCEPT !.box = box]
    BY <2>2 DEF CatalogHolds, Catalog!Types, box
  <2>6. Catalog!Types' /\ view'.box = box /\ view'.loader = view.loader
    BY <2>4, <2>5 DEF CatalogHolds, Catalog!Types
  <2>7. view.loader \in {"none", "paper"}  BY <2>1, OwnAt DEF CatalogHolds
  <2> QED  BY <1>2, <2>3, <2>6, <2>7 DEF CatalogHolds
<1>10. CASE Catalog!SettleInstall(i)
  <2>1. /\ i[1] = "save"
        /\ calls' = cs \/ calls' = Add(cs, "save", Call("installAddon", "install"))
        /\ \/ view' = view
           \/ view' = [view EXCEPT !.busy = FALSE]
           \/ view' = [view EXCEPT !.busy = FALSE, !.later = 2]
    BY <1>10, CatalogApi DEF Catalog!SettleInstall, Catalog!Replied, Catalog!Failed, cs
  <2>2. Catalog!Types' /\ view'.box = view.box /\ view'.loader = view.loader
    <3>1. CASE view' = view  BY <3>1 DEF CatalogHolds, Catalog!Types
    <3>2. CASE view' = [view EXCEPT !.busy = FALSE]
      BY <3>2 DEF CatalogHolds, Catalog!Types
    <3>3. CASE view' = [view EXCEPT !.busy = FALSE, !.later = 2]
      <4> DEFINE idle == [view EXCEPT !.busy = FALSE]
                 T == [box : Catalog!BoxType, loader : {None, "none", "paper"},
                       busy : BOOLEAN, later : 0..2]
      <4>1. idle \in T /\ idle.box = view.box /\ idle.loader = view.loader
        BY DEF CatalogHolds, Catalog!Types
      <4>2. view' = [idle EXCEPT !.later = 2]  BY <3>3, Zenon
      <4> HIDE DEF idle
      <4>3. view' \in T /\ view'.box = idle.box /\ view'.loader = idle.loader
        BY <4>1, <4>2
      <4> QED  BY <4>1, <4>3 DEF Catalog!Types
    <3> QED  BY <2>1, <3>1, <3>2, <3>3
  <2>3. /\ Searching("catalog", view.box, calls')
        /\ "search" \in DOMAIN calls' <=> "search" \in DOMAIN calls
    BY <1>4, <1>6, <2>1, OperationNames
  <2> QED  BY <1>5, <2>2, <2>3
<1>11. CASE Catalog!SettleChange(i)
  <2>1. /\ i[1] = "change"
        /\ calls' = cs \/ calls' = Add(cs, "change", Call("listInstalled", None))
        /\ view' = view \/ view' = [view EXCEPT !.busy = FALSE]
    BY <1>11, CatalogApi
    DEF Catalog!SettleChange, Catalog!ReloadInstalled, Catalog!Replied, Catalog!Failed,
        Catalog!Got, cs
  <2>2. Catalog!Types' /\ view'.box = view.box /\ view'.loader = view.loader
    BY <2>1 DEF CatalogHolds, Catalog!Types
  <2>3. /\ Searching("catalog", view.box, calls')
        /\ "search" \in DOMAIN calls' <=> "search" \in DOMAIN calls
    BY <1>4, <1>6, <2>1, OperationNames
  <2> QED  BY <1>5, <2>2, <2>3
<1> QED  BY <1>7, <1>8, <1>9, <1>10, <1>11 DEF Catalog!Settle

\* The catalog when the user acts.
LEMMA CatalogActed ==
    ASSUME token \in Tokens, Calls(calls), CatalogHolds, Own("catalog", calls), Catalog!Next
    PROVE  CatalogHolds' /\ Own("catalog", calls')
<1>1. Searching("catalog", view.box, calls)  BY DEF Searching, CatalogHolds
<1>2. ASSUME NEW h \in {"save", "change", "reload"}, NEW op \in Operations, NEW arg, host' = host,
             calls' = Add(calls, h, Call(op, arg)),
             Catalog!Types', view'.box = view.box, view'.loader = view.loader
      PROVE  CatalogHolds' /\ Own("catalog", calls')
  <2>1. OwnCall("catalog", h, Call(op, arg))  BY CatalogOwn DEF CatalogCall
  <2>2. /\ Searching("catalog", view.box, calls')
        /\ "search" \in DOMAIN calls' <=> "search" \in DOMAIN calls
    BY <1>1, <1>2, <2>1, OthersAsk, InnerNames
  <2> QED  BY <1>2, <2>2 DEF CatalogHolds, Searching
<1>3. CASE \E query \in Queries \cup {Catalog!Short} : Catalog!TypeQuery(query)
  <2>1. PICK query \in Queries \cup {Catalog!Short} : Catalog!TypeQuery(query)  BY <1>3
  <2> DEFINE ready == view.loader = "paper"
             box == Catalog!Typed(view.box, query, ready)
  <2>2. /\ view.loader # "none" /\ host' = host
        /\ view' = [view EXCEPT !.box = box]
        /\ calls' = Catalog!Superseded(calls, query, ready)
    BY <2>1 DEF Catalog!TypeQuery, Catalog!Type, Catalog!Ready, CatalogHolds, Catalog!Types
  <2>3. ready \/ "search" \notin DOMAIN calls  BY <2>2 DEF CatalogHolds
  <2>4. /\ Searching("catalog", box, calls') /\ box \in Catalog!BoxType
        /\ DOMAIN calls' \subseteq DOMAIN calls /\ (box.timer => ready)
    BY <1>1, <2>2, <2>3, BoxOfPageTyped
  <2> HIDE DEF box
  <2>5. Catalog!Types' /\ view'.box = box /\ view'.loader = view.loader
    BY <2>2, <2>4 DEF CatalogHolds, Catalog!Types
  <2> QED  BY <2>2, <2>4, <2>5 DEF CatalogHolds, Searching
<1>4. CASE Catalog!Search
  <2> DEFINE box == [view.box EXCEPT !.timer = FALSE]
  <2>1. /\ view.box.timer /\ view' = [view EXCEPT !.box = box] /\ host' = host
        /\ calls' = Add(calls, "search", Call("searchCatalog", view.box.query))
    BY <1>4, CatalogApi DEF Catalog!Search, CatalogHolds, Catalog!Types
  <2>2. Own("catalog", calls') /\ Boxed(box, calls')  BY <1>1, <2>1, SearchAsked
  <2>3. box \in Catalog!BoxType  BY <2>2 DEF Boxed
  <2> HIDE DEF box
  <2>4. Catalog!Types' /\ view'.box = box /\ view'.loader = view.loader
    BY <2>1, <2>3 DEF CatalogHolds, Catalog!Types
  <2> QED  BY <2>1, <2>2, <2>4 DEF CatalogHolds
<1>5. CASE Catalog!Install
  BY <1>2, <1>5, OperationNames, CatalogApi
  DEF Catalog!Install, Catalog!Ask, CatalogHolds, Catalog!Types
<1>6. CASE Catalog!Later
  BY <1>2, <1>6, OperationNames, CatalogApi DEF Catalog!Later, Catalog!ReloadInstalled, CatalogHolds,
    Catalog!Types
<1>7. CASE Catalog!Toggle \/ Catalog!Delete
  BY <1>2, <1>7, OperationNames, CatalogApi
  DEF Catalog!Toggle, Catalog!Delete, Catalog!Change, Catalog!Ask, CatalogHolds, Catalog!Types
<1> QED  BY <1>3, <1>4, <1>5, <1>6, <1>7 DEF Catalog!Next

\* No step of the catalog loses it.
LEMMA CatalogKeeps ==
    ASSUME PanelInv, CatalogInv, [Next]_vars
    PROVE  CatalogInv'
<1> SUFFICES ASSUME auth' = "in", page' = "catalog"
             PROVE  CatalogHolds' /\ Own("catalog", calls')
  BY DEF CatalogInv
<1>1. AppInv /\ Calls(calls) /\ token \in Tokens  BY DEF PanelInv, AppInv, Held
<1>2. auth = "in" /\ page = "catalog" => CatalogHolds /\ Own("catalog", calls)
  BY DEF CatalogInv
<1>3. CASE PageStep
  <2>1. auth = "in" /\ page = "catalog"  BY <1>1, <1>3, PageIsInside
  <2>2. Catalog!Next \/ \E i \in InFlight : Catalog!Serve(i) \/ Catalog!Settle(i)
    BY <1>3, <2>1 DEF PageStep, On
  <2> QED  BY <1>1, <1>2, <2>1, <2>2, CatalogServed, CatalogSettled, CatalogActed
<1>4. CASE AsideStep
  <2>1. auth = "in" /\ page = "catalog" /\ UNCHANGED <<view, host>> /\ Aside(calls')
    BY <1>4 DEF AsideStep
  <2>2. Searching("catalog", view.box, calls)  BY <1>1, <1>2, <2>1 DEF Searching, CatalogHolds
  <2>3. /\ Own("catalog", calls') /\ Boxed(view.box, calls')
        /\ "search" \in DOMAIN calls' <=> "search" \in DOMAIN calls
    BY <2>1, <2>2, OthersAside
  <2> QED  BY <1>2, <2>1, <2>3 DEF CatalogHolds, Catalog!Types
<1>5. CASE EnterStep
  <2>1. PICK p \in Pages : \E cs : Fit(cs) /\ Enter(p, cs)  BY <1>5, Zenon DEF EnterStep
  <2>2. PICK cs : Fit(cs) /\ Enter(p, cs)  BY <2>1, Zenon
  <2>3. p = "catalog"  BY <1>1, <2>2, EntersWith
  <2> DEFINE box == Catalog!emptyBox
             ds == Add(cs, "effect", Call("serverContent", None))
  <2>4. /\ view' = Catalog!Opening /\ host' \in Catalog!Found
        /\ calls' = Add(ds, "reload", Call("listInstalled", None))
    BY <2>2, <2>3, CatalogApi DEF Enter, Catalog!FirstCalls, Catalog!ReloadInstalled
  <2>5. Calls(cs) /\ Own("catalog", cs) /\ "search" \notin DOMAIN cs
    BY <2>2, OwnFit, InnerNames
  <2>6. box \in Catalog!BoxType /\ Catalog!Opening.box = box /\ ~box.timer
    BY DEF Catalog!BoxType, Catalog!emptyBox, Catalog!Opening
  <2>7. Boxed(box, cs)  BY <2>5, <2>6 DEF Boxed, Catalog!emptyBox
  <2>8. Searching("catalog", box, cs)  BY <2>5, <2>7 DEF Searching
  <2> HIDE DEF box
  <2>9. OwnCall("catalog", "effect", Call("serverContent", None))
    BY CatalogOwn, CallMade DEF CatalogCall
  <2>10. Searching("catalog", box, ds) /\ "search" \notin DOMAIN ds
    BY <1>1, <2>5, <2>8, <2>9, OthersAsk, OperationNames, InnerNames
  <2> HIDE DEF ds
  <2>11. OwnCall("catalog", "reload", Call("listInstalled", None))
    BY CatalogOwn DEF CatalogCall
  <2>12. Searching("catalog", box, calls') /\ "search" \notin DOMAIN calls'
    BY <1>1, <2>4, <2>10, <2>11, OthersAsk, OperationNames, InnerNames
  <2>13. Catalog!Types' /\ view'.box = box
    BY <2>4, <2>6 DEF Catalog!Types, Catalog!Opening
  <2>14. host'.loader \in {"none", "paper"}  BY <2>4 DEF Catalog!Found
  <2> QED  BY <2>6, <2>12, <2>13, <2>14 DEF CatalogHolds, Searching
<1>6. CASE SignOutStep  BY <1>6 DEF SignOutStep
<1>7. CASE UNCHANGED vars  BY <1>2, <1>7 DEF vars, appVars, CatalogHolds, Catalog!Types
<1> QED  BY <1>1, <1>3, <1>4, <1>5, <1>6, <1>7, StepIsOneOf

-----------------------------------------------------------------------------
(* The modpacks.                                                           *)

\* The box is as the catalog's, and searches whenever something is typed.
ModpacksHolds ==
    /\ view \in [box : Catalog!BoxType, busy : {view.busy}, task : {view.task}]
    /\ Boxed(view.box, calls)

ModpacksInv == auth = "in" /\ page = "modpacks" => ModpacksHolds /\ Own("modpacks", calls)

LEMMA ModpacksOwn ==
    \A h, c : OwnCall("modpacks", h, c) <=> ModpacksCall(h, c)
BY DEF OwnCall

\* Modpacks answers with Answer and Reject of PanelApi.
LEMMA ModpacksAnswers ==
    /\ \A i, val : Modpacks!Answer(i, val) => Update(i, Answered(At(i), "ok", val))
    /\ \A i : Modpacks!Reject(i) => Update(i, Answered(At(i), "err", None))
<1>1. \A i, val : Modpacks!Answer(i, val) => Update(i, Answered(At(i), "ok", val))
  BY Zenon DEF Modpacks!Answer, Modpacks!Update, Modpacks!Answered, Modpacks!At, Update,
    Answered, At
<1>2. \A i : Modpacks!Reject(i) => Update(i, Answered(At(i), "err", None))
  BY Zenon DEF Modpacks!Reject, Modpacks!Update, Modpacks!Answered, Modpacks!At, Update,
    Answered, At
<1> QED  BY <1>1, <1>2, Zenon

\* The box of the view is another.
LEMMA ModpacksBoxed ==
    ASSUME ModpacksHolds, NEW box \in Catalog!BoxType, view' = [view EXCEPT !.box = box]
    PROVE  /\ view' \in [box : Catalog!BoxType, busy : {view'.busy}, task : {view'.task}]
           /\ view'.box = box
<1>1. view \in [box : Catalog!BoxType, busy : {view.busy}, task : {view.task}]
  BY DEF ModpacksHolds
<1>2. view' \in [box : Catalog!BoxType, busy : {view.busy}, task : {view.task}]
  BY <1>1
<1>3. view'.box = box  BY <1>1
<1>4. view'.busy = view.busy /\ view'.task = view.task  BY <1>2
<1> QED  BY <1>2, <1>3, <1>4

\* The rest of it is.
LEMMA ModpacksElse ==
    ASSUME ModpacksHolds, NEW busy, NEW task,
           view' = [view EXCEPT !.busy = busy, !.task = task]
    PROVE  /\ view' \in [box : Catalog!BoxType, busy : {view'.busy}, task : {view'.task}]
           /\ view'.box = view.box
<1>1. view \in [box : Catalog!BoxType, busy : {view.busy}, task : {view.task}]
  BY DEF ModpacksHolds
<1> DEFINE half == [view EXCEPT !.busy = busy]
<1>2. half \in [box : Catalog!BoxType, busy : {busy}, task : {view.task}]
  BY <1>1
<1>3. half.box = view.box  BY <1>1
<1>4. view' = [half EXCEPT !.task = task]  BY Zenon
<1> HIDE DEF half
<1>5. view' \in [box : Catalog!BoxType, busy : {busy}, task : {task}]  BY <1>2, <1>4
<1>6. view'.box = half.box  BY <1>2, <1>4
<1>7. view'.busy = busy /\ view'.task = task  BY <1>5
<1> QED  BY <1>3, <1>5, <1>6, <1>7

LEMMA ModpacksOne ==
    ASSUME ModpacksHolds, NEW x,
           view' = [view EXCEPT !.busy = x] \/ view' = [view EXCEPT !.task = x]
    PROVE  /\ view' \in [box : Catalog!BoxType, busy : {view'.busy}, task : {view'.task}]
           /\ view'.box = view.box
<1>1. view \in [box : Catalog!BoxType, busy : {view.busy}, task : {view.task}]
  BY DEF ModpacksHolds
<1>2. CASE view' = [view EXCEPT !.busy = x]
  <2>1. view' \in [box : Catalog!BoxType, busy : {x}, task : {view.task}]  BY <1>1, <1>2
  <2>2. view'.box = view.box  BY <1>1, <1>2
  <2>3. view'.busy = x /\ view'.task = view.task  BY <2>1
  <2> QED  BY <2>1, <2>2, <2>3
<1>3. CASE view' = [view EXCEPT !.task = x]
  <2>1. view' \in [box : Catalog!BoxType, busy : {view.busy}, task : {x}]  BY <1>1, <1>3
  <2>2. view'.box = view.box  BY <1>1, <1>3
  <2>3. view'.task = x /\ view'.busy = view.busy  BY <2>1
  <2> QED  BY <2>1, <2>2, <2>3
<1> QED  BY <1>2, <1>3

\* The modpacks when the daemon answers.
LEMMA ModpacksServed ==
    ASSUME Calls(calls), ModpacksHolds, Own("modpacks", calls), NEW i \in InFlight,
           Modpacks!Serve(i)
    PROVE  ModpacksHolds' /\ Own("modpacks", calls')
<1>1. view' = view  BY DEF Modpacks!Serve
<1>2. PICK st, val :
        /\ Update(i, Answered(At(i), st, val))
        /\ \/ st # "ok"
           \/ At(i).op = "searchCatalog" /\ val = At(i).arg
           \/ At(i).op # "searchCatalog"
  BY ModpacksApi, ModpacksAnswers DEF Modpacks!Serve, Modpacks!Asked
<1>3. Searching("modpacks", view.box, calls)  BY DEF Searching, ModpacksHolds
<1>4. ASSUME i[1] \in Inner  PROVE OwnCall("modpacks", i[1], Answered(At(i), st, val))
  <2>1. ModpacksCall(i[1], At(i))  BY <1>4, OwnAt, ModpacksOwn
  <2>2. ModpacksCall(i[1], Answered(At(i), st, val))
    BY <1>2, <2>1, AnswerMade DEF ModpacksCall, SearchCall
  <2> QED  BY <2>2, ModpacksOwn
<1>5. Own("modpacks", calls') /\ Boxed(view.box, calls')
  BY <1>2, <1>3, <1>4, OthersAnswered
<1> QED  BY <1>1, <1>5 DEF ModpacksHolds

\* The modpacks when a handler goes on.
LEMMA ModpacksSettled ==
    ASSUME token \in Tokens, Calls(calls), ModpacksHolds, Own("modpacks", calls),
           NEW i \in InFlight, Modpacks!Settle(i)
    PROVE  ModpacksHolds' /\ Own("modpacks", calls')
<1> DEFINE cs == Without(i)
<1>1. Searching("modpacks", view.box, calls)  BY DEF Searching, ModpacksHolds
<1>2. i[1] # "search" => Searching("modpacks", view.box, cs)  BY <1>1, OthersEnd
<1> HIDE DEF cs
<1>3. view' = view =>
        /\ view' \in [box : Catalog!BoxType, busy : {view'.busy}, task : {view'.task}]
        /\ view'.box = view.box
  BY DEF ModpacksHolds
<1>4. ASSUME NEW h \in {"save", "reload"}, NEW op \in Operations, NEW arg, i[1] # "search",
             calls' = Add(cs, h, Call(op, arg))
      PROVE  Searching("modpacks", view.box, calls')
  <2>1. OwnCall("modpacks", h, Call(op, arg))  BY ModpacksOwn DEF ModpacksCall
  <2> QED  BY <1>2, <1>4, <2>1, OthersAsk, InnerNames
<1>5. CASE Modpacks!SettleInstalled(i)
  <2>1. i[1] = "reload" /\ view' = view /\ calls' = cs
    BY <1>5, ModpacksApi DEF Modpacks!SettleInstalled, Modpacks!Ended,
      Modpacks!Replied, Modpacks!Failed, cs
  <2> QED  BY <1>2, <1>3, <2>1 DEF ModpacksHolds, Searching
<1>6. CASE Modpacks!SettleSearch(i)
  <2>1. i[1] = "search" /\ calls' = cs
    BY <1>6, ModpacksApi DEF Modpacks!SettleSearch, Modpacks!Replied, Modpacks!Failed, cs
  <2>2. PICK hits : /\ view' = [view EXCEPT !.box.hits = hits]
                    /\ (At(i).st = "ok" /\ hits = At(i).val) \/ hits = Catalog!Nothing
    BY <1>6, ModpacksApi, BoxIsShared DEF Modpacks!SettleSearch, Modpacks!Replied
  <2> DEFINE box == [view.box EXCEPT !.hits = hits]
  <2>3. Own("modpacks", calls') /\ Boxed(box, calls')
    BY <1>1, <2>1, <2>2, SearchEnded DEF cs
  <2>4. box \in Catalog!BoxType  BY <2>3 DEF Boxed
  <2> HIDE DEF box
  <2>5. view' = [view EXCEPT !.box = box]  BY <2>2 DEF ModpacksHolds, box
  <2> QED  BY <2>3, <2>4, <2>5, ModpacksBoxed DEF ModpacksHolds
<1>7. CASE Modpacks!SettleInstall(i)
  <2>1. /\ i[1] = "save"
        /\ calls' = cs \/ calls' = Add(cs, "save", Call("installModpack", "install"))
        /\ \/ view' = view
           \/ view' = [view EXCEPT !.busy = FALSE]
           \/ view' = [view EXCEPT !.busy = FALSE, !.task = [id |-> At(i).val, over |-> FALSE]]
    BY <1>7, ModpacksApi DEF Modpacks!SettleInstall, Modpacks!Replied, Modpacks!Failed, cs
  <2>2. Searching("modpacks", view.box, calls')  BY <1>2, <1>4, <2>1, OperationNames
  <2>3. /\ view' \in [box : Catalog!BoxType, busy : {view'.busy}, task : {view'.task}]
        /\ view'.box = view.box
    <3>1. CASE view' = view  BY <1>3, <3>1
    <3>2. CASE view' = [view EXCEPT !.busy = FALSE]  BY <3>2, ModpacksOne, Zenon
    <3>3. CASE view' = [view EXCEPT !.busy = FALSE, !.task = [id |-> At(i).val, over |-> FALSE]]
      BY <3>3, ModpacksElse, Zenon
    <3> QED  BY <2>1, <3>1, <3>2, <3>3
  <2> QED  BY <2>2, <2>3 DEF ModpacksHolds, Searching
<1>8. CASE Modpacks!SettlePoll(i)
  <2>1. /\ i[1] = "poll"
        /\ calls' = cs \/ calls' = Add(cs, "reload", Call("serverModpack", None))
        /\ view' = view \/ view' = [view EXCEPT !.task = At(i).val]
    BY <1>8, ModpacksApi
    DEF Modpacks!SettlePoll, Modpacks!ReloadInstalled, Modpacks!Replied, Modpacks!Failed, cs
  <2>2. Searching("modpacks", view.box, calls')  BY <1>2, <1>4, <2>1, OperationNames
  <2>3. /\ view' \in [box : Catalog!BoxType, busy : {view'.busy}, task : {view'.task}]
        /\ view'.box = view.box
    <3>1. CASE view' = view  BY <1>3, <3>1
    <3>2. CASE view' = [view EXCEPT !.task = At(i).val]  BY <3>2, ModpacksOne, Zenon
    <3> QED  BY <2>1, <3>1, <3>2
  <2> QED  BY <2>2, <2>3 DEF ModpacksHolds, Searching
<1> QED  BY <1>5, <1>6, <1>7, <1>8 DEF Modpacks!Settle

\* The modpacks when the user acts.
LEMMA ModpacksActed ==
    ASSUME token \in Tokens, Calls(calls), ModpacksHolds, Own("modpacks", calls), Modpacks!Next
    PROVE  ModpacksHolds' /\ Own("modpacks", calls')
<1>1. Searching("modpacks", view.box, calls)  BY DEF Searching, ModpacksHolds
<1>2. ASSUME NEW h \in {"save", "poll"}, NEW op \in Operations, NEW arg,
             calls' = Add(calls, h, Call(op, arg))
      PROVE  Searching("modpacks", view.box, calls')
  <2>1. OwnCall("modpacks", h, Call(op, arg))  BY ModpacksOwn DEF ModpacksCall
  <2> QED  BY <1>1, <1>2, <2>1, OthersAsk, InnerNames
<1>3. CASE \E query \in Queries \cup {Modpacks!Short} : Modpacks!Type(query, TRUE)
  <2>1. PICK query \in Queries \cup {Catalog!Short} : Modpacks!Type(query, TRUE)
    BY <1>3, BoxIsShared
  <2> DEFINE box == Catalog!Typed(view.box, query, TRUE)
  <2>2. /\ view' = [view EXCEPT !.box = box]
        /\ calls' = Catalog!Superseded(calls, query, TRUE)
    BY <2>1, BoxIsShared DEF Modpacks!Type, ModpacksHolds
  <2>3. Searching("modpacks", box, calls') /\ box \in Catalog!BoxType
    BY <1>1, <2>2, BoxOfPageTyped
  <2> HIDE DEF box
  <2> QED  BY <2>2, <2>3, ModpacksBoxed DEF ModpacksHolds, Searching
<1>4. CASE Modpacks!Search
  <2> DEFINE box == [view.box EXCEPT !.timer = FALSE]
  <2>1. /\ view.box.timer /\ view' = [view EXCEPT !.box = box]
        /\ calls' = Add(calls, "search", Call("searchCatalog", view.box.query))
    BY <1>4, ModpacksApi DEF Modpacks!Search, ModpacksHolds
  <2>2. Own("modpacks", calls') /\ Boxed(box, calls')  BY <1>1, <2>1, SearchAsked
  <2>3. box \in Catalog!BoxType  BY <2>2 DEF Boxed
  <2> HIDE DEF box
  <2> QED  BY <2>1, <2>2, <2>3, ModpacksBoxed DEF ModpacksHolds
<1>5. CASE Modpacks!Install
  <2>1. /\ calls' = Add(calls, "save", Call("installModpack", "dry run"))
        /\ view' = [view EXCEPT !.busy = TRUE]
    BY <1>5, ModpacksApi DEF Modpacks!Install, Modpacks!Ask
  <2>2. Searching("modpacks", view.box, calls')  BY <1>2, <2>1, OperationNames
  <2>3. /\ view' \in [box : Catalog!BoxType, busy : {view'.busy}, task : {view'.task}]
        /\ view'.box = view.box
    BY <2>1, ModpacksOne, Zenon
  <2> QED  BY <2>2, <2>3 DEF ModpacksHolds, Searching
<1>6. CASE Modpacks!Poll
  <2>1. calls' = Add(calls, "poll", Call("getTask", view.task.id)) /\ view' = view
    BY <1>6, ModpacksApi DEF Modpacks!Poll
  <2>2. Searching("modpacks", view.box, calls')  BY <1>2, <2>1, OperationNames
  <2> QED  BY <2>1, <2>2 DEF ModpacksHolds, Searching
<1>7. CASE Modpacks!HostMoves  BY <1>7 DEF Modpacks!HostMoves, ModpacksHolds
<1> QED  BY <1>3, <1>4, <1>5, <1>6, <1>7 DEF Modpacks!Next

\* No step of the modpacks loses it.
LEMMA ModpacksKeep ==
    ASSUME PanelInv, ModpacksInv, [Next]_vars
    PROVE  ModpacksInv'
<1> SUFFICES ASSUME auth' = "in", page' = "modpacks"
             PROVE  ModpacksHolds' /\ Own("modpacks", calls')
  BY DEF ModpacksInv
<1>1. AppInv /\ Calls(calls) /\ token \in Tokens  BY DEF PanelInv, AppInv, Held
<1>2. auth = "in" /\ page = "modpacks" => ModpacksHolds /\ Own("modpacks", calls)
  BY DEF ModpacksInv
<1>3. CASE PageStep
  <2>1. auth = "in" /\ page = "modpacks"  BY <1>1, <1>3, PageIsInside
  <2>2. Modpacks!Next \/ \E i \in InFlight : Modpacks!Serve(i) \/ Modpacks!Settle(i)
    BY <1>3, <2>1 DEF PageStep, On
  <2> QED  BY <1>1, <1>2, <2>1, <2>2, ModpacksServed, ModpacksSettled, ModpacksActed
<1>4. CASE AsideStep
  <2>1. auth = "in" /\ page = "modpacks" /\ view' = view /\ Aside(calls')
    BY <1>4 DEF AsideStep
  <2>2. Searching("modpacks", view.box, calls)  BY <1>1, <1>2, <2>1 DEF Searching, ModpacksHolds
  <2>3. Own("modpacks", calls') /\ Boxed(view.box, calls')  BY <2>1, <2>2, OthersAside
  <2> QED  BY <1>2, <2>1, <2>3 DEF ModpacksHolds
<1>5. CASE EnterStep
  <2>1. PICK p \in Pages : \E cs : Fit(cs) /\ Enter(p, cs)  BY <1>5, Zenon DEF EnterStep
  <2>2. PICK cs : Fit(cs) /\ Enter(p, cs)  BY <2>1, Zenon
  <2>3. p = "modpacks"  BY <1>1, <2>2, EntersWith
  <2> DEFINE box == Modpacks!emptyBox
  <2>4. /\ view' = Modpacks!Opening /\ calls' = Add(cs, "reload", Call("serverModpack", None))
    BY <2>2, <2>3, ModpacksApi DEF Enter, Modpacks!FirstCalls, Modpacks!ReloadInstalled
  <2>5. Calls(cs) /\ Own("modpacks", cs) /\ "search" \notin DOMAIN cs
    BY <2>2, OwnFit, InnerNames
  <2>6. box \in Catalog!BoxType /\ ~box.timer /\ box.query = Catalog!Short
    BY DEF Catalog!BoxType, Modpacks!emptyBox, Modpacks!Short, Catalog!Short
  <2>7. Boxed(box, cs)  BY <2>5, <2>6 DEF Boxed
  <2>8. Searching("modpacks", box, cs)  BY <2>5, <2>7 DEF Searching
  <2>9. OwnCall("modpacks", "reload", Call("serverModpack", None))
    BY ModpacksOwn DEF ModpacksCall
  <2> HIDE DEF box
  <2>10. Searching("modpacks", box, calls')
    BY <1>1, <2>4, <2>8, <2>9, OthersAsk, OperationNames, InnerNames
  <2>11. view' = [box |-> box, busy |-> FALSE, task |-> None]
    BY <2>4 DEF Modpacks!Opening, box
  <2>12. view'.box = box /\ view'.busy = FALSE /\ view'.task = None  BY <2>11
  <2> QED  BY <2>6, <2>10, <2>11, <2>12 DEF ModpacksHolds, Searching
<1>6. CASE SignOutStep  BY <1>6 DEF SignOutStep
<1>7. CASE UNCHANGED vars  BY <1>2, <1>7 DEF vars, appVars, ModpacksHolds
<1> QED  BY <1>1, <1>3, <1>4, <1>5, <1>6, <1>7, StepIsOneOf

\* Servers.tsx, ServerCatalog.tsx, ServerModpacks.tsx: however the answers are
\* ordered and whatever was chosen or typed meanwhile, the versions listed are
\* of the core chosen last, and the hits drawn, once no search is on, of the
\* query that was typed last.
THEOREM AnswersAlwaysBelong == Spec => []AnswersBelong
<1> DEFINE Belong == ServersInv /\ CatalogInv /\ ModpacksInv
<1>1. Init => Belong  BY DEF Init, ServersInv, CatalogInv, ModpacksInv
<1>2. PanelInv /\ Belong /\ [Next]_vars => Belong'
  BY ServersKeep, CatalogKeeps, ModpacksKeep
<1>3. PanelInv /\ Belong => AnswersBelong
  <2>1. ASSUME auth = "in", page = "servers", Belong  PROVE Servers!VersionsBelong
    BY <2>1 DEF ServersInv, ServersView, FormHolds, Servers!VersionsBelong
  <2>2. ASSUME auth = "in", page = "catalog", Belong  PROVE Catalog!HitsBelong
    BY <2>2 DEF CatalogInv, CatalogHolds, Boxed, Catalog!HitsBelong
  <2>3. ASSUME auth = "in", page = "modpacks", Belong  PROVE Modpacks!HitsBelong
    BY <2>3, BoxIsShared DEF ModpacksInv, ModpacksHolds, Boxed, Modpacks!HitsBelong
  <2> HIDE DEF Belong
  <2> QED  BY <2>1, <2>2, <2>3 DEF AnswersBelong
<1> QED  BY <1>1, <1>2, <1>3, PanelInvariance, PTL DEF Spec

-----------------------------------------------------------------------------
(* What every variable holds.                                              *)

\* A page that is drawn was entered, or made a step of its own, or something
\* else happened beside it.
PageStays(p) ==
    /\ auth = "in" /\ page = p /\ Aside(calls') /\ sockets' = sockets
    /\ p # "theme" => view' = view /\ host' = host

PageSteps(p) == auth = "in" /\ page = p /\ PageStep

PageOpens(p) == sockets' = <<>> /\ \E cs : Fit(cs) /\ Enter(p, cs)

LEMMA PageCases ==
    ASSUME PanelInv, [Next]_vars, NEW p, auth' = "in", page' = p
    PROVE  /\ AppInv /\ Calls(calls) /\ Known(calls) /\ token \in Tokens
           /\ PageSteps(p) \/ PageStays(p) \/ PageOpens(p)
<1>1. AppInv /\ Calls(calls) /\ Known(calls) /\ token \in Tokens
  BY DEF PanelInv, AppInv, Held
<1> SUFFICES PageSteps(p) \/ PageStays(p) \/ PageOpens(p)  BY <1>1
<1>2. CASE PageStep
  <2>1. auth = "in" /\ page' = page  BY <1>1, <1>2, PageIsInside
  <2> QED  BY <1>2, <2>1 DEF PageSteps
<1>3. CASE AsideStep  BY <1>3 DEF AsideStep, PageStays
<1>4. CASE EnterStep
  <2>1. PICK q \in Pages : \E cs : Fit(cs) /\ Enter(q, cs)  BY <1>4, Zenon DEF EnterStep
  <2>2. PICK cs : Fit(cs) /\ Enter(q, cs)  BY <2>1, Zenon
  <2>3. q = p  BY <1>1, <2>2, EntersWith
  <2> QED  BY <1>4, <2>2, <2>3 DEF PageOpens, EnterStep
<1>5. CASE SignOutStep  BY <1>5 DEF SignOutStep
<1>6. CASE UNCHANGED vars
  <2>1. Aside(calls)  BY <1>1, AsideSteps
  <2>2. UNCHANGED <<auth, page, sockets, calls, view, host>>  BY <1>6 DEF vars, appVars
  <2> QED  BY <2>1, <2>2 DEF PageStays
<1> QED  BY <1>1, <1>2, <1>3, <1>4, <1>5, <1>6, StepIsOneOf

\* Nothing of a page is in flight when it is opened.
LEMMA OwnOpens ==
    ASSUME token \in Tokens, NEW p, NEW cs, Fit(cs), NEW h \in Inner, NEW op \in Operations,
           NEW arg, OwnCall(p, h, Call(op, arg))
    PROVE  Calls(Add(cs, h, Call(op, arg))) /\ Own(p, Add(cs, h, Call(op, arg)))
BY OwnFit, OwnAsks

\* What goes on beside a page leaves what it knows.
LEMMA OwnStays ==
    ASSUME Calls(calls), NEW p, Own(p, calls), PageStays(p)
    PROVE  Own(p, calls')
BY OwnAside DEF PageStays

\* What a page writes, it has asked for.
LEMMA PageWrote ==
    ASSUME Calls(calls), Known(calls), NEW p, Own(p, calls), NEW i \in InFlight,
           At(i).op \in PageWrites
    PROVE  OwnCall(p, i[1], At(i))
<1>1. KnownCall(i[1], At(i)) /\ i[1] \in Inner \cup Outer \cup {"connect"}
  BY InFlightIsKnown, OwnAt
<1>2. i[1] \in Inner  BY <1>1 DEF KnownCall
<1> QED  BY <1>2, OwnAt

-----------------------------------------------------------------------------
(* The backups.                                                            *)

BackupsHold == Backups!Types /\ host \in Backups!Found

BackupsInv == auth = "in" /\ page = "backups" => BackupsHold /\ Own("backups", calls)

LEMMA BackupsOwn == \A h, c : OwnCall("backups", h, c) <=> BackupsCall(h, c)
BY DEF OwnCall

\* Backups answers with Answer and Reject of PanelApi.
LEMMA BackupsAnswers ==
    /\ \A i, val : Backups!Answer(i, val) => Update(i, Answered(At(i), "ok", val))
    /\ \A i : Backups!Reject(i) => Update(i, Answered(At(i), "err", None))
<1>1. \A i, val : Backups!Answer(i, val) => Update(i, Answered(At(i), "ok", val))
  BY Zenon DEF Backups!Answer, Backups!Update, Backups!Answered, Backups!At, Update,
    Answered, At
<1>2. \A i : Backups!Reject(i) => Update(i, Answered(At(i), "err", None))
  BY Zenon DEF Backups!Reject, Backups!Update, Backups!Answered, Backups!At, Update,
    Answered, At
<1> QED  BY <1>1, <1>2, Zenon

\* The backups when the daemon answers.
LEMMA BackupsServed ==
    ASSUME Calls(calls), Known(calls), BackupsHold, Own("backups", calls), NEW i \in InFlight,
           Backups!Serve(i)
    PROVE  BackupsHold' /\ Own("backups", calls')
<1>1. view' = view  BY DEF Backups!Serve
<1>2. ASSUME NEW st, NEW val, Update(i, Answered(At(i), st, val)),
             st = "ok" =>
               /\ At(i).op = "listBackups" => val \in Backups!States
               /\ At(i).op = "getBackupSchedule" => val \in Backups!Schedules
               /\ At(i).op = "putBackupSchedule" => val = At(i).arg
      PROVE  Own("backups", calls')
  <2>1. ASSUME i[1] \in Inner  PROVE OwnCall("backups", i[1], Answered(At(i), st, val))
    <3>1. BackupsCall(i[1], At(i))  BY <2>1, OwnAt, BackupsOwn
    <3>2. BackupsCall(i[1], Answered(At(i), st, val))
      BY <1>2, <3>1, AnswerMade DEF BackupsCall
    <3> QED  BY <3>2, BackupsOwn
  <2> QED  BY <1>2, <2>1, OwnSteps
<1>3. CASE Backups!ServeChange(i)
  <2>1. At(i).op \in {"createBackup", "deleteBackup", "putBackupSchedule"}
    BY <1>3, BackupsApi DEF Backups!ServeChange, Backups!Asked
  <2>2. PICK st, val : /\ Update(i, Answered(At(i), st, val))
                       /\ st = "ok" /\ At(i).op = "putBackupSchedule" => val = At(i).arg
    BY <1>3, BackupsApi, BackupsAnswers DEF Backups!ServeChange, Backups!Asked
  <2>3. Own("backups", calls')  BY <1>2, <2>1, <2>2
  <2>4. At(i).op = "putBackupSchedule" => At(i).arg \in Backups!Schedules
    BY PageWrote, BackupsOwn DEF PageWrites, BackupsCall
  <2>5. \/ host' = host
        \/ \E state \in {"running", "none"} : host' = [host EXCEPT !.backup = state]
        \/ At(i).op = "putBackupSchedule" /\ host' = [host EXCEPT !.schedule = At(i).arg]
    BY <1>3, BackupsApi DEF Backups!ServeChange, Backups!Asked
  <2>6. host' \in Backups!Found  BY <2>4, <2>5 DEF BackupsHold, Backups!Found, Backups!States
  <2> QED  BY <1>1, <2>3, <2>6 DEF BackupsHold, Backups!Types
<1>4. CASE Backups!ServeRead(i)
  <2>1. \/ At(i).op = "listBackups" /\ Update(i, Answered(At(i), "ok", host.backup))
        \/ At(i).op = "getBackupSchedule" /\ Update(i, Answered(At(i), "ok", host.schedule))
        \/ /\ At(i).op \in {"restoreBackup", "downloadBackup"}
           /\ \/ Update(i, Answered(At(i), "ok", None))
              \/ Update(i, Answered(At(i), "err", None))
    BY <1>4, BackupsApi, BackupsAnswers DEF Backups!ServeRead, Backups!Asked
  <2>2. host.backup \in Backups!States /\ host.schedule \in Backups!Schedules
    BY DEF BackupsHold, Backups!Found
  <2>3. Own("backups", calls')  BY <1>2, <2>1, <2>2
  <2>4. host' = host  BY <1>4 DEF Backups!ServeRead
  <2> QED  BY <1>1, <2>3, <2>4 DEF BackupsHold, Backups!Types
<1> QED  BY <1>3, <1>4 DEF Backups!Serve

\* The backups when a handler goes on.
LEMMA BackupsSettled ==
    ASSUME token \in Tokens, Calls(calls), BackupsHold, Own("backups", calls),
           NEW i \in InFlight, Backups!Settle(i)
    PROVE  BackupsHold' /\ Own("backups", calls')
<1>1. Calls(Without(i)) /\ Own("backups", Without(i))  BY OwnSteps
<1>2. i[1] \in Inner => BackupsCall(i[1], At(i))  BY OwnAt, BackupsOwn
<1>3. host' = host  BY DEF Backups!Settle
<1>4. calls' = Without(i) \/ calls' = Add(Without(i), "change", Call("listBackups", None))
  BY BackupsApi DEF Backups!Settle, Backups!SettleReload, Backups!SettleChange,
    Backups!SettleDownload, Backups!SettleSchedule, Backups!SettleSave, Backups!Reload
<1>5. OwnCall("backups", "change", Call("listBackups", None))
  BY CallMade, BackupsOwn DEF BackupsCall
<1>6. Own("backups", calls')  BY <1>1, <1>4, <1>5, OwnAsks, OperationNames, InnerNames
<1>7. ASSUME NEW val \in Backups!States,
             view' = [view EXCEPT !.backup = val]
             \/ view' = [view EXCEPT !.busy = FALSE, !.backup = val]
      PROVE  Backups!Types'
  BY <1>7 DEF BackupsHold, Backups!Types
<1>8. CASE view' = view \/ view' = [view EXCEPT !.busy = FALSE]
  BY <1>3, <1>6, <1>8 DEF BackupsHold, Backups!Types
<1>9. CASE Backups!SettleReload(i)
  <2>1. view' = view \/ (BackupsCall("reload", At(i)) /\ At(i).st = "ok"
                           /\ view' = [view EXCEPT !.backup = At(i).val])
    BY <1>2, <1>9, BackupsApi, InnerNames DEF Backups!SettleReload, Backups!Replied
  <2> QED  BY <1>3, <1>6, <1>7, <1>8, <2>1 DEF BackupsHold, BackupsCall
<1>10. CASE Backups!SettleChange(i)
  <2>1. \/ view' = view \/ view' = [view EXCEPT !.busy = FALSE]
        \/ /\ BackupsCall("change", At(i)) /\ At(i).st = "ok" /\ At(i).op = "listBackups"
           /\ view' = [view EXCEPT !.busy = FALSE, !.backup = At(i).val]
    BY <1>2, <1>10, BackupsApi, InnerNames DEF Backups!SettleChange, Backups!Got, Backups!Replied
  <2> QED  BY <1>3, <1>6, <1>7, <1>8, <2>1 DEF BackupsHold, BackupsCall
<1>11. CASE Backups!SettleDownload(i)  BY <1>8, <1>11 DEF Backups!SettleDownload
<1>12. CASE Backups!SettleSchedule(i)
  <2>1. \/ /\ BackupsCall("effect", At(i)) /\ At(i).st = "ok"
           /\ view' = [view EXCEPT !.schedule = At(i).val, !.draft = At(i).val]
        \/ view' = [view EXCEPT !.draft = DefaultDraft]
    BY <1>2, <1>12, BackupsApi, InnerNames DEF Backups!SettleSchedule, Backups!Replied
  <2>2. DefaultDraft \in Backups!Schedules  BY DEF Backups!Schedules
  <2> QED  BY <1>3, <1>6, <2>1, <2>2 DEF BackupsHold, BackupsCall, Backups!Types
<1>13. CASE Backups!SettleSave(i)
  <2>1. \/ /\ BackupsCall("save", At(i)) /\ At(i).st = "ok"
           /\ view' = [view EXCEPT !.busy = FALSE, !.schedule = At(i).val]
        \/ view' = [view EXCEPT !.busy = FALSE]
    BY <1>2, <1>13, BackupsApi, InnerNames DEF Backups!SettleSave, Backups!Replied
  <2> QED  BY <1>3, <1>6, <2>1 DEF BackupsHold, BackupsCall, Backups!Types
<1> QED  BY <1>9, <1>10, <1>11, <1>12, <1>13 DEF Backups!Settle

\* The backups when the user or the timer acts.
LEMMA BackupsActed ==
    ASSUME token \in Tokens, Calls(calls), BackupsHold, Own("backups", calls), Backups!Next
    PROVE  BackupsHold' /\ Own("backups", calls')
<1>1. ASSUME NEW h \in Inner, NEW op \in Operations, NEW arg,
             calls' = Add(calls, h, Call(op, arg)), BackupsCall(h, Call(op, arg))
      PROVE  Own("backups", calls')
  BY <1>1, OwnAsks, BackupsOwn
<1>2. ASSUME view' = view \/ view' = [view EXCEPT !.busy = TRUE], host' = host
      PROVE  BackupsHold'
  BY <1>2 DEF BackupsHold, Backups!Types
<1>3. CASE Backups!Tick
  <2>1. calls' = Add(calls, "reload", Call("listBackups", None))
    BY <1>3, BackupsApi DEF Backups!Tick, Backups!Reload
  <2>2. BackupsCall("reload", Call("listBackups", None))  BY CallMade DEF BackupsCall
  <2>3. Own("backups", calls')  BY <1>1, <2>1, <2>2, OperationNames, InnerNames
  <2> QED  BY <1>2, <1>3, <2>3 DEF Backups!Tick
<1>4. CASE Backups!HostMoves
  BY <1>4 DEF Backups!HostMoves, BackupsHold, Backups!Types, Backups!Found, Backups!States
<1>5. CASE Backups!Create \/ Backups!Restore \/ Backups!Delete \/ Backups!Download
  <2>1. PICK h \in {"change", "read"}, op \in {"createBackup", "restoreBackup", "deleteBackup",
                                               "downloadBackup"} :
          calls' = Add(calls, h, Call(op, None))
    BY <1>5, BackupsApi DEF Backups!Create, Backups!Restore, Backups!Delete, Backups!Download,
      Backups!Press, Backups!Ask
  <2>2. BackupsCall(h, Call(op, None))  BY <2>1, CallMade DEF BackupsCall
  <2>3. Own("backups", calls')  BY <1>1, <2>1, <2>2, OperationNames, InnerNames
  <2> QED
    BY <1>2, <1>5, <2>3 DEF Backups!Create, Backups!Restore, Backups!Delete,
      Backups!Download, Backups!Press
<1>6. CASE Backups!SaveSchedule
  <2>1. view.draft \in Backups!Schedules
    BY <1>6 DEF Backups!SaveSchedule, Backups!scheduleChanged, BackupsHold, Backups!Types
  <2>2. calls' = Add(calls, "save", Call("putBackupSchedule", view.draft))
    BY <1>6, BackupsApi DEF Backups!SaveSchedule, Backups!Ask
  <2>3. BackupsCall("save", Call("putBackupSchedule", view.draft))
    BY <2>1, CallMade DEF BackupsCall
  <2>4. Own("backups", calls')  BY <1>1, <2>2, <2>3, OperationNames, InnerNames
  <2> QED  BY <1>2, <1>6, <2>4 DEF Backups!SaveSchedule
<1>7. CASE \E draft \in {DefaultDraft} : Backups!Edit(draft)
  <2>1. view' = [view EXCEPT !.draft = DefaultDraft] /\ UNCHANGED <<host, calls>>
    BY <1>7 DEF Backups!Edit
  <2> QED  BY <2>1 DEF BackupsHold, Backups!Types, Backups!Schedules
<1> QED  BY <1>3, <1>4, <1>5, <1>6, <1>7 DEF Backups!Next

\* No step of the tab loses it.
LEMMA BackupsKeep ==
    ASSUME PanelInv, BackupsInv, [Next]_vars
    PROVE  BackupsInv'
<1> SUFFICES ASSUME auth' = "in", page' = "backups"
             PROVE  BackupsHold' /\ Own("backups", calls')
  BY DEF BackupsInv
<1>1. /\ AppInv /\ Calls(calls) /\ Known(calls) /\ token \in Tokens
      /\ PageSteps("backups") \/ PageStays("backups") \/ PageOpens("backups")
  BY PageCases
<1>2. CASE PageSteps("backups")
  <2>1. BackupsHold /\ Own("backups", calls)  BY <1>2 DEF PageSteps, BackupsInv
  <2>2. Backups!Next \/ \E i \in InFlight : Backups!Serve(i) \/ Backups!Settle(i)
    BY <1>2 DEF PageSteps, PageStep, On
  <2> QED  BY <1>1, <2>1, <2>2, BackupsServed, BackupsSettled, BackupsActed
<1>3. CASE PageStays("backups")
  <2>1. BackupsHold /\ Own("backups", calls)  BY <1>3 DEF PageStays, BackupsInv
  <2> QED  BY <1>1, <1>3, <2>1, OwnStays DEF PageStays, BackupsHold, Backups!Types
<1>4. CASE PageOpens("backups")
  <2>1. PICK cs : Fit(cs) /\ Enter("backups", cs)  BY <1>4 DEF PageOpens
  <2> DEFINE ds == Add(cs, "effect", Call("getBackupSchedule", None))
  <2>2. /\ host' \in Backups!Found /\ view' = Backups!Opening
        /\ calls' = Add(ds, "reload", Call("listBackups", None))
    BY <2>1, BackupsApi DEF Enter, Backups!FirstCalls, Backups!Reload
  <2>3. OwnCall("backups", "effect", Call("getBackupSchedule", None))
    BY CallMade, BackupsOwn DEF BackupsCall
  <2>4. OwnCall("backups", "reload", Call("listBackups", None))
    BY CallMade, BackupsOwn DEF BackupsCall
  <2>5. Calls(ds) /\ Own("backups", ds)
    BY <1>1, <2>1, <2>3, OwnOpens, OperationNames, InnerNames
  <2> HIDE DEF ds
  <2>6. Own("backups", calls')  BY <1>1, <2>2, <2>4, <2>5, OwnAsks, OperationNames, InnerNames
  <2> QED  BY <2>2, <2>6 DEF BackupsHold, Backups!Types, Backups!Opening, Backups!States
<1> QED  BY <1>1, <1>2, <1>3, <1>4

-----------------------------------------------------------------------------
(* How players reach a server.                                             *)

ConnectHold ==
    /\ view \in [info : Connect!Info \cup {None}, busy : BOOLEAN]
    /\ host \in Connect!Info

ConnectInv == auth = "in" /\ page = "connect" => ConnectHold /\ Own("connect", calls)

LEMMA ConnectOwn == \A h, c : OwnCall("connect", h, c) <=> ConnectCall(h, c)
BY DEF OwnCall

\* Connect answers with Answer and Reject of PanelApi.
LEMMA ConnectAnswers ==
    /\ \A i, val : Connect!Answer(i, val) => Update(i, Answered(At(i), "ok", val))
    /\ \A i : Connect!Reject(i) => Update(i, Answered(At(i), "err", None))
<1>1. \A i, val : Connect!Answer(i, val) => Update(i, Answered(At(i), "ok", val))
  BY Zenon DEF Connect!Answer, Connect!Update, Connect!Answered, Connect!At, Update,
    Answered, At
<1>2. \A i : Connect!Reject(i) => Update(i, Answered(At(i), "err", None))
  BY Zenon DEF Connect!Reject, Connect!Update, Connect!Answered, Connect!At, Update,
    Answered, At
<1> QED  BY <1>1, <1>2, Zenon

\* The page when the daemon answers.
LEMMA ConnectServed ==
    ASSUME Calls(calls), Known(calls), ConnectHold, Own("connect", calls), NEW i \in InFlight,
           Connect!Serve(i)
    PROVE  ConnectHold' /\ Own("connect", calls')
<1>1. ASSUME NEW st, NEW val, Update(i, Answered(At(i), st, val)),
             st = "ok" => val \in Connect!Info \/ At(i).op \in {"unforwardPort", "disableRelay"}
      PROVE  Own("connect", calls')
  <2>1. ASSUME i[1] \in Inner  PROVE OwnCall("connect", i[1], Answered(At(i), st, val))
    <3>1. ConnectCall(i[1], At(i))  BY <2>1, OwnAt, ConnectOwn
    <3>2. ConnectCall(i[1], Answered(At(i), st, val))
      BY <1>1, <3>1, AnswerMade DEF ConnectCall
    <3> QED  BY <3>2, ConnectOwn
  <2> QED  BY <1>1, <2>1, OwnSteps
<1>2. /\ view' = view
      /\ \/ host' = host
         \/ \E net \in {"can_forward", "forwarded"} : host' = [host EXCEPT !.net = net]
         \/ \E relay \in {"off", "here"} : host' = [host EXCEPT !.relay = relay]
  BY DEF Connect!Serve
<1>3. ConnectHold'  BY <1>2 DEF ConnectHold, Connect!Info
<1>4. host \in Connect!Info /\ host' \in Connect!Info  BY <1>3 DEF ConnectHold
<1>5. \/ Update(i, Answered(At(i), "ok", host)) \/ Update(i, Answered(At(i), "ok", host'))
      \/ /\ At(i).op \in {"unforwardPort", "disableRelay"}
         /\ Update(i, Answered(At(i), "ok", None))
      \/ Update(i, Answered(At(i), "err", None))
  BY ConnectApi, ConnectAnswers DEF Connect!Serve, Connect!Asked
<1>6. Own("connect", calls')  BY <1>1, <1>4, <1>5
<1> QED  BY <1>3, <1>6

\* The page when a handler goes on.
LEMMA ConnectSettled ==
    ASSUME token \in Tokens, Calls(calls), ConnectHold, Own("connect", calls),
           NEW i \in InFlight, Connect!Settle(i)
    PROVE  ConnectHold' /\ Own("connect", calls')
<1>1. Calls(Without(i)) /\ Own("connect", Without(i))  BY OwnSteps
<1>2. i[1] \in Inner => ConnectCall(i[1], At(i))  BY OwnAt, ConnectOwn
<1>3. host' = host  BY DEF Connect!Settle
<1>4. calls' = Without(i) \/ calls' = Add(Without(i), "change", Call("serverConnect", None))
  BY ConnectApi DEF Connect!Settle, Connect!SettleReload, Connect!SettleChange, Connect!Reload
<1>5. OwnCall("connect", "change", Call("serverConnect", None))
  BY CallMade, ConnectOwn DEF ConnectCall, ConnectCalls
<1>6. Own("connect", calls')  BY <1>1, <1>4, <1>5, OwnAsks, OperationNames, InnerNames
<1>7. CASE Connect!SettleReload(i)
  <2>1. \/ view' = view
        \/ /\ ConnectCall("reload", At(i)) /\ At(i).st = "ok"
           /\ view' = [view EXCEPT !.info = At(i).val]
    BY <1>2, <1>7, ConnectApi, InnerNames DEF Connect!SettleReload, Connect!Replied
  <2> QED  BY <1>3, <1>6, <2>1 DEF ConnectHold, ConnectCall
<1>8. CASE Connect!SettleChange(i)
  <2>1. \/ view' = view \/ view' = [view EXCEPT !.busy = FALSE]
        \/ /\ ConnectCall("change", At(i)) /\ At(i).st = "ok"
           /\ At(i).op \notin {"unforwardPort", "disableRelay"}
           /\ view' = [info |-> At(i).val, busy |-> FALSE]
    BY <1>2, <1>8, ConnectApi, InnerNames DEF Connect!SettleChange, Connect!Replied
  <2>2. \/ view' = view \/ view' = [view EXCEPT !.busy = FALSE]
        \/ At(i).val \in Connect!Info /\ view' = [info |-> At(i).val, busy |-> FALSE]
    BY <2>1 DEF ConnectCall, ConnectCalls
  <2>3. ASSUME NEW val \in Connect!Info, view' = [info |-> val, busy |-> FALSE]
        PROVE  view' \in [info : Connect!Info \cup {None}, busy : BOOLEAN]
    BY <2>3
  <2>4. CASE view' = view \/ view' = [view EXCEPT !.busy = FALSE]
    BY <1>3, <1>6, <2>4 DEF ConnectHold
  <2> QED  BY <1>3, <1>6, <2>2, <2>3, <2>4 DEF ConnectHold
<1> QED  BY <1>7, <1>8 DEF Connect!Settle

\* The page when the user acts.
LEMMA ConnectActed ==
    ASSUME token \in Tokens, Calls(calls), ConnectHold, Own("connect", calls), Connect!Next
    PROVE  ConnectHold' /\ Own("connect", calls')
<1>1. PICK op \in ConnectCalls.writes : Connect!Press(op)
  BY DEF Connect!Next, Connect!Forward, Connect!Unforward, Connect!EnableRelay,
    Connect!DisableRelay, ConnectCalls
<1>2. /\ calls' = Add(calls, "change", Call(op, None)) /\ host' = host
      /\ view' = [view EXCEPT !.busy = TRUE]
  BY <1>1, ConnectApi DEF Connect!Press, Connect!Ask
<1>3. OwnCall("connect", "change", Call(op, None))
  BY CallMade, ConnectOwn DEF ConnectCall, ConnectCalls
<1>4. op \in Operations  BY OperationNames DEF ConnectCalls
<1>5. Own("connect", calls')  BY <1>2, <1>3, <1>4, OwnAsks, InnerNames
<1> QED  BY <1>2, <1>5 DEF ConnectHold

\* No step of the page loses it.
LEMMA ConnectKeep ==
    ASSUME PanelInv, ConnectInv, [Next]_vars
    PROVE  ConnectInv'
<1> SUFFICES ASSUME auth' = "in", page' = "connect"
             PROVE  ConnectHold' /\ Own("connect", calls')
  BY DEF ConnectInv
<1>1. /\ AppInv /\ Calls(calls) /\ Known(calls) /\ token \in Tokens
      /\ PageSteps("connect") \/ PageStays("connect") \/ PageOpens("connect")
  BY PageCases
<1>2. CASE PageSteps("connect")
  <2>1. ConnectHold /\ Own("connect", calls)  BY <1>2 DEF PageSteps, ConnectInv
  <2>2. Connect!Next \/ \E i \in InFlight : Connect!Serve(i) \/ Connect!Settle(i)
    BY <1>2 DEF PageSteps, PageStep, On
  <2> QED  BY <1>1, <2>1, <2>2, ConnectServed, ConnectSettled, ConnectActed
<1>3. CASE PageStays("connect")
  <2>1. ConnectHold /\ Own("connect", calls)  BY <1>3 DEF PageStays, ConnectInv
  <2> QED  BY <1>1, <1>3, <2>1, OwnStays DEF PageStays, ConnectHold, Connect!Types
<1>4. CASE PageOpens("connect")
  <2>1. PICK cs : Fit(cs) /\ Enter("connect", cs)  BY <1>4 DEF PageOpens
  <2>2. /\ host' \in Connect!Found /\ view' = Connect!Opening
        /\ calls' = Add(cs, "reload", Call("serverConnect", None))
    BY <2>1, ConnectApi DEF Enter, Connect!FirstCalls, Connect!Reload
  <2>3. OwnCall("connect", "reload", Call("serverConnect", None))
    BY CallMade, ConnectOwn DEF ConnectCall
  <2>4. Own("connect", calls')
    BY <1>1, <2>1, <2>2, <2>3, OwnOpens, OperationNames, InnerNames
  <2> QED
    BY <2>2, <2>4 DEF ConnectHold, Connect!Types, Connect!Opening, Connect!Found
<1> QED  BY <1>1, <1>2, <1>3, <1>4

-----------------------------------------------------------------------------
(* The editor of server.properties.                                        *)

PropertiesHold == Properties!Types /\ host \in Properties!Found

PropertiesInv == auth = "in" /\ page = "properties" => PropertiesHold /\ Own("properties", calls)

LEMMA PropertiesOwn == \A h, c : OwnCall("properties", h, c) <=> PropertiesCall(h, c)
BY DEF OwnCall

\* Properties answers with Answer and Reject of PanelApi.
LEMMA PropertiesAnswers ==
    /\ \A i, val : Properties!Answer(i, val) => Update(i, Answered(At(i), "ok", val))
    /\ \A i : Properties!Reject(i) => Update(i, Answered(At(i), "err", None))
<1>1. \A i, val : Properties!Answer(i, val) => Update(i, Answered(At(i), "ok", val))
  BY Zenon DEF Properties!Answer, Properties!Update, Properties!Answered, Properties!At, Update,
    Answered, At
<1>2. \A i : Properties!Reject(i) => Update(i, Answered(At(i), "err", None))
  BY Zenon DEF Properties!Reject, Properties!Update, Properties!Answered, Properties!At, Update,
    Answered, At
<1> QED  BY <1>1, <1>2, Zenon

\* The editor when the daemon answers.
LEMMA PropertiesServed ==
    ASSUME Calls(calls), Known(calls), PropertiesHold, Own("properties", calls),
           NEW i \in InFlight, Properties!Serve(i)
    PROVE  PropertiesHold' /\ Own("properties", calls')
<1>1. ASSUME NEW st, NEW val, Update(i, Answered(At(i), st, val)),
             st = "ok" => \/ val \in Drafts
                          \/ At(i).op = "patchSettings" /\ val = At(i).arg
      PROVE  Own("properties", calls')
  <2>1. ASSUME i[1] \in Inner  PROVE OwnCall("properties", i[1], Answered(At(i), st, val))
    <3>1. PropertiesCall(i[1], At(i))  BY <2>1, OwnAt, PropertiesOwn
    <3>2. PropertiesCall(i[1], Answered(At(i), st, val))
      BY <1>1, <3>1, AnswerMade DEF PropertiesCall
    <3> QED  BY <3>2, PropertiesOwn
  <2> QED  BY <1>1, <2>1, OwnSteps
<1>2. At(i).op = "patchSettings" => At(i).arg \in Drafts
  BY PageWrote, PropertiesOwn DEF PageWrites, PropertiesCall
<1>3. /\ view' = view
      /\ host' = host \/ (At(i).op = "patchSettings" /\ host' = [value |-> At(i).arg])
  BY PropertiesApi DEF Properties!Serve, Properties!Asked
<1>4. PropertiesHold'  BY <1>2, <1>3 DEF PropertiesHold, Properties!Types, Properties!Found
<1>5. \/ Update(i, Answered(At(i), "ok", host.value))
      \/ At(i).op = "patchSettings" /\ Update(i, Answered(At(i), "ok", At(i).arg))
      \/ Update(i, Answered(At(i), "err", None))
  BY PropertiesApi, PropertiesAnswers DEF Properties!Serve, Properties!Asked
<1>6. host.value \in Drafts  BY DEF PropertiesHold, Properties!Found
<1>7. Own("properties", calls')  BY <1>1, <1>5, <1>6
<1> QED  BY <1>4, <1>7

\* The editor when a handler goes on.
LEMMA PropertiesSettled ==
    ASSUME token \in Tokens, Calls(calls), PropertiesHold, Own("properties", calls),
           NEW i \in InFlight, Properties!Settle(i)
    PROVE  PropertiesHold' /\ Own("properties", calls')
<1>1. Own("properties", Without(i))  BY OwnSteps
<1>2. i[1] \in Inner => PropertiesCall(i[1], At(i))  BY OwnAt, PropertiesOwn
<1>3. host' = host  BY DEF Properties!Settle
<1>4. calls' = Without(i)
  BY PropertiesApi DEF Properties!Settle, Properties!SettleLoad, Properties!SettleSave
<1>5. \/ view' = view \/ view' = [view EXCEPT !.saving = FALSE]
      \/ /\ At(i).st = "ok" /\ (PropertiesCall("reload", At(i)) \/ PropertiesCall("save", At(i)))
         /\ \/ view' = [view EXCEPT !.settings = At(i).val, !.draft = None]
            \/ view' = [settings |-> At(i).val, draft |-> None, saving |-> FALSE]
  BY <1>2, PropertiesApi, InnerNames DEF Properties!Settle, Properties!SettleLoad,
    Properties!SettleSave, Properties!Replied
<1>6. ASSUME NEW val \in Drafts,
             \/ view' = [view EXCEPT !.settings = val, !.draft = None]
             \/ view' = [settings |-> val, draft |-> None, saving |-> FALSE]
      PROVE  PropertiesHold'
  <2>1. CASE view' = [settings |-> val, draft |-> None, saving |-> FALSE]
    <3>1. Properties!Types'  BY <2>1 DEF Properties!Types
    <3> QED  BY <1>3, <3>1 DEF PropertiesHold
  <2>2. CASE view' = [view EXCEPT !.settings = val, !.draft = None]
    <3>1. Properties!Types'  BY <2>2 DEF PropertiesHold, Properties!Types
    <3> QED  BY <1>3, <3>1 DEF PropertiesHold
  <2> QED  BY <1>6, <2>1, <2>2
<1>7. CASE view' = view \/ view' = [view EXCEPT !.saving = FALSE]
  BY <1>1, <1>3, <1>4, <1>7 DEF PropertiesHold, Properties!Types
<1>8. PropertiesCall("reload", At(i)) \/ PropertiesCall("save", At(i)) =>
        (At(i).st = "ok" => At(i).val \in Drafts)
  BY DEF PropertiesCall
<1> QED  BY <1>1, <1>4, <1>5, <1>6, <1>7, <1>8

\* The editor when the user acts.
LEMMA PropertiesActed ==
    ASSUME token \in Tokens, Calls(calls), PropertiesHold, Own("properties", calls),
           Properties!Next
    PROVE  PropertiesHold' /\ Own("properties", calls')
<1>1. CASE Properties!Save
  <2>1. view.draft \in Drafts
    BY <1>1 DEF Properties!Save, Properties!Changed, PropertiesHold, Properties!Types
  <2>2. calls' = Add(calls, "save", Call("patchSettings", view.draft)) /\ host' = host
        /\ view' = [view EXCEPT !.saving = TRUE]
    BY <1>1, PropertiesApi DEF Properties!Save, Properties!Ask
  <2>3. OwnCall("properties", "save", Call("patchSettings", view.draft))
    BY <2>1, CallMade, PropertiesOwn DEF PropertiesCall
  <2>4. Own("properties", calls')  BY <2>2, <2>3, OwnAsks, OperationNames, InnerNames
  <2> QED  BY <2>2, <2>4 DEF PropertiesHold, Properties!Types
<1>2. CASE \E value \in Drafts : Properties!Type(value)
  <2>1. \E value \in Drafts : view' = [view EXCEPT !.draft = value] /\ UNCHANGED <<host, calls>>
    BY <1>2 DEF Properties!Type
  <2> QED  BY <2>1 DEF PropertiesHold, Properties!Types
<1> QED  BY <1>1, <1>2 DEF Properties!Next

\* No step of the page loses it.
LEMMA PropertiesKeep ==
    ASSUME PanelInv, PropertiesInv, [Next]_vars
    PROVE  PropertiesInv'
<1> SUFFICES ASSUME auth' = "in", page' = "properties"
             PROVE  PropertiesHold' /\ Own("properties", calls')
  BY DEF PropertiesInv
<1>1. /\ AppInv /\ Calls(calls) /\ Known(calls) /\ token \in Tokens
      /\ PageSteps("properties") \/ PageStays("properties") \/ PageOpens("properties")
  BY PageCases
<1>2. CASE PageSteps("properties")
  <2>1. PropertiesHold /\ Own("properties", calls)  BY <1>2 DEF PageSteps, PropertiesInv
  <2>2. Properties!Next \/ \E i \in InFlight : Properties!Serve(i) \/ Properties!Settle(i)
    BY <1>2 DEF PageSteps, PageStep, On
  <2> QED  BY <1>1, <2>1, <2>2, PropertiesServed, PropertiesSettled, PropertiesActed
<1>3. CASE PageStays("properties")
  <2>1. PropertiesHold /\ Own("properties", calls)  BY <1>3 DEF PageStays, PropertiesInv
  <2> QED  BY <1>1, <1>3, <2>1, OwnStays DEF PageStays, PropertiesHold, Properties!Types
<1>4. CASE PageOpens("properties")
  <2>1. PICK cs : Fit(cs) /\ Enter("properties", cs)  BY <1>4 DEF PageOpens
  <2>2. /\ host' \in Properties!Found /\ view' = Properties!Opening
        /\ calls' = Add(cs, "reload", Call("getSettings", None))
    BY <2>1, PropertiesApi DEF Enter, Properties!FirstCalls
  <2>3. OwnCall("properties", "reload", Call("getSettings", None))
    BY CallMade, PropertiesOwn DEF PropertiesCall
  <2>4. Own("properties", calls')
    BY <1>1, <2>1, <2>2, <2>3, OwnOpens, OperationNames, InnerNames
  <2> QED
    BY <2>2, <2>4 DEF PropertiesHold, Properties!Types, Properties!Opening, Properties!Found
<1> QED  BY <1>1, <1>2, <1>3, <1>4

-----------------------------------------------------------------------------
(* The settings of a server.                                               *)

OptionsHold == Options!Types /\ host \in [options : Drafts]

OptionsInv == auth = "in" /\ page = "options" => OptionsHold /\ Own("options", calls)

LEMMA OptionsOwn == \A h, c : OwnCall("options", h, c) <=> OptionsCall(h, c)
BY DEF OwnCall

\* Options answers with Answer and Reject of PanelApi.
LEMMA OptionsAnswers ==
    /\ \A i, val : Options!Answer(i, val) => Update(i, Answered(At(i), "ok", val))
    /\ \A i : Options!Reject(i) => Update(i, Answered(At(i), "err", None))
<1>1. \A i, val : Options!Answer(i, val) => Update(i, Answered(At(i), "ok", val))
  BY Zenon DEF Options!Answer, Options!Update, Options!Answered, Options!At, Update,
    Answered, At
<1>2. \A i : Options!Reject(i) => Update(i, Answered(At(i), "err", None))
  BY Zenon DEF Options!Reject, Options!Update, Options!Answered, Options!At, Update,
    Answered, At
<1> QED  BY <1>1, <1>2, Zenon

\* The settings when the daemon answers.
LEMMA OptionsServed ==
    ASSUME Calls(calls), Known(calls), OptionsHold, Own("options", calls), NEW i \in InFlight,
           Options!Serve(i)
    PROVE  OptionsHold' /\ Own("options", calls')
<1>1. ASSUME NEW st, NEW val, Update(i, Answered(At(i), st, val)),
             st = "ok" /\ At(i).op = "patchServer" => val = At(i).arg
      PROVE  Own("options", calls')
  <2>1. ASSUME i[1] \in Inner  PROVE OwnCall("options", i[1], Answered(At(i), st, val))
    <3>1. OptionsCall(i[1], At(i))  BY <2>1, OwnAt, OptionsOwn
    <3>2. OptionsCall(i[1], Answered(At(i), st, val))
      BY <1>1, <3>1, AnswerMade DEF OptionsCall
    <3> QED  BY <3>2, OptionsOwn
  <2> QED  BY <1>1, <2>1, OwnSteps
<1>2. At(i).op = "patchServer" => At(i).arg \in Drafts
  BY PageWrote, OptionsOwn DEF PageWrites, OptionsCall
<1>3. /\ view' = view
      /\ host' = host \/ (At(i).op = "patchServer" /\ host' = [options |-> At(i).arg])
  BY OptionsApi DEF Options!Serve, Options!Asked
<1>4. OptionsHold'  BY <1>2, <1>3 DEF OptionsHold, Options!Types
<1>5. \/ At(i).op # "patchServer" /\ Update(i, Answered(At(i), "ok", None))
      \/ Update(i, Answered(At(i), "ok", At(i).arg))
      \/ Update(i, Answered(At(i), "err", None))
  BY OptionsApi, OptionsAnswers DEF Options!Serve, Options!Asked
<1>6. Own("options", calls')  BY <1>1, <1>5
<1> QED  BY <1>4, <1>6

\* The settings when a handler goes on.
LEMMA OptionsSettled ==
    ASSUME token \in Tokens, Calls(calls), OptionsHold, Own("options", calls),
           NEW i \in InFlight, Options!Settle(i)
    PROVE  OptionsHold' /\ Own("options", calls')
<1>1. Calls(Without(i)) /\ Own("options", Without(i))  BY OwnSteps
<1>2. i[1] \in Inner => OptionsCall(i[1], At(i))  BY OwnAt, OptionsOwn
<1>3. host' = host  BY DEF Options!Settle
<1>4. calls' = Without(i) \/ calls' = Add(Without(i), "effect", Call("listCores", None))
  BY OptionsApi DEF Options!Settle, Options!SettleProxies, Options!SettleSave
<1>5. OwnCall("options", "effect", Call("listCores", None))
  BY CallMade, OptionsOwn DEF OptionsCall
<1>6. Own("options", calls')  BY <1>1, <1>4, <1>5, OwnAsks, OperationNames, InnerNames
<1>7. \/ view' = view \/ view' = [view EXCEPT !.saving = FALSE]
      \/ view' = [view EXCEPT !.proxies = TRUE]
      \/ /\ OptionsCall("save", At(i)) /\ At(i).st = "ok"
         /\ view' = [view EXCEPT !.saving = FALSE, !.server = At(i).val]
  BY <1>2, OptionsApi, InnerNames DEF Options!Settle, Options!SettleProxies,
    Options!SettleSave, Options!Replied
<1>8. OptionsHold'  BY <1>3, <1>7 DEF OptionsHold, Options!Types, OptionsCall
<1> QED  BY <1>6, <1>8

\* The settings when the user or the parent acts.
LEMMA OptionsActed ==
    ASSUME token \in Tokens, Calls(calls), OptionsHold, Own("options", calls), Options!Next
    PROVE  OptionsHold' /\ Own("options", calls')
<1>1. CASE Options!Save
  <2>1. view.draft \in Drafts  BY DEF OptionsHold, Options!Types
  <2>2. calls' = Add(calls, "save", Call("patchServer", view.draft)) /\ host' = host
        /\ view' = [view EXCEPT !.saving = TRUE]
    BY <1>1, OptionsApi DEF Options!Save, Options!Ask
  <2>3. OwnCall("options", "save", Call("patchServer", view.draft))
    BY <2>1, CallMade, OptionsOwn DEF OptionsCall
  <2>4. Own("options", calls')  BY <2>2, <2>3, OwnAsks, OperationNames, InnerNames
  <2> QED  BY <2>2, <2>4 DEF OptionsHold, Options!Types
<1>2. CASE Options!HostMoves  BY <1>2 DEF Options!HostMoves, OptionsHold, Options!Types
<1>3. CASE Options!ParentLearns \/ Options!Reset \/ \E options \in Drafts : Options!Edit(options)
  <2>1. /\ UNCHANGED <<host, calls>>
        /\ \E options \in Drafts : \/ view' = [view EXCEPT !.server = options]
                                   \/ view' = [view EXCEPT !.draft = options]
    BY <1>3 DEF Options!ParentLearns, Options!Reset, Options!Edit, OptionsHold, Options!Types
  <2> QED  BY <2>1 DEF OptionsHold, Options!Types
<1> QED  BY <1>1, <1>2, <1>3 DEF Options!Next

\* No step of the page loses it.
LEMMA OptionsKeep ==
    ASSUME PanelInv, OptionsInv, [Next]_vars
    PROVE  OptionsInv'
<1> SUFFICES ASSUME auth' = "in", page' = "options"
             PROVE  OptionsHold' /\ Own("options", calls')
  BY DEF OptionsInv
<1>1. /\ AppInv /\ Calls(calls) /\ Known(calls) /\ token \in Tokens
      /\ PageSteps("options") \/ PageStays("options") \/ PageOpens("options")
  BY PageCases
<1>2. CASE PageSteps("options")
  <2>1. OptionsHold /\ Own("options", calls)  BY <1>2 DEF PageSteps, OptionsInv
  <2>2. Options!Next \/ \E i \in InFlight : Options!Serve(i) \/ Options!Settle(i)
    BY <1>2 DEF PageSteps, PageStep, On
  <2> QED  BY <1>1, <2>1, <2>2, OptionsServed, OptionsSettled, OptionsActed
<1>3. CASE PageStays("options")
  <2>1. OptionsHold /\ Own("options", calls)  BY <1>3 DEF PageStays, OptionsInv
  <2> QED  BY <1>1, <1>3, <2>1, OwnStays DEF PageStays, OptionsHold, Options!Types
<1>4. CASE PageOpens("options")
  <2>1. PICK cs : Fit(cs) /\ Enter("options", cs)  BY <1>4 DEF PageOpens
  <2>2. /\ host' \in Options!Found /\ view' = Options!Opening
        /\ calls' = Add(cs, "effect", Call("listServers", None))
    BY <2>1, OptionsApi DEF Enter, Options!FirstCalls
  <2>3. OwnCall("options", "effect", Call("listServers", None))
    BY CallMade, OptionsOwn DEF OptionsCall
  <2>4. Own("options", calls')
    BY <1>1, <2>1, <2>2, <2>3, OwnOpens, OperationNames, InnerNames
  <2> QED
    BY <2>2, <2>4, PanelAssumption DEF OptionsHold, Options!Types, Options!Opening, Options!Found
<1> QED  BY <1>1, <1>2, <1>3, <1>4

-----------------------------------------------------------------------------
(* The accounts linked to this one.                                        *)

LinksViews(seen) ==
    [links : SUBSET Providers, busy : Providers \cup {None}, issued : Providers \cup {None},
     seen : {seen}]

LinksHold == \E seen : view \in LinksViews(seen)

LinksInv == auth = "in" /\ page = "links" => LinksHold /\ Own("links", calls)

LEMMA LinksOwn == \A h, c : OwnCall("links", h, c) <=> LinksCall(h, c)
BY DEF OwnCall

\* Links answers with Answer and Reject of PanelApi.
LEMMA LinksAnswers ==
    /\ \A i, val : Links!Answer(i, val) => Update(i, Answered(At(i), "ok", val))
    /\ \A i : Links!Reject(i) => Update(i, Answered(At(i), "err", None))
<1>1. \A i, val : Links!Answer(i, val) => Update(i, Answered(At(i), "ok", val))
  BY Zenon DEF Links!Answer, Links!Update, Links!Answered, Links!At, Update,
    Answered, At
<1>2. \A i : Links!Reject(i) => Update(i, Answered(At(i), "err", None))
  BY Zenon DEF Links!Reject, Links!Update, Links!Answered, Links!At, Update,
    Answered, At
<1> QED  BY <1>1, <1>2, Zenon

\* What the page may change of what it draws.
LEMMA LinksDraws ==
    ASSUME LinksHold, NEW links \in SUBSET Providers, NEW name \in Providers \cup {None},
           \/ view' = view
           \/ view' = [view EXCEPT !.links = links]
           \/ view' = [view EXCEPT !.busy = name]
           \/ view' = [view EXCEPT !.issued = name]
           \/ view' = [view EXCEPT !.busy = None, !.issued = name]
           \/ view' = [view EXCEPT !.busy = None, !.links = links]
    PROVE  LinksHold'
<1>1. PICK seen : view \in LinksViews(seen)  BY DEF LinksHold
<1>2. view' \in LinksViews(seen)  BY <1>1 DEF LinksViews
<1> QED  BY <1>2 DEF LinksHold

\* The page when the daemon answers.
LEMMA LinksServed ==
    ASSUME Calls(calls), Known(calls), LinksHold, Own("links", calls), NEW i \in InFlight,
           Links!Serve(i)
    PROVE  LinksHold' /\ Own("links", calls')
<1>1. ASSUME NEW st, NEW val, Update(i, Answered(At(i), st, val)),
             st = "ok" /\ At(i).op = "listIntegrations" => val \subseteq Providers
      PROVE  Own("links", calls')
  <2>1. ASSUME i[1] \in Inner  PROVE OwnCall("links", i[1], Answered(At(i), st, val))
    <3>1. LinksCall(i[1], At(i))  BY <2>1, OwnAt, LinksOwn
    <3>2. LinksCall(i[1], Answered(At(i), st, val))
      BY <1>1, <3>1, AnswerMade DEF LinksCall
    <3> QED  BY <3>2, LinksOwn
  <2> QED  BY <1>1, <2>1, OwnSteps
<1>2. view' = view  BY DEF Links!Serve
<1>3. LinksHold'  BY <1>2, LinksDraws
<1>4. \/ /\ At(i).op # "listIntegrations"
         /\ Update(i, Answered(At(i), "ok", None)) \/ Update(i, Answered(At(i), "err", None))
      \/ \E links \in SUBSET Providers : Update(i, Answered(At(i), "ok", links))
  BY LinksApi, LinksAnswers DEF Links!Serve, Links!Asked
<1>5. Own("links", calls')  BY <1>1, <1>4
<1> QED  BY <1>3, <1>5

\* The page when a handler goes on.
LEMMA LinksSettled ==
    ASSUME token \in Tokens, Calls(calls), LinksHold, Own("links", calls),
           NEW i \in InFlight, Links!Settle(i)
    PROVE  LinksHold' /\ Own("links", calls')
<1>1. Calls(Without(i)) /\ Own("links", Without(i))  BY OwnSteps
<1>2. i[1] \in Inner => LinksCall(i[1], At(i))  BY OwnAt, LinksOwn
<1>3. calls' = Without(i) \/ calls' = Add(Without(i), "change", Call("listIntegrations", None))
  BY LinksApi DEF Links!Settle, Links!SettleReload, Links!SettleChange, Links!SettlePassword,
    Links!Reload
<1>4. OwnCall("links", "change", Call("listIntegrations", None))
  BY CallMade, LinksOwn DEF LinksCall
<1>5. Own("links", calls')  BY <1>1, <1>3, <1>4, OwnAsks, OperationNames, InnerNames
<1>6. CASE Links!SettleReload(i)
  <2>1. \/ view' = view
        \/ /\ LinksCall("reload", At(i)) /\ At(i).st = "ok"
           /\ view' = [view EXCEPT !.links = At(i).val]
    BY <1>2, <1>6, LinksApi, InnerNames DEF Links!SettleReload, Links!Replied
  <2> QED  BY <1>5, <2>1, LinksDraws DEF LinksCall
<1>7. CASE Links!SettleChange(i)
  <2>1. \/ view' = view \/ view' = [view EXCEPT !.busy = None]
        \/ /\ LinksCall("change", At(i)) /\ At(i).op = "createLinkCode"
           /\ view' = [view EXCEPT !.busy = None, !.issued = At(i).arg]
        \/ /\ LinksCall("change", At(i)) /\ At(i).st = "ok" /\ At(i).op = "listIntegrations"
           /\ view' = [view EXCEPT !.busy = None, !.links = At(i).val]
    BY <1>2, <1>7, LinksApi, InnerNames DEF Links!SettleChange, Links!Got, Links!Replied
  <2> QED  BY <1>5, <2>1, LinksDraws DEF LinksCall
<1>8. CASE Links!SettlePassword(i)  BY <1>5, <1>8, LinksDraws DEF Links!SettlePassword
<1> QED  BY <1>6, <1>7, <1>8 DEF Links!Settle

\* The page when the user acts.
LEMMA LinksActed ==
    ASSUME token \in Tokens, Calls(calls), LinksHold, Own("links", calls), Links!Next
    PROVE  LinksHold' /\ Own("links", calls')
<1>1. ASSUME NEW provider \in Providers, Links!RequestCode(provider) \/ Links!Unlink(provider)
      PROVE  LinksHold' /\ Own("links", calls')
  <2>1. PICK op \in {"createLinkCode", "unlinkIntegration"} :
          /\ calls' = Add(calls, "change", Call(op, provider))
          /\ view' = [view EXCEPT !.busy = provider]
    BY <1>1, LinksApi DEF Links!RequestCode, Links!Unlink, Links!Press, Links!Ask
  <2>2. OwnCall("links", "change", Call(op, provider))
    BY <2>1, CallMade, LinksOwn DEF LinksCall
  <2>3. Own("links", calls')  BY <2>1, <2>2, OwnAsks, OperationNames, InnerNames
  <2> QED  BY <2>1, <2>3, LinksDraws
<1>2. CASE Links!Expire
  <2>1. view' = [view EXCEPT !.issued = None] /\ calls' = calls  BY <1>2 DEF Links!Expire
  <2> QED  BY <2>1, LinksDraws
<1>3. CASE Links!ChangePassword
  <2>1. view' = view /\ calls' = Add(calls, "save", Call("updateMe", None))
    BY <1>3, LinksApi DEF Links!ChangePassword, Links!Ask
  <2>2. OwnCall("links", "save", Call("updateMe", None))  BY CallMade, LinksOwn DEF LinksCall
  <2>3. Own("links", calls')  BY <2>1, <2>2, OwnAsks, OperationNames, InnerNames
  <2> QED  BY <2>1, <2>3, LinksDraws
<1> QED  BY <1>1, <1>2, <1>3 DEF Links!Next

\* No step of the page loses it.
LEMMA LinksKeep ==
    ASSUME PanelInv, LinksInv, [Next]_vars
    PROVE  LinksInv'
<1> SUFFICES ASSUME auth' = "in", page' = "links"
             PROVE  LinksHold' /\ Own("links", calls')
  BY DEF LinksInv
<1>1. /\ AppInv /\ Calls(calls) /\ Known(calls) /\ token \in Tokens
      /\ PageSteps("links") \/ PageStays("links") \/ PageOpens("links")
  BY PageCases
<1>2. CASE PageSteps("links")
  <2>1. LinksHold /\ Own("links", calls)  BY <1>2 DEF PageSteps, LinksInv
  <2>2. Links!Next \/ \E i \in InFlight : Links!Serve(i) \/ Links!Settle(i)
    BY <1>2 DEF PageSteps, PageStep, On
  <2> QED  BY <1>1, <2>1, <2>2, LinksServed, LinksSettled, LinksActed
<1>3. CASE PageStays("links")
  <2>1. LinksHold /\ Own("links", calls)  BY <1>3 DEF PageStays, LinksInv
  <2>2. view' = view  BY <1>3 DEF PageStays
  <2> QED  BY <1>1, <1>3, <2>1, <2>2, OwnStays, LinksDraws
<1>4. CASE PageOpens("links")
  <2>1. PICK cs : Fit(cs) /\ Enter("links", cs)  BY <1>4 DEF PageOpens
  <2>2. /\ host' \in Links!Found /\ view' = Links!Opening
        /\ calls' = Add(cs, "reload", Call("listIntegrations", None))
    BY <2>1, LinksApi DEF Enter, Links!FirstCalls, Links!Reload
  <2>3. OwnCall("links", "reload", Call("listIntegrations", None))
    BY CallMade, LinksOwn DEF LinksCall
  <2>4. Own("links", calls')
    BY <1>1, <2>1, <2>2, <2>3, OwnOpens, OperationNames, InnerNames
  <2>5. view' \in LinksViews(look.customs)  BY <2>2 DEF Links!Opening, LinksViews
  <2> QED  BY <2>4, <2>5 DEF LinksHold
<1> QED  BY <1>1, <1>2, <1>3, <1>4

-----------------------------------------------------------------------------
(* The accounts of the panel.                                              *)

AdminViews ==
    [users : SUBSET Users, loading : BOOLEAN, busy : Users \cup {None, Admin!New}]

AdminHold == view \in AdminViews /\ host \in [users : SUBSET Users]

AdminInv == auth = "in" /\ page = "admin" => AdminHold /\ Own("admin", calls)

LEMMA AdminOwn == \A h, c : OwnCall("admin", h, c) <=> AdminCall(h, c)
BY DEF OwnCall

\* Admin answers with Answer and Reject of PanelApi.
LEMMA AdminAnswers ==
    /\ \A i, val : Admin!Answer(i, val) => Update(i, Answered(At(i), "ok", val))
    /\ \A i : Admin!Reject(i) => Update(i, Answered(At(i), "err", None))
<1>1. \A i, val : Admin!Answer(i, val) => Update(i, Answered(At(i), "ok", val))
  BY Zenon DEF Admin!Answer, Admin!Update, Admin!Answered, Admin!At, Update,
    Answered, At
<1>2. \A i : Admin!Reject(i) => Update(i, Answered(At(i), "err", None))
  BY Zenon DEF Admin!Reject, Admin!Update, Admin!Answered, Admin!At, Update,
    Answered, At
<1> QED  BY <1>1, <1>2, Zenon

\* The page when the daemon answers.
LEMMA AdminServed ==
    ASSUME Calls(calls), Known(calls), AdminHold, Own("admin", calls), NEW i \in InFlight,
           Admin!Serve(i)
    PROVE  AdminHold' /\ Own("admin", calls')
<1>1. ASSUME NEW st, NEW val, Update(i, Answered(At(i), st, val)),
             st = "ok" /\ At(i).op = "listUsers" => val \subseteq Users
      PROVE  Own("admin", calls')
  <2>1. ASSUME i[1] \in Inner  PROVE OwnCall("admin", i[1], Answered(At(i), st, val))
    <3>1. AdminCall(i[1], At(i))  BY <2>1, OwnAt, AdminOwn
    <3>2. AdminCall(i[1], Answered(At(i), st, val))
      BY <1>1, <3>1, AnswerMade DEF AdminCall
    <3> QED  BY <3>2, AdminOwn
  <2> QED  BY <1>1, <2>1, OwnSteps
<1>2. /\ view' = view
      /\ \/ host' = host
         \/ \E users \in SUBSET Users : host' = [users |-> users]
  BY DEF Admin!Serve, AdminHold
<1>3. AdminHold'  BY <1>2 DEF AdminHold, AdminViews
<1>4. \/ At(i).op # "listUsers" /\ Update(i, Answered(At(i), "ok", None))
      \/ Update(i, Answered(At(i), "ok", host.users))
      \/ Update(i, Answered(At(i), "err", None))
  BY AdminApi, AdminAnswers DEF Admin!Serve, Admin!Asked
<1>5. host.users \subseteq Users  BY DEF AdminHold
<1>6. Own("admin", calls')  BY <1>1, <1>4, <1>5
<1> QED  BY <1>3, <1>6

\* The page when a handler goes on.
LEMMA AdminSettled ==
    ASSUME token \in Tokens, Calls(calls), AdminHold, Own("admin", calls),
           NEW i \in InFlight, Admin!Settle(i)
    PROVE  AdminHold' /\ Own("admin", calls')
<1>1. Calls(Without(i)) /\ Own("admin", Without(i))  BY OwnSteps
<1>2. i[1] \in Inner => AdminCall(i[1], At(i))  BY OwnAt, AdminOwn
<1>3. host' = host  BY DEF Admin!Settle
<1>4. calls' = Without(i) \/ calls' = Add(Without(i), "change", Call("listUsers", None))
  BY AdminApi DEF Admin!Settle, Admin!SettleReload, Admin!SettleChange, Admin!Reload
<1>5. OwnCall("admin", "change", Call("listUsers", None))  BY CallMade, AdminOwn DEF AdminCall
<1>6. Own("admin", calls')  BY <1>1, <1>4, <1>5, OwnAsks, OperationNames, InnerNames
<1>7. view \in AdminViews  BY DEF AdminHold
<1>8. CASE Admin!SettleReload(i)
  <2>1. \/ view' = [view EXCEPT !.loading = FALSE]
        \/ /\ AdminCall("reload", At(i)) /\ At(i).st = "ok"
           /\ view' = [view EXCEPT !.users = At(i).val, !.loading = FALSE]
    BY <1>2, <1>8, AdminApi, InnerNames DEF Admin!SettleReload, Admin!Replied
  <2>2. view' \in AdminViews  BY <1>7, <2>1 DEF AdminViews, AdminCall
  <2> QED  BY <1>3, <1>6, <2>2 DEF AdminHold
<1>9. CASE Admin!SettleChange(i)
  <2>1. \/ view' = [view EXCEPT !.loading = TRUE]
        \/ view' = [view EXCEPT !.busy = None, !.loading = @ /\ At(i).op # "listUsers"]
        \/ /\ AdminCall("change", At(i)) /\ At(i).st = "ok" /\ At(i).op = "listUsers"
           /\ view' = [users |-> At(i).val, loading |-> FALSE, busy |-> None]
    BY <1>2, <1>9, AdminApi, InnerNames DEF Admin!SettleChange, Admin!Got, Admin!Replied
  <2>2. ASSUME view' = [view EXCEPT !.busy = None, !.loading = @ /\ At(i).op # "listUsers"]
        PROVE  view' \in AdminViews
    <3>1. (view.loading /\ At(i).op # "listUsers") \in BOOLEAN  OBVIOUS
    <3> QED  BY <1>7, <2>2, <3>1 DEF AdminViews
  <2>3. view' = [view EXCEPT !.loading = TRUE] => view' \in AdminViews
    BY <1>7 DEF AdminViews
  <2>4. ASSUME NEW users \in SUBSET Users,
               view' = [users |-> users, loading |-> FALSE, busy |-> None]
        PROVE  view' \in AdminViews
    BY <2>4 DEF AdminViews
  <2>5. view' \in AdminViews  BY <2>1, <2>2, <2>3, <2>4 DEF AdminCall
  <2> QED  BY <1>3, <1>6, <2>5 DEF AdminHold
<1> QED  BY <1>8, <1>9 DEF Admin!Settle

\* The page when the user acts.
LEMMA AdminActed ==
    ASSUME token \in Tokens, Calls(calls), AdminHold, Own("admin", calls), Admin!Next
    PROVE  AdminHold' /\ Own("admin", calls')
<1>1. PICK op \in {"createUser", "patchUser", "deleteUser"}, row \in Users \cup {Admin!New} :
        /\ calls' = Add(calls, "change", Call(op, row)) /\ host' = host
        /\ view' = [view EXCEPT !.busy = row]
  BY AdminApi DEF Admin!Next, Admin!Create, Admin!Patch, Admin!DeleteUser, Admin!Press, Admin!Ask
<1>2. OwnCall("admin", "change", Call(op, row))  BY <1>1, CallMade, AdminOwn DEF AdminCall
<1>3. Own("admin", calls')  BY <1>1, <1>2, OwnAsks, OperationNames, InnerNames
<1>4. view' \in AdminViews  BY <1>1 DEF AdminHold, AdminViews
<1> QED  BY <1>1, <1>3, <1>4 DEF AdminHold

\* No step of the page loses it.
LEMMA AdminKeep ==
    ASSUME PanelInv, AdminInv, [Next]_vars
    PROVE  AdminInv'
<1> SUFFICES ASSUME auth' = "in", page' = "admin"
             PROVE  AdminHold' /\ Own("admin", calls')
  BY DEF AdminInv
<1>1. /\ AppInv /\ Calls(calls) /\ Known(calls) /\ token \in Tokens
      /\ PageSteps("admin") \/ PageStays("admin") \/ PageOpens("admin")
  BY PageCases
<1>2. CASE PageSteps("admin")
  <2>1. AdminHold /\ Own("admin", calls)  BY <1>2 DEF PageSteps, AdminInv
  <2>2. Admin!Next \/ \E i \in InFlight : Admin!Serve(i) \/ Admin!Settle(i)
    BY <1>2 DEF PageSteps, PageStep, On
  <2> QED  BY <1>1, <2>1, <2>2, AdminServed, AdminSettled, AdminActed
<1>3. CASE PageStays("admin")
  <2>1. AdminHold /\ Own("admin", calls)  BY <1>3 DEF PageStays, AdminInv
  <2> QED  BY <1>1, <1>3, <2>1, OwnStays DEF PageStays, AdminHold, AdminViews
<1>4. CASE PageOpens("admin")
  <2>1. PICK cs : Fit(cs) /\ Enter("admin", cs)  BY <1>4 DEF PageOpens
  <2>2. /\ host' \in Admin!Found /\ view' = Admin!Opening
        /\ calls' = Add(cs, "reload", Call("listUsers", None))
    BY <2>1, AdminApi DEF Enter, Admin!FirstCalls, Admin!Reload
  <2>3. OwnCall("admin", "reload", Call("listUsers", None))
    BY CallMade, AdminOwn DEF AdminCall
  <2>4. Own("admin", calls')
    BY <1>1, <2>1, <2>2, <2>3, OwnOpens, OperationNames, InnerNames
  <2> QED
    BY <2>2, <2>4 DEF AdminHold, AdminViews, Admin!Opening, Admin!Found
<1> QED  BY <1>1, <1>2, <1>3, <1>4

-----------------------------------------------------------------------------
(* The console of a server.                                                *)

ConsoleSockets == [st : {"connecting", "open", "ended"}, news : Statuses \cup {None}]

Socketed(ss) == ss = <<>> \/ \E s \in ConsoleSockets : ss = <<s>>

ConsoleHold ==
    /\ view \in [status : Statuses \cup {None}] /\ host \in [status : Statuses \cup {None}]
    /\ Socketed(sockets)

ConsoleInv == auth = "in" /\ page = "console" => ConsoleHold /\ Own("console", calls)

\* What a server may be, to the page.
LEMMA StatusesAre ==
    /\ Console!Statuses = Statuses /\ Console!Live \subseteq Statuses
    /\ \A status : Console!Becomes(status) \subseteq Statuses
    /\ \A status : Console!Phase(status) \in {"open", "ended"}
BY DEF Console!Statuses, Statuses, Console!Live, Console!Becomes, Console!Phase

\* A call of a handler that outlives the page.
LEMMA OwnOuter ==
    ASSUME token \in Tokens, NEW p, NEW cs, Calls(cs), Own(p, cs),
           NEW h \in Outer \cup {"connect"}, NEW op \in Operations, NEW arg
    PROVE  Own(p, Add(cs, h, Call(op, arg)))
<1> DEFINE c == Call(op, arg)
<1>1. AddIs(Add(cs, h, c), cs, h, c)  BY AddKeeps DEF Calls
<1> HIDE DEF c
<1>2. \A x \in Sent(Add(cs, h, c)) : x \in Sent(cs) \/ x = <<h, c>>  BY <1>1 DEF AddIs
<1>3. h \notin Inner  BY OuterAndInner
<1>4. Own(p, Add(cs, h, c))  BY <1>2, <1>3 DEF Own
<1> QED  BY <1>4 DEF c

\* A ticket that is not waited for any more.
LEMMA OwnClosed ==
    ASSUME NEW p, NEW cs, Calls(cs), Own(p, cs)
    PROVE  Own(p, Rename(cs, "connect", "closed"))
<1> DEFINE ds == Rename(cs, "connect", "closed")
<1>1. RenameIs(ds, cs, "connect", "closed")  BY RenameKeeps DEF Calls
<1> HIDE DEF ds
<1>2. "closed" \in Outer /\ "closed" \notin Inner  BY OuterAndInner DEF Lasting
<1>3. \A x \in Sent(ds) : x \in Sent(cs) \/ x[1] = "closed"  BY <1>1 DEF RenameIs
<1>4. Own(p, ds)  BY <1>2, <1>3 DEF Own
<1> QED  BY <1>4 DEF ds

LEMMA ConsoleOwn == \A h, c : OwnCall("console", h, c) <=> ConsoleCall(h, c)
BY DEF OwnCall

\* Console answers with Answer and Reject of PanelApi.
LEMMA ConsoleAnswers ==
    /\ \A i, val : Console!Answer(i, val) => Update(i, Answered(At(i), "ok", val))
    /\ \A i : Console!Reject(i) => Update(i, Answered(At(i), "err", None))
<1>1. \A i, val : Console!Answer(i, val) => Update(i, Answered(At(i), "ok", val))
  BY Zenon DEF Console!Answer, Console!Update, Console!Answered, Console!At, Update,
    Answered, At
<1>2. \A i : Console!Reject(i) => Update(i, Answered(At(i), "err", None))
  BY Zenon DEF Console!Reject, Console!Update, Console!Answered, Console!At, Update,
    Answered, At
<1> QED  BY <1>1, <1>2, Zenon

\* The sockets when something changes in them, and when the page hangs up.
LEMMA SocketsChange ==
    ASSUME Socketed(sockets)
    PROVE  /\ \A ss : /\ ss = [n \in DOMAIN sockets |-> ss[n]]
                      /\ \A n \in DOMAIN sockets : ss[n] \in ConsoleSockets
                      => Socketed(ss)
           /\ \A n \in DOMAIN sockets : sockets[n] \in ConsoleSockets
           /\ \A n \in DOMAIN sockets : Console!RemoveAt(sockets, n) = <<>>
           /\ Console!CloseRef = <<>>
<1>1. sockets = <<>> \/ \E s : sockets = <<s>>  BY DEF Socketed
<1>2. ASSUME NEW ss, ss = [n \in DOMAIN sockets |-> ss[n]],
             \A n \in DOMAIN sockets : ss[n] \in ConsoleSockets
      PROVE  Socketed(ss)
  <2>1. CASE sockets = <<>>
    <3>1. ss = <<>>  BY <1>1, <1>2, <2>1, SocketsStay
    <3> QED  BY <3>1 DEF Socketed
  <2>2. ASSUME NEW s, sockets = <<s>>  PROVE Socketed(ss)
    <3>1. ss = <<ss[1]>>  BY <1>2, <2>2, OneSocket
    <3>2. 1 \in DOMAIN sockets  BY <2>2, OneSocket
    <3>3. ss[1] \in ConsoleSockets  BY <1>2, <3>2
    <3> QED  BY <3>1, <3>3 DEF Socketed
  <2> QED  BY <1>1, <2>1, <2>2
<1>3. ASSUME NEW n \in DOMAIN sockets  PROVE sockets[n] \in ConsoleSockets
  <2>1. PICK s \in ConsoleSockets : sockets = <<s>>  BY DEF Socketed
  <2>2. n = 1  BY <2>1, OneSocket
  <2> QED  BY <2>1, <2>2
<1>4. \A n \in DOMAIN sockets : Console!RemoveAt(sockets, n) = <<>>  BY <1>1, SocketsStay
<1>5. Console!CloseRef = <<>>
  <2>1. CASE sockets = <<>>  BY <2>1 DEF Console!CloseRef
  <2>2. ASSUME NEW s, sockets = <<s>>  PROVE Console!CloseRef = <<>>
    <3>1. Len(sockets) = 1 /\ 1 \in DOMAIN sockets  BY <2>2, OneSocket
    <3> QED  BY <1>4, <3>1 DEF Console!CloseRef
  <2> QED  BY <1>1, <2>1, <2>2
<1> QED  BY <1>2, <1>3, <1>4, <1>5, Zenon

\* One socket changes.
LEMMA SocketChanges ==
    ASSUME Socketed(sockets), NEW n \in DOMAIN sockets, NEW s \in ConsoleSockets
    PROVE  Socketed([sockets EXCEPT ![n] = s])
<1> DEFINE ss == [sockets EXCEPT ![n] = s]
<1>1. /\ ss = [m \in DOMAIN sockets |-> ss[m]]
      /\ \A m \in DOMAIN sockets : ss[m] = s \/ ss[m] = sockets[m]
  OBVIOUS
<1>2. \A m \in DOMAIN sockets : ss[m] \in ConsoleSockets  BY <1>1, SocketsChange
<1> HIDE DEF ss
<1>3. Socketed(ss)  BY <1>1, <1>2, SocketsChange
<1> QED  BY <1>3 DEF ss

\* The daemon tells the sockets of a status.
LEMMA SocketsTold ==
    ASSUME Socketed(sockets), NEW status \in Statuses, Console!Tell(status)
    PROVE  Socketed(sockets')
<1>1. /\ sockets' = [n \in DOMAIN sockets |-> sockets'[n]]
      /\ \A n \in DOMAIN sockets : \/ sockets'[n] = sockets[n]
                                   \/ sockets'[n] = [st |-> Console!Phase(status), news |-> status]
  BY DEF Console!Tell
<1>2. [st |-> Console!Phase(status), news |-> status] \in ConsoleSockets
  BY StatusesAre DEF ConsoleSockets
<1>3. \A n \in DOMAIN sockets : sockets'[n] \in ConsoleSockets  BY <1>1, <1>2, SocketsChange
<1> QED  BY <1>1, <1>3, SocketsChange

\* A status is drawn.
LEMMA ConsoleShows ==
    ASSUME token \in Tokens, ConsoleHold, NEW status \in Statuses, NEW cs, Calls(cs),
           Own("console", cs), NEW ss, Socketed(ss), Console!Draw(status, cs, ss), host' = host
    PROVE  ConsoleHold' /\ Own("console", calls')
<1>1. view' = [status |-> status] /\ (sockets' = Console!CloseRef \/ sockets' = ss)
  BY DEF Console!Draw
<1>2. Socketed(sockets')  BY <1>1, SocketsChange DEF ConsoleHold, Socketed
<1>3. \/ calls' = Add(cs, "connect", Call("consoleTicket", None))
      \/ calls' = Rename(cs, "connect", "closed")
      \/ calls' = cs
  BY ConsoleApi DEF Console!Draw, Console!Closed
<1>4. Own("console", Add(cs, "connect", Call("consoleTicket", None)))
  BY OwnOuter, OperationNames
<1>5. Own("console", calls')  BY <1>3, <1>4, OwnClosed
<1> QED  BY <1>1, <1>2, <1>5 DEF ConsoleHold

\* The console when the daemon answers.
LEMMA ConsoleServed ==
    ASSUME Calls(calls), Known(calls), ConsoleHold, Own("console", calls), NEW i \in InFlight,
           Console!Serve(i)
    PROVE  ConsoleHold' /\ Own("console", calls')
<1>1. ASSUME NEW st, NEW val, Update(i, Answered(At(i), st, val)),
             st = "ok" /\ At(i).op = "getServer" => val \in Statuses
      PROVE  Own("console", calls')
  <2>1. ASSUME i[1] \in Inner  PROVE OwnCall("console", i[1], Answered(At(i), st, val))
    <3>1. ConsoleCall(i[1], At(i))  BY <2>1, OwnAt, ConsoleOwn
    <3>2. ConsoleCall(i[1], Answered(At(i), st, val))
      BY <1>1, <3>1, AnswerMade DEF ConsoleCall
    <3> QED  BY <3>2, ConsoleOwn
  <2> QED  BY <1>1, <2>1, OwnSteps
<1>2. view' = view  BY DEF Console!Serve
<1>3. CASE Console!ServeDelete(i)
  <2>1. /\ At(i).op = "deleteServer" /\ host' = [status |-> None]
        /\ \/ Update(i, Answered(At(i), "ok", None))
           \/ Update(i, Answered(At(i), "err", None))
    BY <1>3, ConsoleApi, ConsoleAnswers DEF Console!ServeDelete, Console!Asked
  <2>2. Own("console", calls')  BY <1>1, <2>1
  <2>3. Console!Tell("stopped") /\ "stopped" \in Statuses
    BY <1>3 DEF Console!ServeDelete, Statuses
  <2>4. Socketed(sockets')  BY <2>3, SocketsTold DEF ConsoleHold
  <2> QED  BY <1>2, <2>1, <2>2, <2>4 DEF ConsoleHold
<1>4. CASE Console!ServeOther(i)
  <2>1. \/ /\ At(i).op = "getServer" /\ host.status # None
           /\ Update(i, Answered(At(i), "ok", host.status))
        \/ At(i).op # "getServer" /\ Update(i, Answered(At(i), "ok", None))
        \/ Update(i, Answered(At(i), "err", None))
    BY <1>4, ConsoleApi, ConsoleAnswers DEF Console!ServeOther, Console!Asked
  <2>2. host.status # None => host.status \in Statuses  BY DEF ConsoleHold
  <2>3. Own("console", calls')  BY <1>1, <2>1, <2>2
  <2>4. UNCHANGED <<host, sockets>>  BY <1>4 DEF Console!ServeOther
  <2> QED  BY <1>2, <2>3, <2>4 DEF ConsoleHold, Socketed
<1> QED  BY <1>3, <1>4 DEF Console!Serve

\* The console when a handler goes on.
LEMMA ConsoleSettled ==
    ASSUME token \in Tokens, Calls(calls), ConsoleHold, Own("console", calls),
           NEW i \in InFlight, Console!Settle(i), WiredInv, auth = "in", page = "console"
    PROVE  ConsoleHold' /\ Own("console", calls')
<1>1. Calls(Without(i)) /\ Own("console", Without(i))  BY OwnSteps
<1>2. i[1] \in Inner => ConsoleCall(i[1], At(i))  BY OwnAt, ConsoleOwn
<1>3. host' = host  BY DEF Console!Settle
<1>4. CASE Console!SettleReload(i)
  <2>1. \/ /\ ConsoleCall("reload", At(i)) /\ At(i).st = "ok"
           /\ Console!Draw(At(i).val, Without(i), sockets)
        \/ calls' = Without(i) /\ UNCHANGED <<view, sockets>>
    BY <1>2, <1>4, ConsoleApi, InnerNames DEF Console!SettleReload, Console!Replied
  <2>2. ASSUME ConsoleCall("reload", At(i)), At(i).st = "ok",
               Console!Draw(At(i).val, Without(i), sockets)
        PROVE  ConsoleHold' /\ Own("console", calls')
    <3>1. At(i).val \in Statuses  BY <2>2 DEF ConsoleCall
    <3>2. Socketed(sockets)  BY DEF ConsoleHold
    <3> QED  BY <1>1, <1>3, <2>2, <3>1, <3>2, ConsoleShows
  <2>3. CASE calls' = Without(i) /\ UNCHANGED <<view, sockets>>
    BY <1>1, <1>3, <2>3 DEF ConsoleHold, Socketed
  <2> QED  BY <2>1, <2>2, <2>3
<1>5. CASE Console!SettleConnect(i)
  <2>1. /\ calls' = Without(i) /\ view' = view
        /\ \/ sockets' = sockets
           \/ i[1] = "connect" /\ sockets' = Append(sockets, [st |-> "connecting", news |-> None])
    BY <1>5, ConsoleApi DEF Console!SettleConnect, Console!Replied
  <2>2. i[1] = "connect" => sockets = <<>>  BY <1>5, OwnAt DEF WiredInv, Wired
  <2>3. [st |-> "connecting", news |-> None] \in ConsoleSockets  BY DEF ConsoleSockets
  <2>4. CASE sockets' = sockets
    BY <1>1, <1>3, <2>1, <2>4 DEF ConsoleHold, Socketed
  <2>5. CASE sockets' # sockets
    <3>1. sockets' = <<[st |-> "connecting", news |-> None]>>  BY <2>1, <2>2, <2>5, OneSocket
    <3>2. Socketed(sockets')  BY <2>3, <3>1 DEF Socketed
    <3> QED  BY <1>1, <1>3, <2>1, <3>2 DEF ConsoleHold
  <2> QED  BY <2>4, <2>5
<1>6. CASE Console!SettleOther(i)
  <2>1. calls' = Without(i) /\ UNCHANGED <<view, sockets>>
    BY <1>6, ConsoleApi DEF Console!SettleOther
  <2> QED  BY <1>1, <1>3, <2>1 DEF ConsoleHold, Socketed
<1> QED  BY <1>4, <1>5, <1>6 DEF Console!Settle

\* The console when the user, the timer, the server or a socket acts.
LEMMA ConsoleActed ==
    ASSUME token \in Tokens, Calls(calls), ConsoleHold, Own("console", calls), Console!Next
    PROVE  ConsoleHold' /\ Own("console", calls')
<1>1. Socketed(sockets)  BY DEF ConsoleHold
<1>2. CASE \/ Console!Tick \/ Console!Command
           \/ \E action \in Console!Powers : Console!Power(action)
  <2>1. PICK h \in {"reload", "change"}, op \in {"getServer", "sendCommand", "power"} :
          /\ calls' = Add(calls, h, Call(op, None)) /\ (h = "reload" => op = "getServer")
          /\ UNCHANGED <<view, host, sockets>>
    BY <1>2, ConsoleApi DEF Console!Tick, Console!Command, Console!Power, Console!Ask
  <2>2. OwnCall("console", h, Call(op, None))  BY <2>1, CallMade, ConsoleOwn DEF ConsoleCall
  <2>3. Own("console", calls')  BY <2>1, <2>2, OwnAsks, OperationNames, InnerNames
  <2> QED  BY <2>1, <2>3 DEF ConsoleHold, Socketed
<1>3. CASE Console!Delete
  <2>1. /\ calls' = Add(calls, "delete", Call("deleteServer", None))
        /\ UNCHANGED <<view, host, sockets>>
    BY <1>3, ConsoleApi DEF Console!Delete, Console!Ask
  <2>2. "delete" \in Outer  BY DEF Outer, Lasting
  <2>3. Own("console", calls')  BY <2>1, <2>2, OwnOuter, OperationNames
  <2> QED  BY <2>1, <2>3 DEF ConsoleHold, Socketed
<1>4. CASE Console!HostMoves
  <2>1. PICK status \in Statuses : host' = [status |-> status] /\ Console!Tell(status)
    BY <1>4, StatusesAre DEF Console!HostMoves
  <2>2. Socketed(sockets')  BY <1>1, <2>1, SocketsTold
  <2>3. UNCHANGED <<view, calls>>  BY <1>4 DEF Console!HostMoves
  <2> QED  BY <2>1, <2>2, <2>3 DEF ConsoleHold
<1>5. ASSUME NEW n \in DOMAIN sockets, Console!Opens(n)
      PROVE  ConsoleHold' /\ Own("console", calls')
  <2> DEFINE s == [st   |-> Console!Phase(host.status),
                   news |-> IF host.status \in Console!Live THEN host.status ELSE None]
  <2>1. s \in ConsoleSockets  BY StatusesAre DEF ConsoleSockets
  <2>2. sockets' = [sockets EXCEPT ![n] = s] /\ UNCHANGED <<view, host, calls>>
    BY <1>5 DEF Console!Opens
  <2> HIDE DEF s
  <2>3. Socketed(sockets')  BY <1>1, <2>1, <2>2, SocketChanges
  <2> QED  BY <2>2, <2>3 DEF ConsoleHold
<1>6. ASSUME NEW n \in DOMAIN sockets, Console!Hears(n)
      PROVE  ConsoleHold' /\ Own("console", calls')
  <2> DEFINE s == [sockets[n] EXCEPT !.news = None]
             ss == [sockets EXCEPT ![n] = s]
  <2>1. sockets[n] \in ConsoleSockets  BY <1>1, SocketsChange
  <2>2. s \in ConsoleSockets  BY <2>1 DEF ConsoleSockets
  <2>3. sockets[n].news \in Statuses  BY <1>6, <2>1 DEF Console!Hears, ConsoleSockets
  <2>4. [sockets EXCEPT ![n].news = None] = ss  OBVIOUS
  <2>5. Console!Draw(sockets[n].news, calls, ss) /\ host' = host
    BY <1>6, <2>4 DEF Console!Hears
  <2> HIDE DEF s
  <2>6. Socketed(ss)  BY <1>1, <2>2, SocketChanges
  <2> HIDE DEF ss
  <2> QED  BY <2>3, <2>5, <2>6, ConsoleShows
<1>7. ASSUME NEW n \in DOMAIN sockets, Console!Ends(n)
      PROVE  ConsoleHold' /\ Own("console", calls')
  <2>1. sockets' = <<>> /\ UNCHANGED <<view, host, calls>>
    BY <1>1, <1>7, SocketsChange DEF Console!Ends
  <2> QED  BY <2>1 DEF ConsoleHold, Socketed
<1> QED  BY <1>2, <1>3, <1>4, <1>5, <1>6, <1>7 DEF Console!Next

\* No step of the page loses it.
LEMMA ConsoleKeep ==
    ASSUME PanelInv, ConsoleInv, [Next]_vars
    PROVE  ConsoleInv'
<1> SUFFICES ASSUME auth' = "in", page' = "console"
             PROVE  ConsoleHold' /\ Own("console", calls')
  BY DEF ConsoleInv
<1>1. /\ AppInv /\ Calls(calls) /\ Known(calls) /\ token \in Tokens
      /\ PageSteps("console") \/ PageStays("console") \/ PageOpens("console")
  BY PageCases
<1>2. CASE PageSteps("console")
  <2>1. ConsoleHold /\ Own("console", calls)  BY <1>2 DEF PageSteps, ConsoleInv
  <2>2. Console!Next \/ \E i \in InFlight : Console!Serve(i) \/ Console!Settle(i)
    BY <1>2 DEF PageSteps, PageStep, On
  <2> QED  BY <1>1, <1>2, <2>1, <2>2, ConsoleServed, ConsoleSettled, ConsoleActed
    DEF PanelInv, PageSteps
<1>3. CASE PageStays("console")
  <2>1. ConsoleHold /\ Own("console", calls)  BY <1>3 DEF PageStays, ConsoleInv
  <2> QED  BY <1>1, <1>3, <2>1, OwnStays DEF PageStays, ConsoleHold, Socketed
<1>4. CASE PageOpens("console")
  <2>1. PICK cs : Fit(cs) /\ Enter("console", cs)  BY <1>4 DEF PageOpens
  <2>2. /\ host' \in Console!Found /\ view' = Console!Opening
        /\ calls' = Add(cs, "reload", Call("getServer", None))
    BY <2>1, ConsoleApi DEF Enter, Console!FirstCalls
  <2>3. OwnCall("console", "reload", Call("getServer", None))
    BY CallMade, ConsoleOwn DEF ConsoleCall
  <2>4. Own("console", calls')
    BY <1>1, <2>1, <2>2, <2>3, OwnOpens, OperationNames, InnerNames
  <2>5. sockets' = <<>>  BY <1>4 DEF PageOpens
  <2> QED
    BY <2>2, <2>4, <2>5 DEF ConsoleHold, Socketed, Console!Opening, Console!Found, Statuses
<1> QED  BY <1>1, <1>2, <1>3, <1>4

-----------------------------------------------------------------------------
(* The tasks of the modpacks.                                              *)

TaskOf(n) == [id : 1..n, over : BOOLEAN]

\* With n tasks at the daemon: only they are asked about, and answered with.
TaskCall(h, c, n) ==
    /\ h = "poll" => /\ c.op = "getTask" /\ c.arg \in 1..n
                     /\ c.st = "ok" => c.val \in TaskOf(n)
    /\ h = "save" => /\ c.op = "installModpack"
                     /\ c.st = "ok" /\ c.arg = "install" => c.val \in 1..n

Tracked(cs, n) == \A x \in Sent(cs) : TaskCall(x[1], x[2], n)

TasksHold ==
    /\ host \in [tasks : Seq(BOOLEAN)] /\ Len(host.tasks) <= MaxTasks
    /\ view.busy \in BOOLEAN /\ view.task \in TaskOf(Len(host.tasks)) \cup {None}
    /\ Tracked(calls, Len(host.tasks))

TasksInv == auth = "in" /\ page = "modpacks" => TasksHold

\* What the page and the daemon may do to the calls about tasks.
LEMMA TrackedSteps ==
    ASSUME Calls(calls), NEW n \in Nat, Tracked(calls, n)
    PROVE  /\ \A i \in InFlight : Tracked(Without(i), n) /\ TaskCall(i[1], At(i), n)
           /\ \A hs : Tracked(Forget(calls, hs), n)
           /\ Aside(calls') => Tracked(calls', n)
<1>1. ASSUME NEW i \in InFlight  PROVE Tracked(Without(i), n) /\ TaskCall(i[1], At(i), n)
  <2>1. WithoutIs(Without(i), calls, i[1])  BY WithoutKeeps DEF Calls
  <2>2. TaskCall(i[1], At(i), n)  BY AtIsSent DEF Tracked
  <2> QED  BY <2>1, <2>2 DEF WithoutIs, Tracked
<1>2. ASSUME NEW hs  PROVE Tracked(Forget(calls, hs), n)
  <2>1. ForgetIs(Forget(calls, hs), calls, hs)  BY ForgetKeeps DEF Calls
  <2> QED  BY <2>1 DEF ForgetIs, Tracked
<1>3. ASSUME Aside(calls')  PROVE Tracked(calls', n)
  <2>1. ASSUME NEW x \in Sent(calls'), x[1] \notin Around  PROVE TaskCall(x[1], x[2], n)
    <3>1. PICK y \in Sent(calls) : AsBefore(x, y, Shared)  BY <1>3, <2>1 DEF Aside, Beside
    <3>2. TaskCall(y[1], y[2], n)  BY DEF Tracked
    <3> QED  BY <3>1, <3>2 DEF AsBefore, TaskCall, Shared
  <2>2. ASSUME NEW x \in Sent(calls'), x[1] \in Around  PROVE TaskCall(x[1], x[2], n)
    <3>1. x[1] # "poll" /\ x[1] # "save"  BY <2>2 DEF Around, Lasting, Theme!Handlers
    <3> QED  BY <3>1 DEF TaskCall
  <2> QED  BY <2>1, <2>2 DEF Tracked
<1> QED  BY <1>1, <1>2, <1>3, Zenon

LEMMA TrackedAdd ==
    ASSUME NEW n \in Nat, NEW cs, Calls(cs), Tracked(cs, n), NEW h, NEW c, TaskCall(h, c, n)
    PROVE  Tracked(Add(cs, h, c), n)
<1>1. AddIs(Add(cs, h, c), cs, h, c)  BY AddKeeps DEF Calls
<1> QED  BY <1>1 DEF AddIs, Tracked

\* An answer comes, and perhaps a task with it.
LEMMA TrackedAnswer ==
    ASSUME Calls(calls), NEW n \in Nat, NEW m \in Nat, n <= m, Tracked(calls, n),
           NEW i \in InFlight, NEW st, NEW val, Update(i, Answered(At(i), st, val)),
           st = "ok" /\ At(i).op = "getTask" /\ At(i).arg \in 1..n => val \in TaskOf(m),
           st = "ok" /\ At(i).op = "installModpack" /\ At(i).arg = "install" => val \in 1..m
    PROVE  Tracked(calls', m)
<1>1. \A h, c : TaskCall(h, c, n) => TaskCall(h, c, m)  BY DEF TaskCall, TaskOf
<1> DEFINE d == Answered(At(i), st, val)
<1>2. TaskCall(i[1], At(i), n) /\ TaskCall(i[1], At(i), m)  BY <1>1, TrackedSteps
<1>3. TaskCall(i[1], d, m)  BY <1>2, AnswerMade DEF TaskCall
<1>4. UpdateIs(calls', calls, i[1], d)  BY UpdateKeeps DEF Calls
<1> HIDE DEF d
<1>5. \A x \in Sent(calls') : x \in Sent(calls) \/ x = <<i[1], d>>  BY <1>4 DEF UpdateIs
<1> QED  BY <1>1, <1>3, <1>5 DEF Tracked

\* What the page may change of what it draws of a task.
LEMMA TasksDraw ==
    ASSUME ModpacksHolds, NEW busy \in BOOLEAN, NEW S, NEW task \in S,
           view.busy \in BOOLEAN, view.task \in S, NEW box, NEW hits,
           \/ view' = view
           \/ view' = [view EXCEPT !.box = box]
           \/ view' = [view EXCEPT !.box.hits = hits]
           \/ view' = [view EXCEPT !.box.timer = hits]
           \/ view' = [view EXCEPT !.busy = busy]
           \/ view' = [view EXCEPT !.task = task]
           \/ view' = [view EXCEPT !.busy = busy, !.task = task]
    PROVE  view'.busy \in BOOLEAN /\ view'.task \in S
<1>1. view = [box |-> view.box, busy |-> view.busy, task |-> view.task]  BY DEF ModpacksHolds
<1>2. CASE view' = view  BY <1>2
<1>3. CASE \/ view' = [view EXCEPT !.box = box]
           \/ view' = [view EXCEPT !.box.hits = hits]
           \/ view' = [view EXCEPT !.box.timer = hits]
  BY <1>1, <1>3
<1>4. CASE \/ view' = [view EXCEPT !.busy = busy]
           \/ view' = [view EXCEPT !.task = task]
           \/ view' = [view EXCEPT !.busy = busy, !.task = task]
  BY <1>1, <1>4
<1> QED  BY <1>2, <1>3, <1>4

\* The tasks when the daemon answers.
LEMMA TasksServed ==
    ASSUME Calls(calls), TasksHold, NEW i \in InFlight, Modpacks!Serve(i)
    PROVE  TasksHold'
<1> DEFINE n == Len(host.tasks)
<1>1. n \in Nat /\ n <= MaxTasks /\ Tracked(calls, n) /\ host.tasks \in Seq(BOOLEAN)
  BY DEF TasksHold
<1>2. view' = view  BY DEF Modpacks!Serve
<1>3. \/ /\ host' = host /\ At(i).op = "getTask"
         /\ Update(i, Answered(At(i), "ok", [id |-> At(i).arg, over |-> host.tasks[At(i).arg]]))
      \/ /\ host' = host /\ At(i).op # "getTask"
         /\ At(i).op = "installModpack" => At(i).arg # "install"
         /\ \/ Update(i, Answered(At(i), "ok", None))
            \/ Update(i, Answered(At(i), "ok", At(i).arg))
      \/ host' = host /\ Update(i, Answered(At(i), "err", None))
      \/ /\ At(i).op = "installModpack" /\ n < MaxTasks
         /\ host' = [tasks |-> Append(host.tasks, FALSE)]
         /\ Update(i, Answered(At(i), "ok", n + 1))
  BY ModpacksApi, ModpacksAnswers DEF Modpacks!Serve, Modpacks!Asked
<1>4. CASE host' = host
  <2>1. \A k \in 1..n : [id |-> k, over |-> host.tasks[k]] \in TaskOf(n)
    BY <1>1, ElementOfSeq DEF TaskOf
  <2>2. Len(host'.tasks) = n  BY <1>4
  <2>3. CASE At(i).op = "installModpack" /\ host' = [tasks |-> Append(host.tasks, FALSE)]
    BY <1>1, <2>2, <2>3, AppendProperties
  <2> HIDE DEF n
  <2>4. CASE ~(At(i).op = "installModpack" /\ host' = [tasks |-> Append(host.tasks, FALSE)])
    <3>1. ASSUME At(i).op = "getTask",
                 Update(i, Answered(At(i), "ok",
                                    [id |-> At(i).arg, over |-> host.tasks[At(i).arg]]))
          PROVE  Tracked(calls', n)
      BY <1>1, <2>1, <3>1, TrackedAnswer
    <3>2. ASSUME At(i).op # "getTask", At(i).op = "installModpack" => At(i).arg # "install",
                 NEW val, Update(i, Answered(At(i), "ok", val))
          PROVE  Tracked(calls', n)
      BY <1>1, <3>2, TrackedAnswer
    <3>3. ASSUME Update(i, Answered(At(i), "err", None))  PROVE Tracked(calls', n)
      BY <1>1, <3>3, TrackedAnswer
    <3>4. Tracked(calls', n)  BY <1>3, <2>4, <3>1, <3>2, <3>3
    <3> QED  BY <1>1, <1>2, <1>4, <3>4 DEF TasksHold, n
  <2> QED  BY <2>3, <2>4
<1>5. CASE /\ At(i).op = "installModpack" /\ n < MaxTasks
           /\ host' = [tasks |-> Append(host.tasks, FALSE)]
           /\ Update(i, Answered(At(i), "ok", n + 1))
  <2>1. host'.tasks \in Seq(BOOLEAN) /\ Len(host'.tasks) = n + 1
    BY <1>1, <1>5, AppendProperties
  <2>2. host' \in [tasks : Seq(BOOLEAN)]  BY <1>5, <2>1
  <2>3. view.task \in TaskOf(n) \cup {None} /\ view.busy \in BOOLEAN  BY DEF TasksHold
  <2> HIDE DEF n
  <2>4. Tracked(calls', n + 1)  BY <1>1, <1>5, TrackedAnswer
  <2>5. n + 1 <= MaxTasks  BY <1>1, <1>5, PanelAssumption
  <2>6. view'.task \in TaskOf(n + 1) \cup {None}  BY <1>1, <1>2, <2>3 DEF TaskOf
  <2> QED  BY <1>2, <2>1, <2>2, <2>3, <2>4, <2>5, <2>6 DEF TasksHold
<1> QED  BY <1>3, <1>4, <1>5

\* The tasks when a handler goes on.
LEMMA TasksSettled ==
    ASSUME token \in Tokens, Calls(calls), ModpacksHolds, TasksHold, NEW i \in InFlight,
           Modpacks!Settle(i)
    PROVE  TasksHold'
<1> DEFINE n == Len(host.tasks)
           cs == Without(i)
<1>1. n \in Nat /\ Tracked(calls, n) /\ view.busy \in BOOLEAN
      /\ view.task \in TaskOf(n) \cup {None}
  BY DEF TasksHold
<1>2. host' = host  BY DEF Modpacks!Settle
<1>3. Tracked(cs, n) /\ Calls(cs) /\ TaskCall(i[1], At(i), n)
  BY <1>1, TrackedSteps, WithoutKeeps DEF Calls, WithoutIs
<1> HIDE DEF cs, n
<1>4. TaskCall("save", Call("installModpack", "install"), n)
      /\ TaskCall("reload", Call("serverModpack", None), n)
  BY CallMade DEF TaskCall
<1>5. ASSUME Tracked(calls', n), view'.busy \in BOOLEAN, view'.task \in TaskOf(n) \cup {None}
      PROVE  TasksHold'
  BY <1>2, <1>5 DEF TasksHold, n
<1>6. CASE Modpacks!SettleInstalled(i) \/ Modpacks!SettleSearch(i)
  <2>1. /\ calls' = cs
        /\ view' = view \/ \E hits : view' = [view EXCEPT !.box.hits = hits]
    BY <1>6, ModpacksApi DEF Modpacks!SettleInstalled, Modpacks!SettleSearch, cs
  <2>2. view'.busy \in BOOLEAN /\ view'.task \in TaskOf(n) \cup {None}
    BY <1>1, <2>1, TasksDraw
  <2> QED  BY <1>3, <1>5, <2>1, <2>2
<1>7. CASE Modpacks!SettleInstall(i)
  <2>1. /\ calls' = cs \/ calls' = Add(cs, "save", Call("installModpack", "install"))
        /\ \/ view' = view
           \/ view' = [view EXCEPT !.busy = FALSE]
           \/ /\ i[1] = "save" /\ At(i).st = "ok" /\ At(i).arg = "install"
              /\ view' = [view EXCEPT !.busy = FALSE, !.task = [id |-> At(i).val, over |-> FALSE]]
    BY <1>7, ModpacksApi DEF Modpacks!SettleInstall, Modpacks!Replied, Modpacks!Failed, cs
  <2>2. Tracked(calls', n)  BY <1>1, <1>3, <1>4, <2>1, TrackedAdd
  <2>3. i[1] = "save" /\ At(i).st = "ok" /\ At(i).arg = "install"
          => [id |-> At(i).val, over |-> FALSE] \in TaskOf(n)
    BY <1>3 DEF TaskCall, TaskOf
  <2>4. view'.busy \in BOOLEAN /\ view'.task \in TaskOf(n) \cup {None}
    BY <1>1, <2>1, <2>3, TasksDraw
  <2> QED  BY <1>5, <2>2, <2>4
<1>8. CASE Modpacks!SettlePoll(i)
  <2>1. /\ calls' = cs \/ calls' = Add(cs, "reload", Call("serverModpack", None))
        /\ \/ view' = view
           \/ /\ i[1] = "poll" /\ At(i).st = "ok"
              /\ view' = [view EXCEPT !.task = At(i).val]
    BY <1>8, ModpacksApi
    DEF Modpacks!SettlePoll, Modpacks!ReloadInstalled, Modpacks!Replied, Modpacks!Failed, cs
  <2>2. Tracked(calls', n)  BY <1>1, <1>3, <1>4, <2>1, TrackedAdd
  <2>3. i[1] = "poll" /\ At(i).st = "ok" => At(i).val \in TaskOf(n)  BY <1>3 DEF TaskCall
  <2>4. view'.busy \in BOOLEAN /\ view'.task \in TaskOf(n) \cup {None}
    BY <1>1, <2>1, <2>3, TasksDraw
  <2> QED  BY <1>5, <2>2, <2>4
<1> QED  BY <1>6, <1>7, <1>8 DEF Modpacks!Settle

\* The tasks when the user, the timer or a task acts.
LEMMA TasksActed ==
    ASSUME token \in Tokens, Calls(calls), ModpacksHolds, TasksHold, Modpacks!Next
    PROVE  TasksHold'
<1> DEFINE n == Len(host.tasks)
<1>1. n \in Nat /\ Tracked(calls, n) /\ view.busy \in BOOLEAN
      /\ view.task \in TaskOf(n) \cup {None}
  BY DEF TasksHold
<1> HIDE DEF n
<1>2. ASSUME Tracked(calls', n), view'.busy \in BOOLEAN, view'.task \in TaskOf(n) \cup {None},
             host' = host
      PROVE  TasksHold'
  BY <1>2 DEF TasksHold, n
<1>3. CASE \E query \in Queries \cup {Modpacks!Short} : Modpacks!Type(query, TRUE)
  <2>1. /\ \E box : view' = [view EXCEPT !.box = box]
        /\ calls' = calls \/ (\E hs : calls' = Forget(calls, hs))
        /\ host' = host
    BY <1>3, ModpacksApi DEF Modpacks!Type, Modpacks!Superseded
  <2>2. view'.busy \in BOOLEAN /\ view'.task \in TaskOf(n) \cup {None}
    BY <1>1, <2>1, TasksDraw
  <2>3. Tracked(calls', n)  BY <1>1, <2>1, TrackedSteps
  <2> QED  BY <1>2, <2>1, <2>2, <2>3
<1>4. CASE Modpacks!Search
  <2>1. /\ view' = [view EXCEPT !.box.timer = FALSE] /\ host' = host
        /\ calls' = Add(calls, "search", Call("searchCatalog", view.box.query))
    BY <1>4, ModpacksApi DEF Modpacks!Search
  <2>2. view'.busy \in BOOLEAN /\ view'.task \in TaskOf(n) \cup {None}
    BY <1>1, <2>1, TasksDraw
  <2>3. TaskCall("search", Call("searchCatalog", view.box.query), n)  BY DEF TaskCall
  <2>4. Tracked(calls', n)  BY <1>1, <2>1, <2>3, TrackedAdd
  <2> QED  BY <1>2, <2>1, <2>2, <2>4
<1>5. CASE Modpacks!Install
  <2>1. /\ view' = [view EXCEPT !.busy = TRUE] /\ host' = host
        /\ calls' = Add(calls, "save", Call("installModpack", "dry run"))
    BY <1>5, ModpacksApi DEF Modpacks!Install, Modpacks!Ask
  <2>2. view'.busy \in BOOLEAN /\ view'.task \in TaskOf(n) \cup {None}
    BY <1>1, <2>1, TasksDraw
  <2>3. TaskCall("save", Call("installModpack", "dry run"), n)  BY CallMade DEF TaskCall
  <2>4. Tracked(calls', n)  BY <1>1, <2>1, <2>3, TrackedAdd
  <2> QED  BY <1>2, <2>1, <2>2, <2>4
<1>6. CASE Modpacks!Poll
  <2>1. /\ view' = view /\ host' = host
        /\ calls' = Add(calls, "poll", Call("getTask", view.task.id))
    BY <1>6, ModpacksApi DEF Modpacks!Poll
  <2>2. view.task.id \in 1..n
    BY <1>1, <1>6 DEF Modpacks!Poll, Modpacks!installing, TaskOf
  <2>3. TaskCall("poll", Call("getTask", view.task.id), n)  BY <2>2, CallMade DEF TaskCall
  <2>4. Tracked(calls', n)  BY <1>1, <2>1, <2>3, TrackedAdd
  <2> QED  BY <1>1, <1>2, <2>1, <2>4
<1>7. CASE Modpacks!HostMoves
  <2>1. PICK k \in DOMAIN host.tasks : host' = [tasks |-> [host.tasks EXCEPT ![k] = TRUE]]
    BY <1>7 DEF Modpacks!HostMoves
  <2>2. host.tasks \in Seq(BOOLEAN) /\ n <= MaxTasks /\ k \in 1..Len(host.tasks)
    BY DEF TasksHold, n
  <2>3. [host.tasks EXCEPT ![k] = TRUE] \in Seq(BOOLEAN)
        /\ Len([host.tasks EXCEPT ![k] = TRUE]) = n
    BY <2>2, ExceptSeq DEF n
  <2>4. host' \in [tasks : Seq(BOOLEAN)] /\ Len(host'.tasks) = n  BY <2>1, <2>3
  <2>5. UNCHANGED <<view, calls>>  BY <1>7 DEF Modpacks!HostMoves
  <2> QED  BY <1>1, <2>2, <2>4, <2>5 DEF TasksHold
<1> QED  BY <1>3, <1>4, <1>5, <1>6, <1>7 DEF Modpacks!Next

\* No step of the modpacks loses it.
LEMMA TasksKeep ==
    ASSUME PanelInv, ModpacksInv, TasksInv, [Next]_vars
    PROVE  TasksInv'
<1> SUFFICES ASSUME auth' = "in", page' = "modpacks"
             PROVE  TasksHold'
  BY DEF TasksInv
<1>1. /\ AppInv /\ Calls(calls) /\ Known(calls) /\ token \in Tokens
      /\ PageSteps("modpacks") \/ PageStays("modpacks") \/ PageOpens("modpacks")
  BY PageCases
<1>2. CASE PageSteps("modpacks")
  <2>1. ModpacksHolds /\ TasksHold  BY <1>2 DEF PageSteps, ModpacksInv, TasksInv
  <2>2. Modpacks!Next \/ \E i \in InFlight : Modpacks!Serve(i) \/ Modpacks!Settle(i)
    BY <1>2 DEF PageSteps, PageStep, On
  <2> QED  BY <1>1, <2>1, <2>2, TasksServed, TasksSettled, TasksActed
<1>3. CASE PageStays("modpacks")
  <2>1. TasksHold /\ Aside(calls') /\ UNCHANGED <<view, host>>
    BY <1>3 DEF PageStays, TasksInv
  <2>2. Len(host.tasks) \in Nat /\ Tracked(calls, Len(host.tasks))  BY <2>1 DEF TasksHold
  <2>3. Tracked(calls', Len(host.tasks))  BY <1>1, <2>1, <2>2, TrackedSteps
  <2> QED  BY <2>1, <2>3 DEF TasksHold
<1>4. CASE PageOpens("modpacks")
  <2>1. PICK cs : Fit(cs) /\ Enter("modpacks", cs)  BY <1>4 DEF PageOpens
  <2>2. /\ host' = [tasks |-> <<>>] /\ view' = Modpacks!Opening
        /\ calls' = Add(cs, "reload", Call("serverModpack", None))
    BY <2>1, ModpacksApi DEF Enter, Modpacks!FirstCalls, Modpacks!ReloadInstalled, Modpacks!Found
  <2>3. \A x \in Sent(cs) : x[1] \in Lasting  BY <2>1, SentIs DEF Fit
  <2>4. Tracked(cs, 0) /\ Calls(cs)
    BY <2>1, <2>3 DEF Tracked, TaskCall, Lasting, Theme!Handlers, Fit
  <2>5. TaskCall("reload", Call("serverModpack", None), 0)  BY DEF TaskCall
  <2>6. Tracked(calls', 0)  BY <2>2, <2>4, <2>5, TrackedAdd
  <2>7. host' \in [tasks : Seq(BOOLEAN)] /\ Len(host'.tasks) = 0  BY <2>2
  <2> QED  BY <2>2, <2>6, <2>7, PanelAssumption DEF TasksHold, Modpacks!Opening
<1> QED  BY <1>1, <1>2, <1>3, <1>4

-----------------------------------------------------------------------------
(* Every page and what is around it.                                       *)

TypeInv ==
    /\ BotsInv /\ FilesInv /\ ServersInv /\ CatalogInv /\ ModpacksInv /\ TasksInv
    /\ BackupsInv /\ ConnectInv /\ PropertiesInv /\ OptionsInv /\ LinksInv /\ AdminInv
    /\ ConsoleInv

\* What the invariants of the pages say of what is drawn.
LEMMA PagesTyped ==
    ASSUME PanelInv, TypeInv, auth = "in"
    PROVE  /\ page = "servers" => Servers!Types
           /\ page = "console" => Console!Types /\ Socketed(sockets)
           /\ page = "theme" => Theme!Types
           /\ page = "files" => Files!Types
           /\ page = "catalog" => Catalog!Types
           /\ page = "modpacks" => Modpacks!Types
           /\ page = "backups" => Backups!Types
           /\ page = "connect" => Connect!Types
           /\ page = "properties" => Properties!Types
           /\ page = "options" => Options!Types
           /\ page = "links" => Links!Types
           /\ page = "bots" => Bots!Types
           /\ page = "admin" => Admin!Types
<1>1. ASSUME page = "servers"  PROVE Servers!Types
  BY <1>1 DEF TypeInv, ServersInv, ServersView, FormHolds, Servers!Types
<1>2. ASSUME page = "console"  PROVE Console!Types /\ Socketed(sockets)
  BY <1>2, StatusesAre DEF TypeInv, ConsoleInv, ConsoleHold, Console!Types
<1>3. ASSUME page = "theme"  PROVE Theme!Types  BY <1>3 DEF PanelInv, AppInv
<1>4. ASSUME page = "files"  PROVE Files!Types  BY <1>4 DEF TypeInv, FilesInv, FilesView
<1>5. ASSUME page = "catalog"  PROVE Catalog!Types
  BY <1>5 DEF TypeInv, CatalogInv, CatalogHolds
<1>6. ASSUME page = "modpacks"  PROVE Modpacks!Types
  <2>1. ModpacksHolds /\ TasksHold  BY <1>6 DEF TypeInv, ModpacksInv, TasksInv
  <2>2. Len(host.tasks) <= MaxTasks /\ host.tasks \in Seq(BOOLEAN)  BY <2>1 DEF TasksHold
  <2>3. TaskOf(Len(host.tasks)) \subseteq Modpacks!Task
    BY <2>2, PanelAssumption DEF TaskOf, Modpacks!Task
  <2>4. /\ view \in [box : Modpacks!BoxType, busy : {view.busy}, task : {view.task}]
        /\ view.busy \in BOOLEAN /\ view.task \in Modpacks!Task \cup {None}
    BY <2>1, <2>3, BoxIsShared DEF ModpacksHolds, TasksHold
  <2> QED  BY <2>2, <2>4 DEF Modpacks!Types
<1>7. ASSUME page = "backups"  PROVE Backups!Types
  BY <1>7 DEF TypeInv, BackupsInv, BackupsHold
<1>8. ASSUME page = "connect"  PROVE Connect!Types
  BY <1>8 DEF TypeInv, ConnectInv, ConnectHold, Connect!Types
<1>9. ASSUME page = "properties"  PROVE Properties!Types
  BY <1>9 DEF TypeInv, PropertiesInv, PropertiesHold
<1>10. ASSUME page = "options"  PROVE Options!Types
  BY <1>10 DEF TypeInv, OptionsInv, OptionsHold
<1>11. ASSUME page = "links"  PROVE Links!Types
  BY <1>11 DEF TypeInv, LinksInv, LinksHold, LinksViews, Links!Types
<1>12. ASSUME page = "bots"  PROVE Bots!Types  BY <1>12 DEF TypeInv, BotsInv
<1>13. ASSUME page = "admin"  PROVE Admin!Types
  BY <1>13 DEF TypeInv, AdminInv, AdminHold, AdminViews, Admin!Types
<1> QED
  BY <1>1, <1>2, <1>3, <1>4, <1>5, <1>6, <1>7, <1>8, <1>9, <1>10, <1>11, <1>12, <1>13

\* No step of the panel loses it.
LEMMA TypeInvariance == Spec => []TypeInv
<1>1. Init => TypeInv
  BY DEF Init, TypeInv, BotsInv, FilesInv, ServersInv, CatalogInv, ModpacksInv, TasksInv,
    BackupsInv, ConnectInv, PropertiesInv, OptionsInv, LinksInv, AdminInv, ConsoleInv
<1>2. PanelInv /\ TypeInv /\ [Next]_vars => TypeInv'
  <2> SUFFICES ASSUME PanelInv, TypeInv, [Next]_vars  PROVE TypeInv'
    OBVIOUS
  <2>1. BotsInv' /\ FilesInv' /\ ServersInv' /\ CatalogInv' /\ ModpacksInv' /\ TasksInv'
    BY BotsKeep, FilesKeep, ServersKeep, CatalogKeeps, ModpacksKeep, TasksKeep DEF TypeInv
  <2>2. /\ BackupsInv' /\ ConnectInv' /\ PropertiesInv' /\ OptionsInv' /\ LinksInv' /\ AdminInv'
        /\ ConsoleInv'
    BY BackupsKeep, ConnectKeep, PropertiesKeep, OptionsKeep, LinksKeep, AdminKeep, ConsoleKeep
    DEF TypeInv
  <2> QED  BY <2>1, <2>2 DEF TypeInv
<1> QED  BY <1>1, <1>2, PanelInvariance, PTL DEF Spec

\* web/src: whatever page is left for whichever other one, and whatever is
\* answered, refused and lost in whatever order, every page draws and every call
\* carries what it should: an answer to one operation is never taken for that to
\* another, a task that is asked about is one the daemon has.
THEOREM PanelTypes == Spec => []TypeOK
<1>1. PanelInv /\ TypeInv => TypeOK
  <2> SUFFICES ASSUME PanelInv, TypeInv  PROVE TypeOK
    OBVIOUS
  <2>1. AppInv /\ Held  BY DEF PanelInv, AppInv
  <2>2. ASSUME NEW i \in InFlight
        PROVE  /\ At(i).op \in Operations /\ At(i).tok \in {None} \cup 0..MaxTokens
               /\ At(i).st \in {"sent", "ok", "err"}
    <3>1. Shaped(At(i))  BY <2>1, AtIsSent DEF AppInv, Calls
    <3> QED  BY <3>1 DEF Shaped, Tokens
  <2>3. Console!SocketType
    <3>1. sockets # <<>> => auth = "in" /\ page = "console"  BY <2>1 DEF AppInv
    <3>2. sockets = <<>> \/ Socketed(sockets)  BY <3>1, PagesTyped
    <3>3. sockets \in Seq(ConsoleSockets)
      <4>1. CASE sockets = <<>>  BY <4>1
      <4>2. CASE \E s \in ConsoleSockets : sockets = <<s>>
        <5>1. PICK s \in ConsoleSockets : sockets = <<s>>  BY <4>2
        <5>2. <<s>> \in Seq(ConsoleSockets)  BY <5>1
        <5> QED  BY <5>1, <5>2
      <4> QED  BY <3>2, <4>1, <4>2 DEF Socketed
    <3>4. Console!Statuses = Statuses  BY StatusesAre
    <3>5. ConsoleSockets
            = [st : {"connecting", "open", "ended"}, news : Console!Statuses \cup {None}]
      BY <3>4 DEF ConsoleSockets
    <3> QED  BY <3>3, <3>5 DEF Console!SocketType
  <2>4. /\ page \in Pages \cup {"login"} /\ auth \in {"checking", "anonymous", "in"}
        /\ token \in {None} \cup 0..MaxTokens /\ faults \in 0..MaxFaults /\ Theme!LookType
    BY <2>1 DEF AppInv, Held, Tokens
  <2> QED  BY <2>2, <2>3, <2>4, PagesTyped DEF TypeOK
<1> QED  BY <1>1, PanelInvariance, TypeInvariance, PTL

=============================================================================
