-------------------------- MODULE PanelWaitProofs ---------------------------
(***************************************************************************)
(* What a disabled button of the panel waits for: a call that is under way. *)
(* The invariants of PanelPageProofs bind what a page shows to who may be   *)
(* awaited there; here each page is shown to have the call in flight that   *)
(* enables its buttons again, after every step of the page, of another      *)
(* handler, of the session and of the theme.                                *)
(***************************************************************************)
EXTENDS PanelPageProofs

\* What is awaited after a step.
LEMMA StillAwaited ==
    ASSUME Calls(calls)
    PROVE  /\ \A i \in InFlight : \A h :
                h \in DOMAIN calls /\ h # i[1] =>
                  /\ h \in DOMAIN Without(i)
                  /\ \A k, c : h \in DOMAIN Add(Without(i), k, c)
           /\ \A i \in InFlight : \A h, c : h \in DOMAIN Add(Without(i), h, c)
           /\ \A h, k, c : h \in DOMAIN calls \/ h = k => h \in DOMAIN Add(calls, k, c)
           /\ \A i \in InFlight : \A h : Answers(i) /\ h \in DOMAIN calls => h \in DOMAIN calls'
<1>1. ASSUME NEW cs, NEW k, NEW c, Calls(cs)  PROVE DOMAIN Add(cs, k, c) = DOMAIN cs \cup {k}
  BY <1>1, Awaiting
<1>2. ASSUME NEW i \in InFlight
      PROVE  /\ \A h : h \in DOMAIN calls /\ h # i[1] =>
                         /\ h \in DOMAIN Without(i)
                         /\ \A k, c : h \in DOMAIN Add(Without(i), k, c)
             /\ \A h, c : h \in DOMAIN Add(Without(i), h, c)
  <2>1. WithoutIs(Without(i), calls, i[1])  BY WithoutKeeps DEF Calls
  <2>2. Calls(Without(i)) /\ DOMAIN calls \ {i[1]} \subseteq DOMAIN Without(i)
    BY <2>1 DEF WithoutIs, Calls
  <2>3. \A k, c : DOMAIN Add(Without(i), k, c) = DOMAIN Without(i) \cup {k}  BY <1>1, <2>2
  <2> QED  BY <2>2, <2>3
<1>3. ASSUME NEW h, NEW k, NEW c, h \in DOMAIN calls \/ h = k
      PROVE  h \in DOMAIN Add(calls, k, c)
  <2>1. DOMAIN Add(calls, k, c) = DOMAIN calls \cup {k}  BY <1>1
  <2> QED  BY <1>3, <2>1
<1>4. \A i \in InFlight : \A h : Answers(i) /\ h \in DOMAIN calls => h \in DOMAIN calls'
  BY DEF Answers, Update
<1> QED  BY <1>2, <1>3, <1>4, Zenon

\* Who awaits what beside a page.
LEMMA AwaitedAside ==
    ASSUME Calls(calls), NEW p, Own(p, calls), PageStays(p), NEW h \in Inner, Awaits(h)
    PROVE  Awaits(h)'
BY OwnAside DEF PageStays, Awaits

ConnectWaits == auth = "in" /\ page = "connect" /\ view.busy => Awaits("change")

LEMMA ConnectAwaits ==
    ASSUME PanelInv, ConnectInv, ConnectWaits, [Next]_vars
    PROVE  ConnectWaits'
<1> SUFFICES ASSUME auth' = "in", page' = "connect", view'.busy  PROVE "change" \in DOMAIN calls'
  BY DEF ConnectWaits, Awaits
<1>1. /\ AppInv /\ Calls(calls) /\ Known(calls) /\ token \in Tokens
      /\ PageSteps("connect") \/ PageStays("connect") \/ PageOpens("connect")
  BY PageCases
<1>2. CASE PageSteps("connect")
  <2>1. ConnectHold /\ (view.busy => "change" \in DOMAIN calls)
    BY <1>2 DEF PageSteps, ConnectInv, ConnectWaits, Awaits
  <2>2. ASSUME NEW i \in InFlight, Connect!Serve(i)  PROVE "change" \in DOMAIN calls'
    BY <1>1, <2>1, <2>2, ConnectApi, StillAwaited DEF Connect!Serve
  <2>3. ASSUME NEW i \in InFlight, Connect!SettleReload(i)  PROVE "change" \in DOMAIN calls'
    <3>1. i[1] # "change" /\ calls' = Without(i) /\ view'.busy = view.busy
      BY <2>1, <2>3, ConnectApi
      DEF Connect!SettleReload, Connect!Replied, Connect!Failed, ConnectHold
    <3> QED  BY <1>1, <2>1, <3>1, StillAwaited
  <2>4. ASSUME NEW i \in InFlight, Connect!SettleChange(i)  PROVE "change" \in DOMAIN calls'
    <3>1. calls' = Add(Without(i), "change", Call("serverConnect", None))
      BY <2>1, <2>4, ConnectApi DEF Connect!SettleChange, Connect!Reload, ConnectHold
    <3> QED  BY <1>1, <3>1, StillAwaited
  <2>5. ASSUME Connect!Next  PROVE "change" \in DOMAIN calls'
    <3>1. \E op : calls' = Add(calls, "change", Call(op, None))
      BY <2>5, ConnectApi DEF Connect!Next, Connect!Forward, Connect!Unforward,
        Connect!EnableRelay, Connect!DisableRelay, Connect!Press, Connect!Ask
    <3> QED  BY <1>1, <3>1, StillAwaited
  <2> QED
    BY <1>2, <2>2, <2>3, <2>4, <2>5 DEF PageSteps, PageStep, On, Connect!Settle
<1>3. CASE PageStays("connect")
  BY <1>1, <1>3, AwaitedAside, InnerNames DEF PageStays, ConnectInv, ConnectWaits, Awaits
<1>4. CASE PageOpens("connect")  BY <1>4 DEF PageOpens, Enter, Connect!Opening
<1> QED  BY <1>1, <1>2, <1>3, <1>4

LinksWaits == auth = "in" /\ page = "links" /\ view.busy # None => Awaits("change")

LEMMA LinksAwaits ==
    ASSUME PanelInv, LinksInv, LinksWaits, [Next]_vars
    PROVE  LinksWaits'
<1> SUFFICES ASSUME auth' = "in", page' = "links", view'.busy # None
             PROVE  "change" \in DOMAIN calls'
  BY DEF LinksWaits, Awaits
<1>1. /\ AppInv /\ Calls(calls) /\ Known(calls) /\ token \in Tokens
      /\ PageSteps("links") \/ PageStays("links") \/ PageOpens("links")
  BY PageCases
<1>2. CASE PageSteps("links")
  <2>1. LinksHold /\ (view.busy # None => "change" \in DOMAIN calls)
    BY <1>2 DEF PageSteps, LinksInv, LinksWaits, Awaits
  <2>2. ASSUME NEW i \in InFlight, Links!Serve(i)  PROVE "change" \in DOMAIN calls'
    BY <1>1, <2>1, <2>2, LinksApi, StillAwaited DEF Links!Serve
  <2>3. ASSUME NEW i \in InFlight, Links!SettleReload(i)  PROVE "change" \in DOMAIN calls'
    <3>1. /\ i[1] # "change" /\ view'.busy = view.busy
          /\ calls' = Without(i) \/ \E k, c : calls' = Add(Without(i), k, c)
      BY <2>1, <2>3, LinksApi
      DEF Links!SettleReload, Links!Replied, Links!Got, Links!Failed, Links!Ended,
        LinksHold, LinksViews
    <3> QED  BY <1>1, <2>1, <3>1, StillAwaited
  <2>4. ASSUME NEW i \in InFlight, Links!SettlePassword(i)  PROVE "change" \in DOMAIN calls'
    <3>1. /\ i[1] # "change" /\ view'.busy = view.busy
          /\ calls' = Without(i) \/ \E k, c : calls' = Add(Without(i), k, c)
      BY <2>1, <2>4, LinksApi
      DEF Links!SettlePassword, Links!Replied, Links!Got, Links!Failed, Links!Ended,
        LinksHold, LinksViews
    <3> QED  BY <1>1, <2>1, <3>1, StillAwaited
  <2>5. ASSUME NEW i \in InFlight, Links!SettleChange(i)  PROVE "change" \in DOMAIN calls'
    <3>1. \E c : calls' = Add(Without(i), "change", c)
      BY <2>1, <2>5, LinksApi DEF Links!SettleChange, LinksHold, LinksViews, Links!Reload
    <3> QED  BY <1>1, <3>1, StillAwaited
  <2>6. ASSUME Links!ChangePassword  PROVE "change" \in DOMAIN calls'
    <3>1. view'.busy = view.busy /\ (calls' = calls \/ \E k, c : calls' = Add(calls, k, c))
      BY <2>1, <2>6, LinksApi DEF LinksHold, LinksViews, Links!ChangePassword, Links!Ask
    <3> QED  BY <1>1, <2>1, <3>1, StillAwaited
  <2>7. ASSUME Links!Expire  PROVE "change" \in DOMAIN calls'
    <3>1. view'.busy = view.busy /\ (calls' = calls \/ \E k, c : calls' = Add(calls, k, c))
      BY <2>1, <2>7, LinksApi DEF LinksHold, LinksViews, Links!Expire
    <3> QED  BY <1>1, <2>1, <3>1, StillAwaited
  <2>8. ASSUME NEW provider, Links!RequestCode(provider) \/ Links!Unlink(provider)
        PROVE  "change" \in DOMAIN calls'
    <3>1. \E c : calls' = Add(calls, "change", c)  BY <2>8, LinksApi
      DEF Links!RequestCode, Links!Unlink, Links!Press, Links!Ask
    <3> QED  BY <1>1, <3>1, StillAwaited
  <2> QED
    BY <1>2, <2>8, <2>2, <2>3, <2>4, <2>5, <2>6, <2>7
    DEF PageSteps, PageStep, On, Links!Settle, Links!Next
<1>3. CASE PageStays("links")
  BY <1>1, <1>3, AwaitedAside, InnerNames DEF PageStays, LinksInv, LinksWaits, Awaits
<1>4. CASE PageOpens("links")  BY <1>4 DEF PageOpens, Enter, Links!Opening
<1> QED  BY <1>1, <1>2, <1>3, <1>4

BotsWaits == auth = "in" /\ page = "bots" /\ view.busy # None => Awaits("change")

LEMMA BotsAwaits ==
    ASSUME PanelInv, BotsInv, BotsWaits, [Next]_vars
    PROVE  BotsWaits'
<1> SUFFICES ASSUME auth' = "in", page' = "bots", view'.busy # None
             PROVE  "change" \in DOMAIN calls'
  BY DEF BotsWaits, Awaits
<1>1. /\ AppInv /\ Calls(calls) /\ Known(calls) /\ token \in Tokens
      /\ PageSteps("bots") \/ PageStays("bots") \/ PageOpens("bots")
  BY PageCases
<1>2. CASE PageSteps("bots")
  <2>1. Bots!Types /\ (view.busy # None => "change" \in DOMAIN calls)
    BY <1>2 DEF PageSteps, BotsInv, BotsWaits, Awaits
  <2>2. ASSUME NEW i \in InFlight, Bots!Serve(i)  PROVE "change" \in DOMAIN calls'
    BY <1>1, <2>1, <2>2, BotsApi, StillAwaited DEF Bots!Serve
  <2>3. ASSUME NEW i \in InFlight, Bots!SettleReload(i)  PROVE "change" \in DOMAIN calls'
    <3>1. /\ i[1] # "change" /\ view'.busy = view.busy
          /\ calls' = Without(i) \/ \E k, c : calls' = Add(Without(i), k, c)
      BY <2>1, <2>3, BotsApi
      DEF Bots!SettleReload, Bots!Replied, Bots!Got, Bots!Failed, Bots!Ended, Bots!Types,
        Bots!Read
    <3> QED  BY <1>1, <2>1, <3>1, StillAwaited
  <2>4. ASSUME NEW i \in InFlight, Bots!SettleChange(i)  PROVE "change" \in DOMAIN calls'
    <3>1. \E c : calls' = Add(Without(i), "change", c)
      BY <2>1, <2>4, BotsApi DEF Bots!SettleChange, Bots!Types, Bots!Reload, Bots!Read
    <3> QED  BY <1>1, <3>1, StillAwaited
  <2>5. ASSUME Bots!Follow  PROVE "change" \in DOMAIN calls'
    <3>1. view'.busy = view.busy /\ (calls' = calls \/ \E k, c : calls' = Add(calls, k, c))
      BY <2>1, <2>5, BotsApi DEF Bots!Types, Bots!Follow, Bots!Reload
    <3> QED  BY <1>1, <2>1, <3>1, StillAwaited
  <2>6. ASSUME NEW provider, NEW op, Bots!Press(op, provider)
        PROVE  "change" \in DOMAIN calls'
    <3>1. \E c : calls' = Add(calls, "change", c)  BY <2>6, BotsApi DEF Bots!Press, Bots!Ask
    <3> QED  BY <1>1, <3>1, StillAwaited
  <2> QED
    BY <1>2, <2>6, <2>2, <2>3, <2>4, <2>5
    DEF PageSteps, PageStep, On, Bots!Settle, Bots!Next
<1>3. CASE PageStays("bots")
  BY <1>1, <1>3, AwaitedAside, InnerNames DEF PageStays, BotsInv, BotsWaits, Awaits
<1>4. CASE PageOpens("bots")  BY <1>4 DEF PageOpens, Enter, Bots!Opening
<1> QED  BY <1>1, <1>2, <1>3, <1>4

FilesWaits == auth = "in" /\ page = "files" /\ view.saving => Awaits("save")

LEMMA FilesAwaits ==
    ASSUME PanelInv, FilesInv, FilesWaits, [Next]_vars
    PROVE  FilesWaits'
<1> SUFFICES ASSUME auth' = "in", page' = "files", view'.saving
             PROVE  "save" \in DOMAIN calls'
  BY DEF FilesWaits, Awaits
<1>1. /\ AppInv /\ Calls(calls) /\ Known(calls) /\ token \in Tokens
      /\ PageSteps("files") \/ PageStays("files") \/ PageOpens("files")
  BY PageCases
<1>2. CASE PageSteps("files")
  <2>1. FilesView /\ (view.saving => "save" \in DOMAIN calls)
    BY <1>2 DEF PageSteps, FilesInv, FilesWaits, Awaits
  <2>2. ASSUME NEW i \in InFlight, Files!Serve(i)  PROVE "save" \in DOMAIN calls'
    BY <1>1, <2>1, <2>2, FilesApi, StillAwaited DEF Files!Serve
  <2>3. ASSUME NEW i \in InFlight, Files!SettleLoad(i)  PROVE "save" \in DOMAIN calls'
    <3>1. /\ i[1] # "save" /\ view'.saving = view.saving
          /\ calls' = Without(i) \/ \E k, c : calls' = Add(Without(i), k, c)
      BY <2>1, <2>3, FilesApi
      DEF Files!SettleLoad, Files!Replied, Files!Got, Files!Failed, Files!Ended,
        FilesView, Files!Types
    <3> QED  BY <1>1, <2>1, <3>1, StillAwaited
  <2>4. ASSUME NEW i \in InFlight, Files!SettleRead(i)  PROVE "save" \in DOMAIN calls'
    <3>1. /\ i[1] # "save" /\ view'.saving = view.saving
          /\ calls' = Without(i) \/ \E k, c : calls' = Add(Without(i), k, c)
      BY <2>1, <2>4, FilesApi
      DEF Files!SettleRead, Files!Replied, Files!Got, Files!Failed, Files!Ended,
        FilesView, Files!Types
    <3> QED  BY <1>1, <2>1, <3>1, StillAwaited
  <2>5. ASSUME NEW i \in InFlight, Files!SettleSave(i)  PROVE "save" \in DOMAIN calls'
    BY <2>1, <2>5 DEF Files!SettleSave, FilesView, Files!Types
  <2>6. ASSUME NEW i \in InFlight, Files!SettleChange(i)  PROVE "save" \in DOMAIN calls'
    <3>1. /\ i[1] # "save" /\ view'.saving = view.saving
          /\ calls' = Without(i) \/ \E k, c : calls' = Add(Without(i), k, c)
      BY <2>1, <2>6, FilesApi
      DEF Files!SettleChange, Files!Replied, Files!Got, Files!Failed, Files!Ended,
        FilesView, Files!Types, Files!Load
    <3> QED  BY <1>1, <2>1, <3>1, StillAwaited
  <2>7. ASSUME NEW i \in InFlight, Files!SettleUpload(i)  PROVE "save" \in DOMAIN calls'
    <3>1. /\ i[1] # "save" /\ view'.saving = view.saving
          /\ calls' = Without(i) \/ \E k, c : calls' = Add(Without(i), k, c)
      BY <2>1, <2>7, FilesApi
      DEF Files!SettleUpload, Files!Replied, Files!Got, Files!Failed, Files!Ended,
        FilesView, Files!Types, Files!Load
    <3> QED  BY <1>1, <2>1, <3>1, StillAwaited
  <2>8. ASSUME Files!Save  PROVE "save" \in DOMAIN calls'
    <3>1. \E c : calls' = Add(calls, "save", c)  BY <2>8, FilesApi DEF Files!Save, Files!Ask
    <3> QED  BY <1>1, <3>1, StillAwaited
  <2>9. ASSUME Files!ReadFile  PROVE "save" \in DOMAIN calls'
    <3>1. view'.saving = view.saving /\ (calls' = calls \/ \E k, c : calls' = Add(calls, k, c))
      BY <2>1, <2>9, FilesApi DEF FilesView, Files!Types, Files!ReadFile, Files!Ask
    <3> QED  BY <1>1, <2>1, <3>1, StillAwaited
  <2>10. ASSUME Files!Cancel  PROVE "save" \in DOMAIN calls'
    <3>1. view'.saving = view.saving /\ (calls' = calls \/ \E k, c : calls' = Add(calls, k, c))
      BY <2>1, <2>10, FilesApi DEF FilesView, Files!Types, Files!Cancel
    <3> QED  BY <1>1, <2>1, <3>1, StillAwaited
  <2>11. ASSUME Files!Download  PROVE "save" \in DOMAIN calls'
    <3>1. view'.saving = view.saving /\ (calls' = calls \/ \E k, c : calls' = Add(calls, k, c))
      BY <2>1, <2>11, FilesApi DEF FilesView, Files!Types, Files!Download, Files!Ask
    <3> QED  BY <1>1, <2>1, <3>1, StillAwaited
  <2>12. ASSUME Files!Upload  PROVE "save" \in DOMAIN calls'
    <3>1. view'.saving = view.saving /\ (calls' = calls \/ \E k, c : calls' = Add(calls, k, c))
      BY <2>1, <2>12, FilesApi DEF FilesView, Files!Types, Files!Upload, Files!Ask
    <3> QED  BY <1>1, <2>1, <3>1, StillAwaited
  <2>13. ASSUME Files!DeleteFile \/ Files!MoveFile \/ Files!MakeDirectory \/ Files!Unarchive
         PROVE  "save" \in DOMAIN calls'
    <3>1. view'.saving = view.saving /\ (calls' = calls \/ \E k, c : calls' = Add(calls, k, c))
      BY <2>1, <2>13, FilesApi DEF FilesView, Files!Types, Files!DeleteFile, Files!MoveFile, Files!MakeDirectory,
        Files!Unarchive, Files!Change, Files!Ask
    <3> QED  BY <1>1, <2>1, <3>1, StillAwaited
  <2>14. ASSUME NEW target, Files!Open(target)  PROVE "save" \in DOMAIN calls'
    <3>1. view'.saving = view.saving /\ (calls' = calls \/ \E k, c : calls' = Add(calls, k, c))
      BY <2>1, <2>14, FilesApi DEF FilesView, Files!Types, Files!Open, Files!Load
    <3> QED  BY <1>1, <2>1, <3>1, StillAwaited
  <2> QED
    BY <1>2, <2>13, <2>14, <2>2, <2>3, <2>4, <2>5, <2>6, <2>7, <2>8, <2>9, <2>10, <2>11, <2>12
    DEF PageSteps, PageStep, On, Files!Settle, Files!Next
<1>3. CASE PageStays("files")
  BY <1>1, <1>3, AwaitedAside, InnerNames DEF PageStays, FilesInv, FilesWaits, Awaits
<1>4. CASE PageOpens("files")  BY <1>4 DEF PageOpens, Enter, Files!Opening
<1> QED  BY <1>1, <1>2, <1>3, <1>4

PropertiesWaits == auth = "in" /\ page = "properties" /\ view.saving => Awaits("save")

LEMMA PropertiesAwaits ==
    ASSUME PanelInv, PropertiesInv, PropertiesWaits, [Next]_vars
    PROVE  PropertiesWaits'
<1> SUFFICES ASSUME auth' = "in", page' = "properties", view'.saving
             PROVE  "save" \in DOMAIN calls'
  BY DEF PropertiesWaits, Awaits
<1>1. /\ AppInv /\ Calls(calls) /\ Known(calls) /\ token \in Tokens
      /\ PageSteps("properties") \/ PageStays("properties") \/ PageOpens("properties")
  BY PageCases
<1>2. CASE PageSteps("properties")
  <2>1. PropertiesHold /\ (view.saving => "save" \in DOMAIN calls)
    BY <1>2 DEF PageSteps, PropertiesInv, PropertiesWaits, Awaits
  <2>2. ASSUME NEW i \in InFlight, Properties!Serve(i)  PROVE "save" \in DOMAIN calls'
    BY <1>1, <2>1, <2>2, PropertiesApi, StillAwaited DEF Properties!Serve
  <2>3. ASSUME NEW i \in InFlight, Properties!SettleLoad(i)  PROVE "save" \in DOMAIN calls'
    <3>1. /\ i[1] # "save" /\ view'.saving = view.saving
          /\ calls' = Without(i) \/ \E k, c : calls' = Add(Without(i), k, c)
      BY <2>1, <2>3, PropertiesApi
      DEF Properties!SettleLoad, Properties!Replied, Properties!Got, Properties!Failed,
        Properties!Ended, PropertiesHold, Properties!Types
    <3> QED  BY <1>1, <2>1, <3>1, StillAwaited
  <2>4. ASSUME NEW i \in InFlight, Properties!SettleSave(i)  PROVE "save" \in DOMAIN calls'
    BY <2>1, <2>4 DEF Properties!SettleSave, PropertiesHold, Properties!Types
  <2>5. ASSUME Properties!Save  PROVE "save" \in DOMAIN calls'
    <3>1. \E c : calls' = Add(calls, "save", c)  BY <2>5, PropertiesApi
      DEF Properties!Save, Properties!Ask
    <3> QED  BY <1>1, <3>1, StillAwaited
  <2>6. ASSUME NEW value, Properties!Type(value)  PROVE "save" \in DOMAIN calls'
    <3>1. view'.saving = view.saving /\ (calls' = calls \/ \E k, c : calls' = Add(calls, k, c))
      BY <2>1, <2>6, PropertiesApi DEF PropertiesHold, Properties!Types, Properties!Type
    <3> QED  BY <1>1, <2>1, <3>1, StillAwaited
  <2> QED
    BY <1>2, <2>6, <2>2, <2>3, <2>4, <2>5
    DEF PageSteps, PageStep, On, Properties!Settle, Properties!Next
<1>3. CASE PageStays("properties")
  BY <1>1, <1>3, AwaitedAside, InnerNames DEF PageStays, PropertiesInv, PropertiesWaits, Awaits
<1>4. CASE PageOpens("properties")  BY <1>4 DEF PageOpens, Enter, Properties!Opening
<1> QED  BY <1>1, <1>2, <1>3, <1>4

OptionsWaits == auth = "in" /\ page = "options" /\ view.saving => Awaits("save")

LEMMA OptionsAwaits ==
    ASSUME PanelInv, OptionsInv, OptionsWaits, [Next]_vars
    PROVE  OptionsWaits'
<1> SUFFICES ASSUME auth' = "in", page' = "options", view'.saving
             PROVE  "save" \in DOMAIN calls'
  BY DEF OptionsWaits, Awaits
<1>1. /\ AppInv /\ Calls(calls) /\ Known(calls) /\ token \in Tokens
      /\ PageSteps("options") \/ PageStays("options") \/ PageOpens("options")
  BY PageCases
<1>2. CASE PageSteps("options")
  <2>1. OptionsHold /\ (view.saving => "save" \in DOMAIN calls)
    BY <1>2 DEF PageSteps, OptionsInv, OptionsWaits, Awaits
  <2>2. ASSUME NEW i \in InFlight, Options!Serve(i)  PROVE "save" \in DOMAIN calls'
    BY <1>1, <2>1, <2>2, OptionsApi, StillAwaited DEF Options!Serve
  <2>3. ASSUME NEW i \in InFlight, Options!SettleProxies(i)  PROVE "save" \in DOMAIN calls'
    <3>1. /\ i[1] # "save" /\ view'.saving = view.saving
          /\ calls' = Without(i) \/ \E k, c : calls' = Add(Without(i), k, c)
      BY <2>1, <2>3, OptionsApi
      DEF Options!SettleProxies, Options!Replied, Options!Got, Options!Failed,
        Options!Ended, OptionsHold, Options!Types
    <3> QED  BY <1>1, <2>1, <3>1, StillAwaited
  <2>4. ASSUME NEW i \in InFlight, Options!SettleSave(i)  PROVE "save" \in DOMAIN calls'
    BY <2>1, <2>4 DEF Options!SettleSave, OptionsHold, Options!Types
  <2>5. ASSUME Options!Save  PROVE "save" \in DOMAIN calls'
    <3>1. \E c : calls' = Add(calls, "save", c)  BY <2>5, OptionsApi DEF Options!Save, Options!Ask
    <3> QED  BY <1>1, <3>1, StillAwaited
  <2>6. ASSUME Options!Reset  PROVE "save" \in DOMAIN calls'
    <3>1. view'.saving = view.saving /\ (calls' = calls \/ \E k, c : calls' = Add(calls, k, c))
      BY <2>1, <2>6, OptionsApi DEF OptionsHold, Options!Types, Options!Reset
    <3> QED  BY <1>1, <2>1, <3>1, StillAwaited
  <2>7. ASSUME Options!HostMoves  PROVE "save" \in DOMAIN calls'
    <3>1. view'.saving = view.saving /\ (calls' = calls \/ \E k, c : calls' = Add(calls, k, c))
      BY <2>1, <2>7, OptionsApi DEF OptionsHold, Options!Types, Options!HostMoves
    <3> QED  BY <1>1, <2>1, <3>1, StillAwaited
  <2>8. ASSUME Options!ParentLearns  PROVE "save" \in DOMAIN calls'
    <3>1. view'.saving = view.saving /\ (calls' = calls \/ \E k, c : calls' = Add(calls, k, c))
      BY <2>1, <2>8, OptionsApi DEF OptionsHold, Options!Types, Options!ParentLearns
    <3> QED  BY <1>1, <2>1, <3>1, StillAwaited
  <2>9. ASSUME NEW options, Options!Edit(options)  PROVE "save" \in DOMAIN calls'
    <3>1. view'.saving = view.saving /\ (calls' = calls \/ \E k, c : calls' = Add(calls, k, c))
      BY <2>1, <2>9, OptionsApi DEF OptionsHold, Options!Types, Options!Edit
    <3> QED  BY <1>1, <2>1, <3>1, StillAwaited
  <2> QED
    BY <1>2, <2>9, <2>2, <2>3, <2>4, <2>5, <2>6, <2>7, <2>8
    DEF PageSteps, PageStep, On, Options!Settle, Options!Next
<1>3. CASE PageStays("options")
  BY <1>1, <1>3, AwaitedAside, InnerNames DEF PageStays, OptionsInv, OptionsWaits, Awaits
<1>4. CASE PageOpens("options")  BY <1>4 DEF PageOpens, Enter, Options!Opening
<1> QED  BY <1>1, <1>2, <1>3, <1>4

BackupsWaits == auth = "in" /\ page = "backups" /\ view.busy => Awaits("save") \/ Awaits("change")

LEMMA BackupsAwaits ==
    ASSUME PanelInv, BackupsInv, BackupsWaits, [Next]_vars
    PROVE  BackupsWaits'
<1> SUFFICES ASSUME auth' = "in", page' = "backups", view'.busy
             PROVE  "save" \in DOMAIN calls' \/ "change" \in DOMAIN calls'
  BY DEF BackupsWaits, Awaits
<1>1. /\ AppInv /\ Calls(calls) /\ Known(calls) /\ token \in Tokens
      /\ PageSteps("backups") \/ PageStays("backups") \/ PageOpens("backups")
  BY PageCases
<1>2. CASE PageSteps("backups")
  <2>1. BackupsHold /\ (view.busy => "save" \in DOMAIN calls \/ "change" \in DOMAIN calls)
    BY <1>2 DEF PageSteps, BackupsInv, BackupsWaits, Awaits
  <2>2. ASSUME NEW i \in InFlight, Backups!Serve(i)
        PROVE  "save" \in DOMAIN calls' \/ "change" \in DOMAIN calls'
    BY <1>1, <2>1, <2>2, BackupsApi, StillAwaited DEF Backups!Serve, Backups!ServeChange,
      Backups!ServeRead
  <2>3. ASSUME NEW i \in InFlight, Backups!SettleReload(i)
        PROVE  "save" \in DOMAIN calls' \/ "change" \in DOMAIN calls'
    <3>1. /\ i[1] = "reload" /\ view'.busy = view.busy
          /\ calls' = Without(i) \/ \E k, c : calls' = Add(Without(i), k, c)
      BY <2>1, <2>3, BackupsApi
      DEF Backups!SettleReload, Backups!Replied, Backups!Got, Backups!Failed,
        Backups!Ended, BackupsHold, Backups!Types
    <3>2. i[1] # "save" /\ i[1] # "change"  BY <3>1
    <3>3. CASE "save" \in DOMAIN calls  BY <1>1, <3>1, <3>2, <3>3, StillAwaited
    <3>4. CASE "change" \in DOMAIN calls  BY <1>1, <3>1, <3>2, <3>4, StillAwaited
    <3> QED  BY <2>1, <3>1, <3>3, <3>4
  <2>4. ASSUME NEW i \in InFlight, Backups!SettleChange(i)
        PROVE  "save" \in DOMAIN calls' \/ "change" \in DOMAIN calls'
    <3>1. \E c : calls' = Add(Without(i), "change", c)
      BY <2>1, <2>4, BackupsApi DEF Backups!SettleChange, BackupsHold, Backups!Types, Backups!Reload
    <3> QED  BY <1>1, <3>1, StillAwaited
  <2>5. ASSUME NEW i \in InFlight, Backups!SettleDownload(i)
        PROVE  "save" \in DOMAIN calls' \/ "change" \in DOMAIN calls'
    <3>1. /\ i[1] = "read" /\ view'.busy = view.busy
          /\ calls' = Without(i) \/ \E k, c : calls' = Add(Without(i), k, c)
      BY <2>1, <2>5, BackupsApi
      DEF Backups!SettleDownload, Backups!Replied, Backups!Got, Backups!Failed,
        Backups!Ended, BackupsHold, Backups!Types
    <3>2. i[1] # "save" /\ i[1] # "change"  BY <3>1
    <3>3. CASE "save" \in DOMAIN calls  BY <1>1, <3>1, <3>2, <3>3, StillAwaited
    <3>4. CASE "change" \in DOMAIN calls  BY <1>1, <3>1, <3>2, <3>4, StillAwaited
    <3> QED  BY <2>1, <3>1, <3>3, <3>4
  <2>6. ASSUME NEW i \in InFlight, Backups!SettleSchedule(i)
        PROVE  "save" \in DOMAIN calls' \/ "change" \in DOMAIN calls'
    <3>1. /\ i[1] = "effect" /\ view'.busy = view.busy
          /\ calls' = Without(i) \/ \E k, c : calls' = Add(Without(i), k, c)
      BY <2>1, <2>6, BackupsApi
      DEF Backups!SettleSchedule, Backups!Replied, Backups!Got, Backups!Failed,
        Backups!Ended, BackupsHold, Backups!Types
    <3>2. i[1] # "save" /\ i[1] # "change"  BY <3>1
    <3>3. CASE "save" \in DOMAIN calls  BY <1>1, <3>1, <3>2, <3>3, StillAwaited
    <3>4. CASE "change" \in DOMAIN calls  BY <1>1, <3>1, <3>2, <3>4, StillAwaited
    <3> QED  BY <2>1, <3>1, <3>3, <3>4
  <2>7. ASSUME NEW i \in InFlight, Backups!SettleSave(i)
        PROVE  "save" \in DOMAIN calls' \/ "change" \in DOMAIN calls'
    BY <2>1, <2>7 DEF Backups!SettleSave, BackupsHold, Backups!Types
  <2>8. ASSUME Backups!Tick \/ Backups!HostMoves \/ Backups!Download
        PROVE  "save" \in DOMAIN calls' \/ "change" \in DOMAIN calls'
    <3>1. view'.busy = view.busy /\ (calls' = calls \/ \E k, c : calls' = Add(calls, k, c))
      BY <2>1, <2>8, BackupsApi DEF BackupsHold, Backups!Types, Backups!Tick, Backups!HostMoves, Backups!Download,
        Backups!Reload, Backups!Ask
    <3> QED  BY <1>1, <2>1, <3>1, StillAwaited
  <2>9. ASSUME Backups!Create \/ Backups!Restore \/ Backups!Delete
        PROVE  "save" \in DOMAIN calls' \/ "change" \in DOMAIN calls'
    <3>1. \E c : calls' = Add(calls, "change", c)  BY <2>9, BackupsApi
      DEF Backups!Create, Backups!Restore,
        Backups!Delete, Backups!Press, Backups!Ask
    <3> QED  BY <1>1, <3>1, StillAwaited
  <2>10. ASSUME Backups!SaveSchedule
        PROVE  "save" \in DOMAIN calls' \/ "change" \in DOMAIN calls'
    <3>1. \E c : calls' = Add(calls, "save", c)  BY <2>10, BackupsApi
      DEF Backups!SaveSchedule, Backups!Ask
    <3> QED  BY <1>1, <3>1, StillAwaited
  <2>11. ASSUME NEW draft, Backups!Edit(draft)
        PROVE  "save" \in DOMAIN calls' \/ "change" \in DOMAIN calls'
    <3>1. view'.busy = view.busy /\ (calls' = calls \/ \E k, c : calls' = Add(calls, k, c))
      BY <2>1, <2>11, BackupsApi DEF BackupsHold, Backups!Types, Backups!Edit
    <3> QED  BY <1>1, <2>1, <3>1, StillAwaited
  <2> QED
    BY <1>2, <2>2, <2>3, <2>4, <2>5, <2>6, <2>7, <2>8, <2>9, <2>10, <2>11
    DEF PageSteps, PageStep, On, Backups!Settle, Backups!Next
<1>3. CASE PageStays("backups")
  BY <1>1, <1>3, AwaitedAside, InnerNames DEF PageStays, BackupsInv, BackupsWaits, Awaits
<1>4. CASE PageOpens("backups")  BY <1>4 DEF PageOpens, Enter, Backups!Opening
<1> QED  BY <1>1, <1>2, <1>3, <1>4

CatalogWaits == auth = "in" /\ page = "catalog" /\ view.busy => Awaits("save") \/ Awaits("change")

LEMMA CatalogAwaits ==
    ASSUME PanelInv, CatalogInv, CatalogWaits, [Next]_vars
    PROVE  CatalogWaits'
<1> SUFFICES ASSUME auth' = "in", page' = "catalog", view'.busy
             PROVE  "save" \in DOMAIN calls' \/ "change" \in DOMAIN calls'
  BY DEF CatalogWaits, Awaits
<1>1. /\ AppInv /\ Calls(calls) /\ Known(calls) /\ token \in Tokens
      /\ PageSteps("catalog") \/ PageStays("catalog") \/ PageOpens("catalog")
  BY PageCases
<1>2. CASE PageSteps("catalog")
  <2>1. CatalogHolds /\ (view.busy => "save" \in DOMAIN calls \/ "change" \in DOMAIN calls)
    BY <1>2 DEF PageSteps, CatalogInv, CatalogWaits, Awaits
  <2>2. ASSUME NEW i \in InFlight, Catalog!Serve(i)
        PROVE  "save" \in DOMAIN calls' \/ "change" \in DOMAIN calls'
    BY <1>1, <2>1, <2>2, CatalogApi, StillAwaited DEF Catalog!Serve
  <2>3. ASSUME NEW i \in InFlight, Catalog!SettleContent(i)
        PROVE  "save" \in DOMAIN calls' \/ "change" \in DOMAIN calls'
    <3>1. i[1] = "effect" /\ view'.busy = view.busy
      BY <2>1, <2>3 DEF Catalog!SettleContent, Catalog!Replied, Catalog!Failed, CatalogHolds, Catalog!Types
    <3>2. calls' = Without(i) \/ calls' = Forget(Without(i), {"search"})
      BY <2>3, CatalogApi DEF Catalog!SettleContent, Catalog!Superseded
    <3>3. "save" \in DOMAIN Without(i) \/ "change" \in DOMAIN Without(i)
      BY <1>1, <2>1, <3>1, StillAwaited
    <3>4. DOMAIN Forget(Without(i), {"search"}) = DOMAIN Without(i) \ {"search"}  BY DEF Forget
    <3> QED  BY <3>2, <3>3, <3>4
  <2>4. ASSUME NEW i \in InFlight, Catalog!SettleInstalled(i)
        PROVE  "save" \in DOMAIN calls' \/ "change" \in DOMAIN calls'
    <3>1. /\ i[1] = "reload" /\ view'.busy = view.busy
          /\ calls' = Without(i) \/ \E k, c : calls' = Add(Without(i), k, c)
      BY <2>1, <2>4, CatalogApi
      DEF Catalog!SettleInstalled, Catalog!Replied, Catalog!Got, Catalog!Failed,
        Catalog!Ended, CatalogHolds, Catalog!Types
    <3>2. i[1] # "save" /\ i[1] # "change"  BY <3>1
    <3>3. CASE "save" \in DOMAIN calls  BY <1>1, <3>1, <3>2, <3>3, StillAwaited
    <3>4. CASE "change" \in DOMAIN calls  BY <1>1, <3>1, <3>2, <3>4, StillAwaited
    <3> QED  BY <2>1, <3>1, <3>3, <3>4
  <2>5. ASSUME NEW i \in InFlight, Catalog!SettleSearch(i)
        PROVE  "save" \in DOMAIN calls' \/ "change" \in DOMAIN calls'
    <3>1. /\ i[1] = "search" /\ view'.busy = view.busy
          /\ calls' = Without(i) \/ \E k, c : calls' = Add(Without(i), k, c)
      BY <2>1, <2>5, CatalogApi
      DEF Catalog!SettleSearch, Catalog!Replied, Catalog!Got, Catalog!Failed,
        Catalog!Ended, CatalogHolds, Catalog!Types
    <3>2. i[1] # "save" /\ i[1] # "change"  BY <3>1
    <3>3. CASE "save" \in DOMAIN calls  BY <1>1, <3>1, <3>2, <3>3, StillAwaited
    <3>4. CASE "change" \in DOMAIN calls  BY <1>1, <3>1, <3>2, <3>4, StillAwaited
    <3> QED  BY <2>1, <3>1, <3>3, <3>4
  <2>6. ASSUME NEW i \in InFlight, Catalog!SettleInstall(i)
        PROVE  "save" \in DOMAIN calls' \/ "change" \in DOMAIN calls'
    <3>1. \E c : calls' = Add(Without(i), "save", c)
      BY <2>1, <2>6, CatalogApi, Zenon DEF Catalog!SettleInstall, CatalogHolds, Catalog!Types
    <3> QED  BY <1>1, <3>1, StillAwaited
  <2>7. ASSUME NEW i \in InFlight, Catalog!SettleChange(i)
        PROVE  "save" \in DOMAIN calls' \/ "change" \in DOMAIN calls'
    <3>1. \E c : calls' = Add(Without(i), "change", c)
      BY <2>1, <2>7, CatalogApi DEF Catalog!SettleChange, CatalogHolds, Catalog!Types, Catalog!ReloadInstalled
    <3> QED  BY <1>1, <3>1, StillAwaited
  <2>8. ASSUME NEW query, Catalog!TypeQuery(query)
        PROVE  "save" \in DOMAIN calls' \/ "change" \in DOMAIN calls'
    <3>1. view'.busy = view.busy /\ (calls' = calls \/ calls' = Forget(calls, {"search"}))
      BY <2>1, <2>8, CatalogApi DEF CatalogHolds, Catalog!Types, Catalog!TypeQuery, Catalog!Type,
        Catalog!Superseded
    <3>2. DOMAIN Forget(calls, {"search"}) = DOMAIN calls \ {"search"}  BY DEF Forget
    <3> QED  BY <2>1, <3>1, <3>2
  <2>9. ASSUME Catalog!Search \/ Catalog!Later
        PROVE  "save" \in DOMAIN calls' \/ "change" \in DOMAIN calls'
    <3>1. view'.busy = view.busy /\ (calls' = calls \/ \E k, c : calls' = Add(calls, k, c))
      BY <2>1, <2>9, CatalogApi DEF CatalogHolds, Catalog!Types, Catalog!Search, Catalog!Later,
        Catalog!ReloadInstalled
    <3> QED  BY <1>1, <2>1, <3>1, StillAwaited
  <2>10. ASSUME Catalog!Install
        PROVE  "save" \in DOMAIN calls' \/ "change" \in DOMAIN calls'
    <3>1. \E c : calls' = Add(calls, "save", c)  BY <2>10, CatalogApi, Zenon
      DEF Catalog!Install, Catalog!Ask
    <3> QED  BY <1>1, <3>1, StillAwaited
  <2>11. ASSUME Catalog!Toggle \/ Catalog!Delete
        PROVE  "save" \in DOMAIN calls' \/ "change" \in DOMAIN calls'
    <3>1. \E c : calls' = Add(calls, "change", c)  BY <2>11, CatalogApi DEF Catalog!Toggle,
        Catalog!Delete, Catalog!Change, Catalog!Ask
    <3> QED  BY <1>1, <3>1, StillAwaited
  <2> QED
    BY <1>2, <2>2, <2>3, <2>4, <2>5, <2>6, <2>7, <2>8, <2>9, <2>10, <2>11
    DEF PageSteps, PageStep, On, Catalog!Settle, Catalog!Next
<1>3. CASE PageStays("catalog")
  BY <1>1, <1>3, AwaitedAside, InnerNames DEF PageStays, CatalogInv, CatalogWaits, Awaits
<1>4. CASE PageOpens("catalog")  BY <1>4 DEF PageOpens, Enter, Catalog!Opening
<1> QED  BY <1>1, <1>2, <1>3, <1>4

ModpacksWaits == auth = "in" /\ page = "modpacks" /\ view.busy => Awaits("save")

\* An installation that is over leaves the button.
LEMMA ModpacksFollows ==
    ASSUME ModpacksHolds, NEW task, view' = [view EXCEPT !.busy = FALSE, !.task = task]
    PROVE  view'.busy = FALSE
<1>1. view \in [box : Catalog!BoxType, busy : {view.busy}, task : {view.task}]
  BY DEF ModpacksHolds
<1> DEFINE half == [view EXCEPT !.busy = FALSE]
<1>2. half \in [box : Catalog!BoxType, busy : {FALSE}, task : {view.task}]
  BY <1>1
<1>3. view' = [half EXCEPT !.task = task]  BY Zenon
<1> HIDE DEF half
<1> QED  BY <1>2, <1>3

LEMMA ModpacksAwaits ==
    ASSUME PanelInv, ModpacksInv, ModpacksWaits, [Next]_vars
    PROVE  ModpacksWaits'
<1> SUFFICES ASSUME auth' = "in", page' = "modpacks", view'.busy  PROVE "save" \in DOMAIN calls'
  BY DEF ModpacksWaits, Awaits
<1>1. /\ AppInv /\ Calls(calls) /\ Known(calls) /\ token \in Tokens
      /\ PageSteps("modpacks") \/ PageStays("modpacks") \/ PageOpens("modpacks")
  BY PageCases
<1>2. CASE PageSteps("modpacks")
  <2>1. ModpacksHolds /\ (view.busy => "save" \in DOMAIN calls)
    BY <1>2 DEF PageSteps, ModpacksInv, ModpacksWaits, Awaits
  <2>2. ASSUME NEW i \in InFlight, Modpacks!Serve(i)  PROVE "save" \in DOMAIN calls'
    BY <1>1, <2>1, <2>2, ModpacksApi, StillAwaited, Zenon DEF Modpacks!Serve
  <2>3. ASSUME NEW i \in InFlight, Modpacks!SettleInstalled(i)  PROVE "save" \in DOMAIN calls'
    <3>1. i[1] # "save" /\ calls' = Without(i) /\ view'.busy = view.busy
      BY <2>1, <2>3, ModpacksApi
      DEF Modpacks!SettleInstalled, Modpacks!Ended, Modpacks!Replied, Modpacks!Failed
    <3> QED  BY <1>1, <2>1, <3>1, StillAwaited
  <2>4. ASSUME NEW i \in InFlight, Modpacks!SettleSearch(i)  PROVE "save" \in DOMAIN calls'
    <3>1. i[1] # "save" /\ calls' = Without(i) /\ view'.busy = view.busy
      BY <2>1, <2>4, ModpacksApi
      DEF Modpacks!SettleSearch, Modpacks!Replied, Modpacks!Failed, ModpacksHolds
    <3> QED  BY <1>1, <2>1, <3>1, StillAwaited
  <2>5. ASSUME NEW i \in InFlight, Modpacks!SettleInstall(i)  PROVE "save" \in DOMAIN calls'
    <3>1. view' = [view EXCEPT !.busy = FALSE] => view'.busy = FALSE
      BY <2>1 DEF ModpacksHolds
    <3>2. \E c : calls' = Add(Without(i), "save", c)
      BY <2>1, <2>5, <3>1, ModpacksFollows, ModpacksApi, Zenon DEF Modpacks!SettleInstall
    <3> QED  BY <1>1, <3>2, StillAwaited
  <2>6. ASSUME NEW i \in InFlight, Modpacks!SettlePoll(i)  PROVE "save" \in DOMAIN calls'
    <3>1. /\ i[1] # "save" /\ view'.busy = view.busy
          /\ calls' = Without(i) \/ \E k, c : calls' = Add(Without(i), k, c)
      BY <2>1, <2>6, ModpacksApi
      DEF Modpacks!SettlePoll, Modpacks!Replied, Modpacks!Failed,
        Modpacks!ReloadInstalled, ModpacksHolds
    <3> QED  BY <1>1, <2>1, <3>1, StillAwaited
  <2>7. ASSUME NEW query, NEW ready, Modpacks!Type(query, ready)  PROVE "save" \in DOMAIN calls'
    <3>1. view'.busy = view.busy /\ (calls' = calls \/ calls' = Forget(calls, {"search"}))
      BY <2>1, <2>7, ModpacksApi DEF ModpacksHolds, Modpacks!Type, Modpacks!Superseded
    <3>2. DOMAIN Forget(calls, {"search"}) = DOMAIN calls \ {"search"}  BY DEF Forget
    <3> QED  BY <2>1, <3>1, <3>2
  <2>8. ASSUME Modpacks!Search \/ Modpacks!Poll \/ Modpacks!HostMoves
        PROVE  "save" \in DOMAIN calls'
    <3>1. view'.busy = view.busy /\ (calls' = calls \/ \E k, c : calls' = Add(calls, k, c))
      BY <2>1, <2>8, ModpacksApi
      DEF ModpacksHolds, Modpacks!Search, Modpacks!Poll, Modpacks!HostMoves
    <3> QED  BY <1>1, <2>1, <3>1, StillAwaited
  <2>9. ASSUME Modpacks!Install  PROVE "save" \in DOMAIN calls'
    <3>1. \E c : calls' = Add(calls, "save", c)
      BY <2>9, ModpacksApi, Zenon DEF Modpacks!Install, Modpacks!Ask
    <3> QED  BY <1>1, <3>1, StillAwaited
  <2> QED
    BY <1>2, <2>2, <2>3, <2>4, <2>5, <2>6, <2>7, <2>8, <2>9
    DEF PageSteps, PageStep, On, Modpacks!Settle, Modpacks!Next
<1>3. CASE PageStays("modpacks")
  BY <1>1, <1>3, AwaitedAside, InnerNames DEF PageStays, ModpacksInv, ModpacksWaits, Awaits
<1>4. CASE PageOpens("modpacks")  BY <1>4 DEF PageOpens, Enter, Modpacks!Opening
<1> QED  BY <1>1, <1>2, <1>3, <1>4

-----------------------------------------------------------------------------
\* What is under way after a step.
LEMMA StillSent ==
    ASSUME Calls(calls), NEW x \in Sent(calls)
    PROVE  /\ \A i \in InFlight : x # <<i[1], At(i)>> =>
                /\ x \in Sent(Without(i))
                /\ \A k, c : x \in Sent(Add(Without(i), k, c))
           /\ \A k, c : x \in Sent(Add(calls, k, c))
           /\ \A i \in InFlight : Answers(i) => \E y \in Sent(calls') : SameCall(y, x)
<1>1. Queues(calls)  BY DEF Calls
<1>2. ASSUME NEW i \in InFlight, x # <<i[1], At(i)>>
      PROVE  /\ x \in Sent(Without(i))
             /\ \A k, c : x \in Sent(Add(Without(i), k, c))
  <2>1. x \in Sent(Without(i))  BY <1>1, <1>2, OthersStay
  <2>2. Queues(Without(i))  BY <1>1, WithoutKeeps DEF WithoutIs
  <2>3. ASSUME NEW k, NEW c  PROVE x \in Sent(Add(Without(i), k, c))
    <3>1. AddIs(Add(Without(i), k, c), Without(i), k, c)  BY <2>2, AddKeeps
    <3> QED  BY <2>1, <3>1 DEF AddIs
  <2> QED  BY <2>1, <2>3
<1>3. ASSUME NEW k, NEW c  PROVE x \in Sent(Add(calls, k, c))
  <2>1. AddIs(Add(calls, k, c), calls, k, c)  BY <1>1, AddKeeps
  <2> QED  BY <2>1 DEF AddIs
<1>4. ASSUME NEW i \in InFlight, Answers(i)  PROVE \E y \in Sent(calls') : SameCall(y, x)
  <2>1. PICK st, val : Update(i, Answered(At(i), st, val))  BY <1>4 DEF Answers
  <2> DEFINE c == Answered(At(i), st, val)
  <2>2. c.op = At(i).op /\ c.arg = At(i).arg  BY AnswerMade
  <2> HIDE DEF c
  <2>3. /\ <<i[1], c>> \in Sent(calls')
        /\ x = <<i[1], At(i)>> \/ x \in Sent(calls')
    BY <1>1, <2>1, AnswerStays DEF c
  <2>4. CASE x = <<i[1], At(i)>>
    <3>1. SameCall(<<i[1], c>>, x)  BY <2>2, <2>4 DEF SameCall
    <3> QED  BY <2>3, <3>1
  <2>5. CASE x \in Sent(calls')  BY <2>5 DEF SameCall
  <2> QED  BY <2>3, <2>4, <2>5
<1> QED  BY <1>2, <1>3, <1>4, Zenon

\* What is under way beside a page.
LEMMA SentAside ==
    ASSUME NEW x \in Sent(calls), x[1] \in Inner, auth = "in", Aside(calls')
    PROVE  \E y \in Sent(calls') : SameCall(y, x)
<1>1. Inner \cap Around = {}  BY DEF Inner, Around, Lasting, Theme!Handlers
<1> QED  BY <1>1 DEF Aside, Beside

Loads(cs) == \E x \in Sent(cs) : x[1] \in Inner /\ x[2].op = "listUsers"

AdminWaits ==
    auth = "in" /\ page = "admin" =>
      /\ view.busy # None => Awaits("change")
      /\ view.loading => Loads(calls)

LEMMA AdminAwaits ==
    ASSUME PanelInv, AdminInv, AdminWaits, [Next]_vars
    PROVE  AdminWaits'
<1> SUFFICES ASSUME auth' = "in", page' = "admin"
             PROVE  /\ view'.busy # None => "change" \in DOMAIN calls'
                    /\ view'.loading => Loads(calls')
  BY DEF AdminWaits, Awaits
<1>1. /\ AppInv /\ Calls(calls) /\ Known(calls) /\ token \in Tokens
      /\ PageSteps("admin") \/ PageStays("admin") \/ PageOpens("admin")
  BY PageCases
<1>2. ASSUME Loads(calls), \E i \in InFlight : Answers(i)  PROVE Loads(calls')
  <2>1. PICK x \in Sent(calls) : x[1] \in Inner /\ x[2].op = "listUsers"  BY <1>2 DEF Loads
  <2>2. \E y \in Sent(calls') : SameCall(y, x)  BY <1>1, <1>2, <2>1, StillSent
  <2> QED  BY <2>1, <2>2 DEF Loads, SameCall
<1>3. ASSUME Loads(calls), NEW h, NEW c, calls' = Add(calls, h, c)  PROVE Loads(calls')
  BY <1>1, <1>3, StillSent DEF Loads
<1>4. ASSUME Loads(calls), NEW i \in InFlight, At(i).op # "listUsers", calls' = Without(i)
      PROVE  Loads(calls')
  <2>1. PICK x \in Sent(calls) : x[1] \in Inner /\ x[2].op = "listUsers"  BY <1>4 DEF Loads
  <2>2. x # <<i[1], At(i)>>  BY <1>4, <2>1
  <2>3. x \in Sent(calls')  BY <1>1, <1>4, <2>2, StillSent
  <2> QED  BY <2>1, <2>3 DEF Loads
<1>5. ASSUME NEW cs, Calls(cs), NEW h \in Inner, calls' = Add(cs, h, Call("listUsers", None))
      PROVE  Loads(calls')
  <2>1. AddIs(calls', cs, h, Call("listUsers", None))  BY <1>5, AddKeeps DEF Calls
  <2>2. <<h, Call("listUsers", None)>> \in Sent(calls')  BY <2>1 DEF AddIs
  <2>3. Call("listUsers", None).op = "listUsers"  BY CallMade
  <2> QED  BY <2>2, <2>3 DEF Loads
<1>6. CASE PageSteps("admin")
  <2>1. /\ AdminHold /\ (view.busy # None => "change" \in DOMAIN calls)
        /\ view.loading => Loads(calls)
    BY <1>6 DEF PageSteps, AdminInv, AdminWaits, Awaits
  <2>2. view \in AdminViews  BY <2>1 DEF AdminHold
  <2>3. ASSUME NEW i \in InFlight, Admin!Serve(i)
        PROVE  /\ view'.busy # None => "change" \in DOMAIN calls'
               /\ view'.loading => Loads(calls')
    <3>1. Answers(i) /\ view' = view
      BY <2>3, AdminAnswers, AdminApi DEF Admin!Serve, Answers
    <3> QED  BY <1>1, <1>2, <2>1, <3>1, StillAwaited
  <2>4. ASSUME NEW i \in InFlight, Admin!SettleReload(i)
        PROVE  /\ view'.busy # None => "change" \in DOMAIN calls'
               /\ view'.loading => Loads(calls')
    <3>1. i[1] # "change" /\ calls' = Without(i) /\ view'.busy = view.busy /\ ~view'.loading
      BY <2>2, <2>4, AdminApi
      DEF Admin!SettleReload, Admin!Replied, Admin!Failed, AdminViews
    <3> QED  BY <1>1, <2>1, <3>1, StillAwaited
  <2>5. ASSUME NEW i \in InFlight, Admin!SettleChange(i)
        PROVE  /\ view'.busy # None => "change" \in DOMAIN calls'
               /\ view'.loading => Loads(calls')
    <3>1. \/ calls' = Add(Without(i), "change", Call("listUsers", None))
          \/ /\ calls' = Without(i)
             /\ view' = [view EXCEPT !.busy = None, !.loading = @ /\ At(i).op # "listUsers"]
          \/ /\ calls' = Without(i)
             /\ view' = [users |-> At(i).val, loading |-> FALSE, busy |-> None]
      BY <2>5, AdminApi DEF Admin!SettleChange, Admin!Reload
    <3>2. CASE calls' = Add(Without(i), "change", Call("listUsers", None))
      <4>1. Calls(Without(i))  BY <1>1, WithoutKeeps DEF WithoutIs, Calls
      <4> QED  BY <1>1, <1>5, <3>2, <4>1, InnerNames, StillAwaited
    <3>3. CASE /\ calls' = Without(i)
               /\ view' = [view EXCEPT !.busy = None, !.loading = @ /\ At(i).op # "listUsers"]
      <4>1. view'.busy = None /\ view'.loading = (view.loading /\ At(i).op # "listUsers")
        BY <2>2, <3>3 DEF AdminViews
      <4>2. ASSUME view.loading, At(i).op # "listUsers"  PROVE Loads(calls')
        BY <1>4, <2>1, <3>3, <4>2
      <4> QED  BY <4>1, <4>2
    <3>4. CASE view' = [users |-> At(i).val, loading |-> FALSE, busy |-> None]  BY <3>4
    <3> QED  BY <3>1, <3>2, <3>3, <3>4
  <2>6. ASSUME Admin!Next
        PROVE  /\ view'.busy # None => "change" \in DOMAIN calls'
               /\ view'.loading => Loads(calls')
    <3>1. PICK op, row : /\ calls' = Add(calls, "change", Call(op, row))
                         /\ view' = [view EXCEPT !.busy = row]
      BY <2>6, AdminApi
      DEF Admin!Next, Admin!Create, Admin!Patch, Admin!DeleteUser, Admin!Press, Admin!Ask
    <3>2. view'.loading = view.loading  BY <2>2, <3>1 DEF AdminViews
    <3> QED  BY <1>1, <1>3, <2>1, <3>1, <3>2, StillAwaited
  <2> QED
    BY <1>6, <2>3, <2>4, <2>5, <2>6 DEF PageSteps, PageStep, On, Admin!Settle
<1>7. CASE PageStays("admin")
  <2>1. /\ AdminHold /\ (view.busy # None => Awaits("change")) /\ Own("admin", calls)
        /\ view.loading => Loads(calls)
    BY <1>7 DEF PageStays, AdminInv, AdminWaits
  <2>2. view' = view  BY <1>7 DEF PageStays
  <2>3. view.busy # None => "change" \in DOMAIN calls'
    BY <1>1, <1>7, <2>1, AwaitedAside, InnerNames DEF Awaits
  <2>4. ASSUME view.loading  PROVE Loads(calls')
    <3>1. PICK x \in Sent(calls) : x[1] \in Inner /\ x[2].op = "listUsers"
      BY <2>1, <2>4 DEF Loads
    <3>2. \E y \in Sent(calls') : SameCall(y, x)  BY <1>7, <3>1, SentAside DEF PageStays
    <3> QED  BY <3>1, <3>2 DEF Loads, SameCall
  <2> QED  BY <2>2, <2>3, <2>4
<1>8. CASE PageOpens("admin")
  <2>1. PICK cs : Fit(cs) /\ Enter("admin", cs)  BY <1>8 DEF PageOpens
  <2>2. view' = Admin!Opening /\ calls' = Add(cs, "reload", Call("listUsers", None))
    BY <2>1, AdminApi DEF Enter, Admin!FirstCalls, Admin!Reload
  <2>3. Loads(calls')  BY <1>5, <2>1, <2>2, InnerNames DEF Fit
  <2> QED  BY <2>2, <2>3 DEF Admin!Opening
<1> QED  BY <1>1, <1>6, <1>7, <1>8

-----------------------------------------------------------------------------
PowerAsked(cs, id) == \E x \in Sent(cs) : x[1] = "change" /\ x[2].arg = id

\* The form is there, or something it asked for is.
FormUp == view.form # None \/ {"effect", "versions", "save"} \cap DOMAIN calls # {}

PressedAsk ==
    /\ \A id \in view.busy : PowerAsked(calls, id)
    /\ FormUp /\ view.form.busy => "save" \in DOMAIN calls

ServersWaits == auth = "in" /\ page = "servers" => PressedAsk

\* What the list and the form ask leaves alone what others await.
LEMMA ServersBeside ==
    ASSUME token \in Tokens, Calls(calls), NEW hs,
           {"reload", "effect", "versions", "orphan"} \subseteq hs
    PROVE  /\ Beside(calls, calls, hs, {})
           /\ \A i \in InFlight : i[1] \in hs => Beside(Without(i), calls, hs, {})
           /\ \A ds : Beside(ds, calls, hs, {}) =>
                /\ Beside(Servers!Reload(ds), calls, hs, {})
                /\ Beside(Add(ds, "effect", Call("listCores", None)), calls, hs, {})
                /\ \A core : Beside(Servers!AskVersions(ds, core), calls, hs, {})
                /\ "save" \in hs => Beside(Servers!CloseForm(ds), calls, hs, {})
<1>1. /\ Beside(calls, calls, hs, {})
      /\ \A i \in InFlight : i[1] \in hs => Beside(Without(i), calls, hs, {})
  BY BesideSteps
<1>2. ASSUME NEW ds, Beside(ds, calls, hs, {})
      PROVE  /\ Beside(Servers!Reload(ds), calls, hs, {})
             /\ Beside(Add(ds, "effect", Call("listCores", None)), calls, hs, {})
             /\ \A core : Beside(Servers!AskVersions(ds, core), calls, hs, {})
             /\ "save" \in hs => Beside(Servers!CloseForm(ds), calls, hs, {})
  <2>1. Beside(Servers!Reload(ds), calls, hs, {})
    BY <1>2, BesideSteps, OperationNames, ServersApi DEF Servers!Reload
  <2>2. Beside(Add(ds, "effect", Call("listCores", None)), calls, hs, {})
    BY <1>2, BesideSteps, OperationNames
  <2>3. ASSUME NEW core  PROVE Beside(Servers!AskVersions(ds, core), calls, hs, {})
    <3>1. Beside(Forget(ds, {"versions"}), calls, hs, {})  BY <1>2, BesideSteps
    <3> QED  BY <3>1, BesideSteps, OperationNames, ServersApi DEF Servers!AskVersions
  <2>4. ASSUME "save" \in hs  PROVE Beside(Servers!CloseForm(ds), calls, hs, {})
    <3>1. Beside(Forget(ds, {"effect", "versions"}), calls, hs, {})  BY <1>2, BesideSteps
    <3> QED  BY <2>4, <3>1, BesideSteps, ServersApi DEF Servers!CloseForm
  <2> QED  BY <2>1, <2>2, <2>3, <2>4
<1> QED  BY <1>1, <1>2

\* What was pressed is asked as before, when neither handler is among hs.
LEMMA PressedKept ==
    ASSUME NEW hs, Beside(calls', calls, hs, {}), "change" \notin hs,
           \A id \in view.busy : PowerAsked(calls, id), view'.busy \subseteq view.busy,
           \/ /\ "save" \notin hs
              /\ FormUp /\ view.form.busy => "save" \in DOMAIN calls
              /\ FormUp' => FormUp
              /\ view'.form.busy = view.form.busy
           \/ ~FormUp' \/ ~view'.form.busy \/ "save" \in DOMAIN calls'
    PROVE  PressedAsk'
<1>1. ASSUME NEW id \in view'.busy  PROVE PowerAsked(calls', id)
  <2>1. PICK x \in Sent(calls) : x[1] = "change" /\ x[2].arg = id  BY <1>1 DEF PowerAsked
  <2>2. \E y \in Sent(calls') : SameCall(y, x)  BY <2>1 DEF Beside
  <2> QED  BY <2>1, <2>2 DEF PowerAsked, SameCall
<1>2. "save" \notin hs => ("save" \in DOMAIN calls' <=> "save" \in DOMAIN calls)  BY DEF Beside
<1> QED  BY <1>1, <1>2 DEF PressedAsk

\* What the form asked for, when others ask or are answered.
LEMMA FormAsideOf ==
    ASSUME token \in Tokens, Calls(calls), view'.form = view.form
    PROVE  /\ DOMAIN calls' \subseteq DOMAIN calls \cup {"reload", "change"} => (FormUp' => FormUp)
           /\ \A i \in InFlight :
                calls' = Without(i) \/ calls' = Servers!Reload(Without(i)) => (FormUp' => FormUp)
           /\ calls' = Servers!Reload(calls) => (FormUp' => FormUp)
<1>1. DOMAIN calls' \subseteq DOMAIN calls \cup {"reload", "change"} => (FormUp' => FormUp)
  BY DEF FormUp
<1>2. ASSUME NEW cs, Calls(cs)  PROVE DOMAIN Servers!Reload(cs) = DOMAIN cs \cup {"reload"}
  BY <1>2, Awaiting, ServersApi, Zenon DEF Servers!Reload
<1>3. ASSUME NEW i \in InFlight,
             calls' = Without(i) \/ calls' = Servers!Reload(Without(i))
      PROVE  FormUp' => FormUp
  <2>1. Calls(Without(i)) /\ DOMAIN Without(i) \subseteq DOMAIN calls
    BY WithoutKeeps DEF WithoutIs, Calls
  <2> QED  BY <1>1, <1>2, <1>3, <2>1
<1>4. calls' = Servers!Reload(calls) => (FormUp' => FormUp)  BY <1>1, <1>2
<1> QED  BY <1>1, <1>3, <1>4

\* What was pressed when a handler goes on.
LEMMA PressedSettled ==
    ASSUME token \in Tokens, Calls(calls), Own("servers", calls), ServersView, FormAwaits,
           PressedAsk, NEW i \in InFlight, Servers!Settle(i)
    PROVE  PressedAsk'
<1> DEFINE hs == {"reload", "effect", "versions", "orphan"}
           all == {"reload", "effect", "versions", "orphan", "save"}
<1>1. i[1] \in DOMAIN calls  BY OwnAt
<1>2. /\ \A id \in view.busy : PowerAsked(calls, id)
      /\ FormUp /\ view.form.busy => "save" \in DOMAIN calls
  BY DEF PressedAsk
<1>3. view = [servers |-> view.servers, busy |-> view.busy, form |-> view.form]
  BY DEF ServersView
<1>4. CASE Servers!SettleReload(i)
  <2>1. /\ i[1] = "reload" /\ calls' = Without(i)
        /\ view'.busy \subseteq view.busy /\ view'.form = view.form
    BY <1>3, <1>4, ServersApi DEF Servers!SettleReload, Servers!Replied, Servers!Failed
  <2>2. Beside(calls', calls, hs, {})  BY <2>1, ServersBeside
  <2>3. FormUp' => FormUp  BY <2>1, FormAsideOf
  <2> QED  BY <1>2, <2>1, <2>2, <2>3, PressedKept
<1>5. CASE Servers!SettlePower(i)
  <2>1. /\ i[1] = "change" /\ (calls' = Without(i) \/ calls' = Servers!Reload(Without(i)))
        /\ view'.busy = view.busy \ {At(i).arg} /\ view'.form = view.form
    BY <1>3, <1>5, ServersApi DEF Servers!SettlePower, Servers!Replied, Servers!Failed
  <2>2. \/ calls' = Without(i)
        \/ calls' = Add(Without(i), "reload", Call("listServers", None))
    BY <2>1, ServersApi DEF Servers!Reload
  <2>3. ASSUME NEW id \in view'.busy  PROVE PowerAsked(calls', id)
    <3>1. id \in view.busy /\ id # At(i).arg  BY <2>1, <2>3
    <3>2. PICK x \in Sent(calls) : x[1] = "change" /\ x[2].arg = id  BY <1>2, <3>1 DEF PowerAsked
    <3>3. x # <<i[1], At(i)>>  BY <3>1, <3>2
    <3>4. x \in Sent(calls')  BY <2>2, <3>3, StillSent
    <3> QED  BY <3>2, <3>4 DEF PowerAsked
  <2>4. FormUp' /\ view'.form.busy => "save" \in DOMAIN calls'
    BY <1>2, <2>1, <2>2, FormAsideOf, StillAwaited
  <2> QED  BY <2>1, <2>3, <2>4 DEF PressedAsk
<1>6. CASE Servers!SettleCores(i)
  <2>1. i[1] = "effect"  BY <1>6, Zenon DEF Servers!SettleCores, Servers!Replied, Servers!Failed
  <2>2. FormHolds(view.form)  BY <1>1, <2>1 DEF FormAwaits
  <2>3. calls' = Without(i) \/ \E core : calls' = Servers!AskVersions(Without(i), core)
    BY <1>6, ServersApi, Zenon DEF Servers!SettleCores
  <2>4. Beside(calls', calls, hs, {})  BY <2>1, <2>3, ServersBeside
  <2>5. \/ view' = view
        \/ view' = [view EXCEPT !.form = [view.form EXCEPT !.cores = At(i).val]]
        \/ \E core : view' = [view EXCEPT !.form = [[view.form EXCEPT !.cores = At(i).val]
                                                      EXCEPT !.core = core, !.listed = None]]
    BY <1>6, ServersApi, Zenon DEF Servers!SettleCores, Servers!Failed
  <2>6. ASSUME NEW core, NEW listed, Formed(Reformed(view.form, At(i).val, core, listed))
        PROVE  view'.busy = view.busy /\ view'.form.busy = view.form.busy
    <3>1. Reformed(view.form, At(i).val, core, listed) =
            [core |-> core, cores |-> At(i).val, listed |-> listed,
             version |-> view.form.version, busy |-> view.form.busy]
      BY <2>2, FormIs
    <3> QED  BY <2>6, <3>1 DEF Formed
  <2>7. view' = view \/ \E core, listed : Formed(Reformed(view.form, At(i).val, core, listed))
    <3>1. ASSUME view' = [view EXCEPT !.form = [view.form EXCEPT !.cores = At(i).val]]
          PROVE  Formed(Reformed(view.form, At(i).val, view.form.core, view.form.listed))
      BY <2>2, <3>1 DEF Formed, Reformed, ServersView, FormHolds
    <3>2. ASSUME NEW core,
                 view' = [view EXCEPT !.form = [[view.form EXCEPT !.cores = At(i).val]
                                                  EXCEPT !.core = core, !.listed = None]]
          PROVE  Formed(Reformed(view.form, At(i).val, core, None))
      BY <2>2, <3>2 DEF Formed, Reformed, ServersView, FormHolds
    <3> QED  BY <2>5, <3>1, <3>2, Zenon
  <2>8. view'.busy = view.busy /\ view'.form.busy = view.form.busy  BY <2>6, <2>7
  <2>9. FormUp  BY <1>1, <2>1 DEF FormUp
  <2> QED  BY <1>2, <2>4, <2>8, <2>9, PressedKept
<1>7. CASE Servers!SettleVersions(i)
  <2>1. i[1] = "versions" /\ calls' = Without(i)
    BY <1>7, ServersApi DEF Servers!SettleVersions, Servers!Replied, Servers!Failed
  <2>2. FormHolds(view.form)  BY <1>1, <2>1 DEF FormAwaits
  <2>3. Beside(calls', calls, hs, {})  BY <2>1, ServersBeside
  <2>4. FormUp  BY <1>1, <2>1 DEF FormUp
  <2>5. CASE view' = [view EXCEPT !.form.listed = At(i).val, !.form.version = At(i).val]
    <3> DEFINE form == [core |-> view.form.core, cores |-> view.form.cores,
                        listed |-> At(i).val, version |-> At(i).val, busy |-> view.form.busy]
    <3>1. Formed(form)  BY <2>2, <2>5 DEF Formed, ServersView, FormHolds
    <3> QED  BY <1>2, <2>3, <2>4, <3>1, PressedKept DEF Formed
  <2>6. CASE view' = view  BY <1>2, <2>3, <2>4, <2>6, PressedKept
  <2> QED
    BY <1>7, <2>5, <2>6, ServersApi DEF Servers!SettleVersions, Servers!Failed
<1>8. CASE Servers!SettleSubmit(i)
  <2>1. CASE /\ i[1] \in {"save", "orphan"} /\ view' = [view EXCEPT !.form = None]
             /\ calls' = Servers!Reload(Servers!CloseForm(Without(i)))
    <3>1. Beside(calls', calls, all, {})  BY <2>1, ServersBeside
    <3>2. view'.busy = view.busy /\ view'.form = None  BY <1>3, <2>1
    <3>3. ServersCalls(Without(i))  BY OwnSteps DEF ServersCalls
    <3>4. /\ ServersCalls(Servers!CloseForm(Without(i)))
          /\ {"effect", "versions", "save"} \cap DOMAIN Servers!CloseForm(Without(i)) = {}
      BY <3>3, ServersCloseForm
    <3>5. \A k : k \in DOMAIN calls' <=>
                   k \in DOMAIN Servers!CloseForm(Without(i)) \/ k = "reload"
      BY <2>1, <3>4, ServersReload
    <3>6. ~FormUp'  BY <3>2, <3>4, <3>5 DEF FormUp
    <3> QED  BY <1>2, <3>1, <3>2, <3>6, PressedKept
  <2>2. CASE /\ i[1] = "save" /\ view' = [view EXCEPT !.form.busy = FALSE]
             /\ calls' = Without(i)
    <3>1. FormHolds(view.form)  BY <1>1, <2>2 DEF FormAwaits
    <3>2. Beside(calls', calls, all, {})  BY <2>2, ServersBeside
    <3>3. view'.busy = view.busy /\ ~view'.form.busy  BY <1>3, <2>2, <3>1 DEF FormHolds
    <3> QED  BY <1>2, <3>2, <3>3, PressedKept
  <2>3. CASE i[1] = "orphan" /\ view' = view /\ calls' = Without(i)
    <3>1. Beside(calls', calls, hs, {})  BY <2>3, ServersBeside
    <3>2. FormUp' => FormUp  BY <2>3, FormAsideOf
    <3> QED  BY <1>2, <2>3, <3>1, <3>2, PressedKept
  <2> QED
    BY <1>8, <2>1, <2>2, <2>3, ServersApi
    DEF Servers!SettleSubmit, Servers!Replied, Servers!Failed
<1> QED  BY <1>4, <1>5, <1>6, <1>7, <1>8 DEF Servers!Settle

\* What is pressed when the user acts.
LEMMA PressedActed ==
    ASSUME token \in Tokens, Calls(calls), Own("servers", calls), ServersView, PressedAsk,
           Servers!Next
    PROVE  PressedAsk'
<1> DEFINE hs == {"reload", "effect", "versions", "orphan"}
           all == {"reload", "effect", "versions", "orphan", "save"}
<1>1. /\ \A id \in view.busy : PowerAsked(calls, id)
      /\ FormUp /\ view.form.busy => "save" \in DOMAIN calls
  BY DEF PressedAsk
<1>2. view = [servers |-> view.servers, busy |-> view.busy, form |-> view.form]
  BY DEF ServersView
<1>3. CASE Servers!Tick \/ Servers!HostMoves
  <2>1. view' = view /\ (calls' = calls \/ calls' = Servers!Reload(calls))
    BY <1>3 DEF Servers!Tick, Servers!HostMoves
  <2>2. Beside(calls', calls, hs, {})  BY <2>1, ServersBeside
  <2>3. FormUp' => FormUp  BY <2>1, FormAsideOf
  <2> QED  BY <1>1, <2>1, <2>2, <2>3, PressedKept
<1>4. ASSUME NEW id, NEW action, Servers!Power(id, action)  PROVE PressedAsk'
  <2>1. /\ calls' = Add(calls, "change", Call("power", id))
        /\ view' = [view EXCEPT !.busy = @ \cup {id}]
    BY <1>4, ServersApi DEF Servers!Power, Servers!Ask
  <2>2. view'.busy = view.busy \cup {id} /\ view'.form = view.form  BY <1>2, <2>1
  <2>3. AddIs(calls', calls, "change", Call("power", id))  BY <2>1, AddKeeps DEF Calls
  <2>4. Call("power", id).arg = id  BY CallMade
  <2>5. PowerAsked(calls', id)
    <3>1. <<"change", Call("power", id)>> \in Sent(calls')  BY <2>3 DEF AddIs
    <3> QED  BY <2>4, <3>1 DEF PowerAsked
  <2>6. ASSUME NEW s \in view.busy  PROVE PowerAsked(calls', s)
    BY <1>1, <2>1, <2>6, StillSent DEF PowerAsked
  <2>7. FormUp' => FormUp  BY <2>2, <2>3, FormAsideOf DEF AddIs
  <2>8. FormUp /\ view.form.busy => "save" \in DOMAIN calls'
    BY <1>1, <2>1, StillAwaited
  <2> QED  BY <2>2, <2>5, <2>6, <2>7, <2>8 DEF PressedAsk
<1>5. CASE Servers!ToggleForm
  <2>1. CASE /\ view' = [view EXCEPT !.form = Servers!emptyForm]
             /\ calls' = Servers!AskVersions(Add(calls, "effect", Call("listCores", None)), Default)
    <3>1. Beside(calls', calls, hs, {})  BY <2>1, ServersBeside
    <3>2. view'.busy = view.busy /\ ~view'.form.busy  BY <1>2, <2>1 DEF Servers!emptyForm
    <3> QED  BY <1>1, <3>1, <3>2, PressedKept
  <2>2. CASE view' = [view EXCEPT !.form = None] /\ calls' = Servers!CloseForm(calls)
    <3>1. Beside(calls', calls, all, {})  BY <2>2, ServersBeside
    <3>2. view'.busy = view.busy /\ view'.form = None  BY <1>2, <2>2
    <3>3. {"effect", "versions", "save"} \cap DOMAIN calls' = {}
      BY <2>2, ServersCloseForm DEF ServersCalls
    <3>4. ~FormUp'  BY <3>2, <3>3 DEF FormUp
    <3> QED  BY <1>1, <3>1, <3>2, <3>4, PressedKept
  <2> QED  BY <1>5, <2>1, <2>2, ServersApi DEF Servers!ToggleForm
<1>6. ASSUME NEW core, Servers!PickCore(core)  PROVE PressedAsk'
  <2>1. /\ calls' = Servers!AskVersions(calls, core) /\ view.form # None
        /\ view' = [view EXCEPT !.form.core = core, !.form.listed = None]
    BY <1>6 DEF Servers!PickCore
  <2>2. FormHolds(view.form)  BY <2>1 DEF ServersView
  <2>3. view'.busy = view.busy /\ view'.form.busy = view.form.busy
    BY <1>2, <2>1, <2>2 DEF FormHolds
  <2>4. Beside(calls', calls, hs, {})  BY <2>1, ServersBeside
  <2>5. FormUp  BY <2>1 DEF FormUp
  <2> QED  BY <1>1, <2>3, <2>4, <2>5, PressedKept
<1>7. CASE Servers!TypeVersion
  <2>1. /\ calls' = calls /\ view.form # None
        /\ view' = [view EXCEPT !.form.version = view.form.core]
    BY <1>7 DEF Servers!TypeVersion
  <2>2. FormHolds(view.form)  BY <2>1 DEF ServersView
  <2>3. view'.busy = view.busy /\ view'.form.busy = view.form.busy
    BY <1>2, <2>1, <2>2 DEF FormHolds
  <2>4. Beside(calls', calls, hs, {})  BY <2>1, ServersBeside
  <2>5. FormUp  BY <2>1 DEF FormUp
  <2> QED  BY <1>1, <2>3, <2>4, <2>5, PressedKept
<1>8. CASE Servers!Submit
  <2> DEFINE arg == [core |-> view.form.core, version |-> view.form.version]
  <2>1. /\ calls' = Add(calls, "save", Call("createServer", arg))
        /\ view' = [view EXCEPT !.form.busy = TRUE]
    BY <1>8, ServersApi DEF Servers!Submit, Servers!Ask
  <2> HIDE DEF arg
  <2>2. view'.busy = view.busy  BY <1>2, <2>1
  <2>3. Beside(calls', calls, all, {})  BY <2>1, BesideSteps, OperationNames
  <2>4. "save" \in DOMAIN calls'  BY <2>1, StillAwaited
  <2> QED  BY <1>1, <2>2, <2>3, <2>4, PressedKept
<1> QED
  BY <1>3, <1>4, <1>5, <1>6, <1>7, <1>8 DEF Servers!Next, Servers!User

LEMMA ServersAwaits ==
    ASSUME PanelInv, ServersInv, ServersWaits, [Next]_vars
    PROVE  ServersWaits'
<1> SUFFICES ASSUME auth' = "in", page' = "servers"  PROVE PressedAsk'
  BY DEF ServersWaits
<1>1. /\ AppInv /\ Calls(calls) /\ Known(calls) /\ token \in Tokens
      /\ PageSteps("servers") \/ PageStays("servers") \/ PageOpens("servers")
  BY PageCases
<1>2. CASE PageSteps("servers")
  <2>1. Own("servers", calls) /\ ServersView /\ FormAwaits /\ PressedAsk
    BY <1>2 DEF PageSteps, ServersInv, ServersWaits
  <2>2. ASSUME NEW i \in InFlight, Servers!Serve(i)  PROVE PressedAsk'
    <3>1. Answers(i) /\ view' = view
      BY <2>2, ServersApi DEF Servers!Serve, Servers!ServeList, Servers!ServePower,
        Servers!ServeCores, Servers!ServeVersions, Servers!ServeCreate
    <3>2. ASSUME NEW id \in view.busy  PROVE PowerAsked(calls', id)
      <4>1. PICK x \in Sent(calls) : x[1] = "change" /\ x[2].arg = id
        BY <2>1, <3>2 DEF PressedAsk, PowerAsked
      <4>2. \E y \in Sent(calls') : SameCall(y, x)  BY <1>1, <3>1, StillSent
      <4> QED  BY <4>1, <4>2 DEF PowerAsked, SameCall
    <3>3. FormUp /\ view.form.busy => "save" \in DOMAIN calls'
      BY <1>1, <2>1, <3>1, StillAwaited DEF PressedAsk
    <3>4. FormUp' => FormUp
      BY <3>1, FormAsideOf, <1>1 DEF Answers, Update
    <3> QED  BY <3>1, <3>2, <3>3, <3>4 DEF PressedAsk
  <2> QED
    BY <1>1, <1>2, <2>1, <2>2, PressedSettled, PressedActed DEF PageSteps, PageStep, On
<1>3. CASE PageStays("servers")
  <2>1. Own("servers", calls) /\ PressedAsk /\ view' = view
    BY <1>3 DEF PageStays, ServersInv, ServersWaits
  <2>2. ASSUME NEW id \in view.busy  PROVE PowerAsked(calls', id)
    <3>1. PICK x \in Sent(calls) : x[1] = "change" /\ x[2].arg = id
      BY <2>1, <2>2 DEF PressedAsk, PowerAsked
    <3>2. \E y \in Sent(calls') : SameCall(y, x)  BY <1>3, <3>1, SentAside, InnerNames
      DEF PageStays
    <3> QED  BY <3>1, <3>2 DEF PowerAsked, SameCall
  <2>3. FormUp /\ view.form.busy => "save" \in DOMAIN calls'
    BY <1>1, <1>3, <2>1, AwaitedAside, InnerNames DEF PressedAsk, Awaits
  <2>4. FormUp' => FormUp
    BY <1>1, <1>3, <2>1, OwnAside, InnerNames DEF PageStays, FormUp
  <2> QED  BY <2>1, <2>2, <2>3, <2>4 DEF PressedAsk
<1>4. CASE PageOpens("servers")
  <2>1. PICK cs : Fit(cs) /\ Enter("servers", cs)  BY <1>4 DEF PageOpens
  <2>2. view' = Servers!Opening /\ calls' = Servers!Reload(cs)
    BY <2>1 DEF Enter, Servers!FirstCalls
  <2>3. DOMAIN calls' = DOMAIN cs \cup {"reload"}
    BY <1>1, <2>1, <2>2, Awaiting, ServersApi DEF Servers!Reload, Fit
  <2>4. {"effect", "versions", "save"} \cap DOMAIN calls' = {}
    BY <2>1, <2>3 DEF Fit, Lasting, Theme!Handlers
  <2> QED  BY <2>2, <2>4 DEF Servers!Opening, PressedAsk, FormUp
<1> QED  BY <1>1, <1>2, <1>3, <1>4

-----------------------------------------------------------------------------
\* The daemon answers the session or the theme: who awaits something does still.
LEMMA ServedAround ==
    ASSUME Calls(calls), NEW i \in InFlight,
           ServeApp(i) \/ ServeLate(i) \/ Theme!Serve(i) \/ Unauthorized(i)
    PROVE  DOMAIN calls' = DOMAIN calls /\ view' = view
<1>1. \A c : Update(i, c) => DOMAIN calls' = DOMAIN calls  BY Awaiting
<1>2. CASE ServeApp(i)
  <2>1. CASE DOMAIN calls' = DOMAIN calls  BY <1>2, <2>1 DEF ServeApp
  <2>2. CASE \E val : Answer(i, val)  BY <1>1, <1>2, <2>2 DEF Answer, ServeApp
  <2>3. CASE Reject(i)  BY <1>1, <1>2, <2>3 DEF Reject, ServeApp
  <2> QED  BY <1>2, <2>1, <2>2, <2>3 DEF ServeApp
<1>3. CASE ServeLate(i)  BY <1>1, <1>3 DEF ServeLate, Answer
<1>4. CASE Theme!Serve(i)
  <2>1. Answers(i) /\ view' = view  BY <1>4, ThemeApi DEF Theme!Serve
  <2> QED  BY <1>1, <2>1 DEF Answers
<1>5. CASE Unauthorized(i)  BY <1>1, <1>5 DEF Unauthorized, Reject
<1> QED  BY <1>2, <1>3, <1>4, <1>5

\* A step that is nobody's answer and leads to no page.
LEMMA NextIsOneOf ==
    ASSUME PanelInv, [Next]_vars
    PROVE  \/ PageStep
           \/ \E i \in InFlight :
                \/ (ServeApp(i) \/ ServeLate(i) \/ Theme!Serve(i) \/ Unauthorized(i))
                     /\ UNCHANGED appVars
                \/ SettleApp(i)
                \/ (SettleLate(i) \/ Theme!Settle(i)) /\ UNCHANGED appVars
           \/ NoToken \/ Login \/ Logout \/ Toggle
           \/ \E p \in Pages : Navigate(p)
           \/ UNCHANGED vars
<1>1. ASSUME NEW i \in InFlight, Serve(i)
      PROVE  \/ (ServeApp(i) \/ ServeLate(i) \/ Theme!Serve(i)) /\ UNCHANGED appVars
             \/ PageStep
  BY <1>1, ServesOneOf, Zenon
<1>2. ASSUME NEW i \in InFlight, Settle(i)
      PROVE  \/ SettleApp(i) \/ (SettleLate(i) /\ UNCHANGED appVars)
             \/ (Theme!Settle(i) /\ UNCHANGED appVars)
             \/ PageStep
  BY <1>2, SettlesOneOf, Zenon
<1>3. PageNext => PageStep  BY SMTT(30) DEF PageNext, PageStep
<1>4. ASSUME NEW i \in InFlight, Refuse(i)  PROVE Unauthorized(i) /\ UNCHANGED appVars
  BY <1>4 DEF Refuse
<1> QED  BY <1>1, <1>2, <1>3, <1>4 DEF Next

\* A page that is entered is the one that is drawn.
LEMMA EntersPage ==
    ASSUME NEW p, NEW cs, Enter(p, cs)
    PROVE  p = page'
BY DEF Enter

\* The login form is what is drawn without a user, and then alone.
LoginDrawn == auth = "anonymous" <=> page = "login"

LEMMA LoginIsDrawn ==
    ASSUME PanelInv, LoginDrawn, [Next]_vars
    PROVE  LoginDrawn'
<1>1. AppInv  BY DEF PanelInv
<1>2. CASE UNCHANGED vars  BY <1>2 DEF LoginDrawn, vars, appVars
<1>3. CASE Next
  <2>1. CASE PageStep
    <3>1. UNCHANGED <<page, auth>>  BY <1>1, <2>1, PageIsInside
    <3> QED  BY <3>1 DEF LoginDrawn
  <2>2. CASE AsideStep  BY <2>2 DEF AsideStep, LoginDrawn
  <2>3. CASE EnterStep
    <3>1. auth' = "in" /\ page' \in Pages  BY <2>3, EntersPage DEF EnterStep
    <3> QED  BY <3>1 DEF LoginDrawn, Pages, Tabs, Sections, AdminPages
  <2>4. CASE SignOutStep  BY <2>4 DEF SignOutStep, LoginDrawn
  <2> QED  BY <1>1, <1>3, <2>1, <2>2, <2>3, <2>4, StepIsOneOf
<1> QED  BY <1>2, <1>3

\* The button of the login form.
LoginWaits ==
    auth = "anonymous" => /\ view \in [busy : BOOLEAN]
                          /\ view.busy => Awaits("handleSubmit")

LEMMA LoginAwaits ==
    ASSUME PanelInv, LoginDrawn, LoginWaits, [Next]_vars
    PROVE  LoginWaits'
<1> SUFFICES ASSUME auth' = "anonymous"
             PROVE  /\ view' \in [busy : BOOLEAN]
                    /\ view'.busy => "handleSubmit" \in DOMAIN calls'
  BY DEF LoginWaits, Awaits
<1>1. AppInv /\ Calls(calls)  BY DEF PanelInv, AppInv
<1>2. auth = "anonymous" => /\ view \in [busy : BOOLEAN]
                            /\ view.busy => "handleSubmit" \in DOMAIN calls
  BY DEF LoginWaits, Awaits
<1>3. ASSUME auth = "anonymous", view' = view,
             "handleSubmit" \in DOMAIN calls => "handleSubmit" \in DOMAIN calls'
      PROVE  /\ view' \in [busy : BOOLEAN]
             /\ view'.busy => "handleSubmit" \in DOMAIN calls'
  BY <1>2, <1>3
<1>4. loginForm \in [busy : BOOLEAN] /\ ~loginForm.busy  BY DEF loginForm
<1>5. ASSUME NEW i \in InFlight, i[1] # "handleSubmit", SignedOut(Without(i))
      PROVE  /\ view' \in [busy : BOOLEAN]
             /\ view'.busy => "handleSubmit" \in DOMAIN calls'
  <2>1. CASE auth = "anonymous"
    <3>1. view' = view /\ calls' = Without(i)  BY <1>5, <2>1 DEF SignedOut
    <3> QED  BY <1>1, <1>3, <1>5, <2>1, <3>1, StillAwaited
  <2>2. CASE auth # "anonymous"  BY <1>4, <1>5, <2>2 DEF SignedOut
  <2> QED  BY <2>1, <2>2
<1>6. ~PageStep /\ ~Toggle /\ ~Logout /\ ~\E p \in Pages : Navigate(p)
  <2>1. ~PageStep  BY <1>1, PageIsInside
  <2> QED  BY <2>1 DEF Toggle, Logout, Navigate, appVars
<1>7. ASSUME NEW i \in InFlight,
             ServeApp(i) \/ ServeLate(i) \/ Theme!Serve(i) \/ Unauthorized(i), UNCHANGED appVars
      PROVE  /\ view' \in [busy : BOOLEAN]
             /\ view'.busy => "handleSubmit" \in DOMAIN calls'
  BY <1>1, <1>3, <1>7, ServedAround DEF appVars
<1>8. ASSUME NEW i \in InFlight, SettleApp(i)
      PROVE  /\ view' \in [busy : BOOLEAN]
             /\ view'.busy => "handleSubmit" \in DOMAIN calls'
  <2>1. CASE SettleLoadUser(i)
    <3>1. i[1] = "loadUser" /\ SignedOut(Without(i))
      BY <2>1 DEF SettleLoadUser, Failed, Replied
    <3> QED  BY <1>5, <3>1
  <2>2. CASE SettleLogin(i)
    <3>1. /\ auth = "anonymous"
          /\ calls' = Without(i) \/ \E c : calls' = Add(Without(i), "loadUser", c)
          /\ view' = IF i[1] = "handleSubmit" THEN [view EXCEPT !.busy = FALSE] ELSE view
      BY <2>2 DEF SettleLogin
    <3>2. CASE i[1] = "handleSubmit"
      <4>1. view' = [view EXCEPT !.busy = FALSE]  BY <3>1, <3>2
      <4> QED  BY <1>2, <3>1, <4>1
    <3>3. CASE i[1] # "handleSubmit"
      <4>1. view' = view  BY <3>1, <3>3
      <4>2. "handleSubmit" \in DOMAIN calls => "handleSubmit" \in DOMAIN calls'
        BY <1>1, <3>1, <3>3, StillAwaited
      <4> QED  BY <1>3, <3>1, <4>1, <4>2
    <3> QED  BY <3>2, <3>3
  <2>3. CASE SettleLogout(i)
    <3>1. CASE i[1] = "handleLogout" /\ SignedOut(Without(i))  BY <1>5, <3>1
    <3>2. CASE i[1] = "handleLogout" /\ calls' = Without(i) /\ UNCHANGED <<auth, view>>
      <4>1. "handleSubmit" \in DOMAIN calls => "handleSubmit" \in DOMAIN calls'
        BY <1>1, <3>2, StillAwaited
      <4> QED  BY <1>3, <3>2, <4>1
    <3> QED  BY <2>3, <3>1, <3>2 DEF SettleLogout, Replied, Failed
  <2>4. CASE SettleDelete(i)
    <3>1. i[1] = "delete" /\ calls' = Without(i) /\ UNCHANGED <<auth, view>>
      BY <2>4 DEF SettleDelete, Replied
    <3>2. "handleSubmit" \in DOMAIN calls => "handleSubmit" \in DOMAIN calls'
      BY <1>1, <3>1, StillAwaited
    <3> QED  BY <1>3, <3>1, <3>2
  <2> QED  BY <1>8, <2>1, <2>2, <2>3, <2>4 DEF SettleApp
<1>9. ASSUME NEW i \in InFlight, SettleLate(i), UNCHANGED appVars
      PROVE  /\ view' \in [busy : BOOLEAN]
             /\ view'.busy => "handleSubmit" \in DOMAIN calls'
  <2>1. i[1] # "handleSubmit" /\ calls' = Without(i) /\ UNCHANGED <<auth, view>>
    BY <1>9 DEF SettleLate, Ended, Replied, Failed, appVars
  <2>2. "handleSubmit" \in DOMAIN calls => "handleSubmit" \in DOMAIN calls'
    BY <1>1, <2>1, StillAwaited
  <2> QED  BY <1>3, <2>1, <2>2
<1>10. ASSUME NEW i \in InFlight, Theme!Settle(i), UNCHANGED appVars
       PROVE  /\ view' \in [busy : BOOLEAN]
              /\ view'.busy => "handleSubmit" \in DOMAIN calls'
  <2>1. auth = "anonymous" /\ page = "login"  BY <1>10 DEF LoginDrawn, appVars
  <2>2. i[1] # "handleSubmit"
    BY <1>10 DEF Theme!Settle, Theme!SettleSave, Theme!SettleDelete, Theme!SettleProvider,
      Theme!Replied, Theme!Failed, Theme!Ended, Theme!Got
  <2>3. calls' = Without(i) \/ \E h, c : calls' = Add(Without(i), h, c)
    BY <1>10, ThemeApi DEF Theme!Settle, Theme!SettleSave, Theme!SettleDelete,
      Theme!SettleProvider, Theme!LoadThemes
  <2>4. view' = view
    BY <1>10, <2>1, Zenon DEF Theme!Settle, Theme!SettleSave, Theme!SettleDelete,
      Theme!SettleProvider, Theme!Here
  <2>5. "handleSubmit" \in DOMAIN calls => "handleSubmit" \in DOMAIN calls'
    BY <1>1, <2>2, <2>3, StillAwaited
  <2> QED  BY <1>3, <2>1, <2>4, <2>5
<1>11. CASE NoToken  BY <1>4, <1>11 DEF NoToken, SignedOut
<1>12. CASE Login
  <2>1. /\ auth = "anonymous" /\ view' = [view EXCEPT !.busy = TRUE]
        /\ \E c : calls' = Add(calls, "handleSubmit", c)
    BY <1>12 DEF Login, Ask
  <2>2. "handleSubmit" \in DOMAIN calls'  BY <1>1, <2>1, StillAwaited
  <2>3. view' \in [busy : BOOLEAN]  BY <1>2, <2>1
  <2> QED  BY <2>2, <2>3
<1>13. CASE UNCHANGED vars  BY <1>3, <1>13 DEF vars, appVars
<1> QED
  BY <1>6, <1>7, <1>8, <1>9, <1>10, <1>11, <1>12, <1>13, NextIsOneOf

\* The button of the editor of themes.
ThemeWaits == auth = "in" /\ page = "theme" /\ view.busy => Awaits("saveTheme")

LEMMA ThemeAwaits ==
    ASSUME PanelInv, ThemeWaits, [Next]_vars
    PROVE  ThemeWaits'
<1> SUFFICES ASSUME auth' = "in", page' = "theme", view'.busy
             PROVE  "saveTheme" \in DOMAIN calls'
  BY DEF ThemeWaits, Awaits
<1>1. AppInv /\ Calls(calls)  BY DEF PanelInv, AppInv
<1>2. auth = "in" /\ page = "theme" /\ view.busy => "saveTheme" \in DOMAIN calls
  BY DEF ThemeWaits, Awaits
<1>3. auth = "in" /\ page = "theme" =>
        view \in [editing : Customs \cup {None}, busy : BOOLEAN, seen : SUBSET Customs]
  BY <1>1 DEF AppInv, Theme!Types
<1>4. ASSUME auth = "in", page = "theme", view'.busy = view.busy,
             "saveTheme" \in DOMAIN calls => "saveTheme" \in DOMAIN calls'
      PROVE  "saveTheme" \in DOMAIN calls'
  BY <1>2, <1>4
<1>5. ASSUME NEW cs, Enter("theme", cs)  PROVE FALSE
  BY <1>5 DEF Enter, Theme!Opening
<1>6. CASE PageStep
  <2>1. auth = "in" /\ page = "theme"  BY <1>1, <1>6, PageIsInside
  <2>2. Theme!Next  BY <1>6, <2>1 DEF PageStep, On
  <2>3. CASE Theme!Save
    <3>1. \E c : calls' = Add(calls, "saveTheme", c)
      BY <2>3, ThemeApi DEF Theme!Save, Theme!Ask
    <3> QED  BY <1>1, <3>1, StillAwaited
  <2>4. CASE Theme!PickTheme \/ Theme!Delete \/ Theme!SystemChanges
    <3>1. view' = view /\ (calls' = calls \/ \E h, c : calls' = Add(calls, h, c))
      BY <2>4, ThemeApi DEF Theme!PickTheme, Theme!SetChoice, Theme!Delete,
        Theme!SystemChanges, Theme!Ask
    <3>2. "saveTheme" \in DOMAIN calls => "saveTheme" \in DOMAIN calls'
      BY <1>1, <3>1, StillAwaited
    <3> QED  BY <1>4, <2>1, <3>1, <3>2
  <2>5. CASE Theme!Edit
    <3>1. calls' = calls /\ \E seen, editing :
                              view' = [view EXCEPT !.seen = seen, !.editing = editing]
      BY <2>5, Zenon DEF Theme!Edit
    <3>2. view'.busy = view.busy  BY <1>3, <2>1, <3>1
    <3> QED  BY <1>4, <2>1, <3>1, <3>2
  <2> QED  BY <2>2, <2>3, <2>4, <2>5 DEF Theme!Next
<1>7. ASSUME NEW i \in InFlight,
             ServeApp(i) \/ ServeLate(i) \/ Theme!Serve(i) \/ Unauthorized(i), UNCHANGED appVars
      PROVE  "saveTheme" \in DOMAIN calls'
  BY <1>1, <1>4, <1>7, ServedAround DEF appVars
<1>8. ASSUME NEW i \in InFlight, i[1] # "saveTheme",
             calls' = Without(i) \/ \E h, c : calls' = Add(Without(i), h, c)
      PROVE  "saveTheme" \in DOMAIN calls => "saveTheme" \in DOMAIN calls'
  BY <1>1, <1>8, StillAwaited
<1>9. ASSUME NEW i \in InFlight, SettleApp(i)  PROVE "saveTheme" \in DOMAIN calls'
  <2>1. CASE SettleLoadUser(i)
    <3>1. CASE auth = "in"
      <4>1. i[1] = "loadUser" /\ calls' = Without(i) /\ UNCHANGED <<page, view>>
        BY <2>1, <3>1 DEF SettleLoadUser, Replied, SignedOut
      <4> QED  BY <1>4, <1>8, <3>1, <4>1
    <3>2. CASE auth # "in"
      <4>1. \E p, cs : Enter(p, cs)  BY <2>1, <3>2, Zenon DEF SettleLoadUser, SignedOut
      <4>2. \E cs : Enter("theme", cs)  BY <4>1, EntersPage
      <4> QED  BY <1>5, <4>2
    <3> QED  BY <3>1, <3>2
  <2>2. CASE SettleLogin(i)
    <3>1. /\ UNCHANGED <<auth, page>>
          /\ calls' = Without(i) \/ \E c : calls' = Add(Without(i), "loadUser", c)
          /\ i[1] # "saveTheme"
          /\ view' = view \/ view' = [view EXCEPT !.busy = FALSE]
      BY <2>2 DEF SettleLogin, Replied, Failed
    <3>2. view' = view  BY <1>3, <3>1
    <3> QED  BY <1>4, <1>8, <3>1, <3>2
  <2>3. CASE SettleLogout(i)
    <3>1. i[1] = "handleLogout" /\ calls' = Without(i) /\ UNCHANGED <<auth, page, view>>
      BY <2>3 DEF SettleLogout, Replied, Failed, SignedOut
    <3> QED  BY <1>4, <1>8, <3>1
  <2>4. CASE SettleDelete(i)
    <3>1. auth = "in"  BY <2>4 DEF SettleDelete
    <3>2. page' = "servers"  BY <2>4, <3>1 DEF SettleDelete, Enter
    <3> QED  BY <3>2
  <2> QED  BY <1>9, <2>1, <2>2, <2>3, <2>4 DEF SettleApp
<1>10. ASSUME NEW i \in InFlight, SettleLate(i), UNCHANGED appVars
       PROVE  "saveTheme" \in DOMAIN calls'
  <2>1. i[1] # "saveTheme" /\ calls' = Without(i) /\ UNCHANGED <<auth, page, view>>
    BY <1>10 DEF SettleLate, Ended, Replied, Failed, appVars
  <2> QED  BY <1>4, <1>8, <2>1
<1>11. ASSUME NEW i \in InFlight, Theme!Settle(i), UNCHANGED appVars
       PROVE  "saveTheme" \in DOMAIN calls'
  <2>1. /\ auth = "in" /\ page = "theme"
        /\ view \in [editing : Customs \cup {None}, busy : BOOLEAN, seen : SUBSET Customs]
    BY <1>3, <1>11 DEF appVars
  <2>2. CASE Theme!SettleSave(i)
    <3>1. ASSUME NEW x, view' = [view EXCEPT !.busy = FALSE, !.editing = x]
                          \/ view' = [view EXCEPT !.busy = FALSE]
          PROVE  FALSE
      BY <2>1, <3>1
    <3>2. \E c : calls' = Add(Without(i), "saveTheme", c)
      BY <2>1, <2>2, <3>1, ThemeApi, Zenon DEF Theme!SettleSave, Theme!Here, Theme!LoadThemes
    <3> QED  BY <1>1, <3>2, StillAwaited
  <2>3. CASE Theme!SettleDelete(i)
    <3>1. /\ i[1] # "saveTheme"
          /\ calls' = Without(i) \/ \E h, c : calls' = Add(Without(i), h, c)
      BY <2>3, ThemeApi DEF Theme!SettleDelete, Theme!Got, Theme!Failed, Theme!Replied,
        Theme!Ended, Theme!LoadThemes
    <3>2. view' = view \/ \E x : view' = [view EXCEPT !.editing = x]
      BY <2>1, <2>3, Zenon DEF Theme!SettleDelete, Theme!Here
    <3>3. view'.busy = view.busy  BY <2>1, <3>2
    <3> QED  BY <1>4, <1>8, <2>1, <3>1, <3>3
  <2>4. CASE Theme!SettleProvider(i)
    <3>1. i[1] # "saveTheme" /\ calls' = Without(i) /\ view' = view
      BY <2>4, ThemeApi DEF Theme!SettleProvider, Theme!Got, Theme!Failed, Theme!Replied
    <3> QED  BY <1>4, <1>8, <2>1, <3>1
  <2> QED  BY <1>11, <2>2, <2>3, <2>4 DEF Theme!Settle
<1>12. CASE NoToken \/ Login  BY <1>12 DEF NoToken, SignedOut, Login, appVars
<1>13. CASE Logout \/ Toggle
  <2>1. /\ auth = "in" /\ page = "theme" /\ view' = view
        /\ \E h, c : calls' = Add(calls, h, c)
    BY <1>13, ThemeApi DEF Logout, Toggle, Theme!Toggle, Theme!SetChoice, Theme!Ask, Ask, appVars
  <2>2. "saveTheme" \in DOMAIN calls => "saveTheme" \in DOMAIN calls'
    BY <1>1, <2>1, StillAwaited
  <2> QED  BY <1>4, <2>1, <2>2
<1>14. ASSUME NEW p \in Pages, Navigate(p)  PROVE FALSE
  <2>1. \E q, cs : Enter(q, cs)  BY <1>14 DEF Navigate
  <2>2. \E cs : Enter("theme", cs)  BY <2>1, EntersPage
  <2> QED  BY <1>5, <2>2
<1>15. CASE UNCHANGED vars  BY <1>4, <1>15 DEF vars, appVars
<1> QED
  BY <1>6, <1>7, <1>9, <1>10, <1>11, <1>12, <1>13, <1>14, <1>15, NextIsOneOf

-----------------------------------------------------------------------------
WaitInv ==
    /\ LoginDrawn /\ LoginWaits /\ ServersWaits /\ ThemeWaits /\ FilesWaits /\ CatalogWaits
    /\ ModpacksWaits /\ BackupsWaits /\ ConnectWaits /\ PropertiesWaits /\ OptionsWaits
    /\ LinksWaits /\ BotsWaits /\ AdminWaits

\* What is sent is in flight somewhere.
LEMMA SentIsInFlight ==
    ASSUME NEW x \in Sent(calls)
    PROVE  \E i \in InFlight : i[1] = x[1] /\ At(i) = x[2]
<1>1. PICK h \in DOMAIN calls : \E k \in DOMAIN calls[h] : x = <<h, calls[h][k]>>  BY DEF Sent
<1>2. PICK k \in DOMAIN calls[h] : x = <<h, calls[h][k]>>  BY <1>1
<1>3. <<h, k>> \in InFlight  BY DEF InFlight
<1> QED  BY <1>2, <1>3 DEF At

\* Every page of web/src, and Login.tsx: what is disabled waits for a call that
\* is under way, and a card of the server list for a power action on its server.
THEOREM WaitsAlwaysForACall == Spec => []WaitsForACall
<1>1. Init => WaitInv
  <2> SUFFICES ASSUME Init  PROVE WaitInv
    OBVIOUS
  <2>1. auth = "checking" /\ page \in Pages  BY StartAssumption DEF Init
  <2>2. page # "login"  BY <2>1 DEF Pages, Tabs, Sections, AdminPages
  <2> QED
    BY <2>1, <2>2 DEF WaitInv, LoginDrawn, LoginWaits, ServersWaits, ThemeWaits, FilesWaits,
      CatalogWaits, ModpacksWaits, BackupsWaits, ConnectWaits, PropertiesWaits, OptionsWaits,
      LinksWaits, BotsWaits, AdminWaits
<1>2. PanelInv /\ TypeInv /\ WaitInv /\ [Next]_vars => WaitInv'
  <2> SUFFICES ASSUME PanelInv, TypeInv, WaitInv, [Next]_vars  PROVE WaitInv'
    OBVIOUS
  <2>1. LoginDrawn' /\ LoginWaits' /\ ServersWaits' /\ ThemeWaits'
    BY LoginIsDrawn, LoginAwaits, ServersAwaits, ThemeAwaits DEF WaitInv, TypeInv
  <2>2. FilesWaits' /\ CatalogWaits' /\ ModpacksWaits' /\ BackupsWaits' /\ ConnectWaits'
    BY FilesAwaits, CatalogAwaits, ModpacksAwaits, BackupsAwaits, ConnectAwaits
    DEF WaitInv, TypeInv
  <2>3. PropertiesWaits' /\ OptionsWaits' /\ LinksWaits' /\ BotsWaits' /\ AdminWaits'
    BY PropertiesAwaits, OptionsAwaits, LinksAwaits, BotsAwaits, AdminAwaits
    DEF WaitInv, TypeInv
  <2> QED  BY <2>1, <2>2, <2>3 DEF WaitInv
<1>3. PanelInv /\ TypeInv /\ WaitInv => WaitsForACall
  <2> SUFFICES ASSUME PanelInv, TypeInv, WaitInv  PROVE WaitsForACall
    OBVIOUS
  <2>1. Calls(calls)  BY DEF PanelInv, AppInv
  <2>2. page = "login" /\ view.busy => Awaits("handleSubmit")
    BY DEF WaitInv, LoginDrawn, LoginWaits
  <2>3. ASSUME auth = "in", page = "servers"
        PROVE  /\ \A id \in view.busy : \E i \in InFlight :
                     i[1] = "change" /\ At(i).op = "power" /\ At(i).arg = id
               /\ view.form # None /\ view.form.busy => Awaits("save")
    <3>1. PressedAsk /\ Own("servers", calls)
      BY <2>3 DEF WaitInv, ServersWaits, TypeInv, ServersInv
    <3>2. ASSUME NEW id \in view.busy
          PROVE  \E i \in InFlight : i[1] = "change" /\ At(i).op = "power" /\ At(i).arg = id
      <4>1. PICK x \in Sent(calls) : x[1] = "change" /\ x[2].arg = id
        BY <3>1, <3>2 DEF PressedAsk, PowerAsked
      <4>2. PICK i \in InFlight : i[1] = x[1] /\ At(i) = x[2]  BY SentIsInFlight
      <4>3. ServersCall("change", At(i))
        BY <2>1, <3>1, <4>1, <4>2, OwnAt, ServersOwn, InnerNames
      <4> QED  BY <4>1, <4>2, <4>3 DEF ServersCall
    <3> QED  BY <3>1, <3>2 DEF PressedAsk, FormUp, Awaits
  <2>4. ASSUME auth = "in", page = "admin"
        PROVE  /\ view.busy # None => Awaits("change")
               /\ view.loading => \E i \in InFlight : At(i).op = "listUsers"
    <3>1. ASSUME Loads(calls)  PROVE \E i \in InFlight : At(i).op = "listUsers"
      BY <3>1, SentIsInFlight DEF Loads
    <3> QED  BY <2>4, <3>1 DEF WaitInv, AdminWaits
  <2>5. auth = "in" =>
          /\ page = "theme" /\ Theme!Waits => Awaits("saveTheme")
          /\ page = "files" /\ Files!Waits => Awaits("save")
          /\ page = "modpacks" /\ Modpacks!Waits => Awaits("save")
          /\ page = "properties" /\ Properties!Waits => Awaits("save")
          /\ page = "options" /\ Options!Waits => Awaits("save")
    BY DEF WaitInv, ThemeWaits, FilesWaits, ModpacksWaits, PropertiesWaits, OptionsWaits,
      Theme!Waits, Files!Waits, Modpacks!Waits, Properties!Waits, Options!Waits
  <2>6. auth = "in" =>
          /\ page = "catalog" /\ Catalog!Waits => Awaits("save") \/ Awaits("change")
          /\ page = "backups" /\ Backups!Waits => Awaits("save") \/ Awaits("change")
          /\ page = "connect" /\ Connect!Waits => Awaits("change")
          /\ page = "links" /\ Links!Waits => Awaits("change")
          /\ page = "bots" /\ Bots!Waits => Awaits("change")
    BY DEF WaitInv, CatalogWaits, BackupsWaits, ConnectWaits, LinksWaits, BotsWaits,
      Catalog!Waits, Backups!Waits, Connect!Waits, Links!Waits, Bots!Waits
  <2> QED  BY <2>2, <2>3, <2>4, <2>5, <2>6, Zenon DEF WaitsForACall
<1> QED  BY <1>1, <1>2, <1>3, PanelInvariance, TypeInvariance, PTL DEF Spec

=============================================================================
