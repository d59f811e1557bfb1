------------------------- MODULE PlayerParts_proofs -------------------------
(***************************************************************************)
(* Proofs about the parts of the player: of each the inductive invariant,  *)
(* that it holds at first, that each step keeps it, and what it implies.   *)
(***************************************************************************)
EXTENDS PlayerParts, Ranks, FiniteSetTheorems, FunctionTheorems, SequenceTheorems, WellFoundedInduction, TLAPS

-----------------------------------------------------------------------------
(* From a browser tab to a replay (player/extension). *)

\* The invariant by the variables its parts are about.
PopupFits == popup # None => popup \in X!Popups /\ X!AsMeant(popup)
LaunchesFit == launches \in Seq(X!Launches) /\ X!LaunchAsMeant
CallsFit ==
  /\ xCalls \in Seq({"save", "open", "done"}) /\ Len(xCalls) = Len(launches)
  /\ \A i \in DOMAIN xCalls : xCalls[i] = "open" => X!WasSaved(i)
SavesFit ==
  /\ saved \in Seq(Nat) /\ xLast = (IF saved = <<>> THEN None ELSE saved[Len(saved)])
  /\ xLast \in DOMAIN launches \cup {None}
TabFits(tab) ==
  /\ tab \in X!PlayerTabs
  /\ tab.launch # None =>
       /\ X!WasSaved(tab.launch)
       /\ tab.ready =>
            IF tab.shown # None
            THEN tab.shown = [repo |-> launches[tab.launch].repo, branch |-> launches[tab.launch].branch]
            ELSE \E i, j \in DOMAIN saved : i < j /\ saved[i] = tab.launch
TabsFit == tabs \in Seq(X!PlayerTabs) /\ \A t \in DOMAIN tabs : TabFits(tabs[t])

LEMMA LaunchParts ==
  X!LaunchInvariant <=> PopupFits /\ LaunchesFit /\ CallsFit /\ SavesFit /\ TabsFit
<1>1. ASSUME X!LaunchInvariant PROVE PopupFits /\ LaunchesFit /\ CallsFit /\ SavesFit /\ TabsFit
  <2>1. PopupFits /\ LaunchesFit
    BY <1>1 DEF X!LaunchInvariant, PopupFits, LaunchesFit
  <2>2. Len(xCalls) = Len(launches)
    <3>1. xCalls \in Seq({"save", "open", "done"}) /\ launches \in Seq(X!Launches) /\ DOMAIN xCalls = DOMAIN launches
      BY <1>1 DEF X!LaunchInvariant, X!TypeOK
    <3>2. Len(xCalls) \in Nat /\ Len(launches) \in Nat /\ 1..Len(xCalls) = 1..Len(launches)
      BY <3>1
    <3>3. QED
      BY <3>2
  <2>3. CallsFit /\ SavesFit
    BY <1>1, <2>2 DEF X!LaunchInvariant, X!TypeOK, CallsFit, SavesFit
  <2>4. TabsFit
    <3>1. tabs \in Seq(X!PlayerTabs)
      BY <1>1 DEF X!LaunchInvariant
    <3>2. ASSUME NEW t \in DOMAIN tabs PROVE TabFits(tabs[t])
      <4>1. tabs[t] \in X!PlayerTabs
        BY <3>1
      <4>2. tabs[t].launch # None => X!WasSaved(tabs[t].launch)
        BY <1>1 DEF X!LaunchInvariant
      <4>3. tabs[t].launch # None /\ tabs[t].ready =>
              IF tabs[t].shown # None
              THEN tabs[t].shown = [repo |-> launches[tabs[t].launch].repo, branch |-> launches[tabs[t].launch].branch]
              ELSE \E i, j \in DOMAIN saved : i < j /\ saved[i] = tabs[t].launch
        BY <1>1 DEF X!LaunchInvariant, X!TabsLoadTheirOwn
      <4>4. QED
        BY <4>1, <4>2, <4>3 DEF TabFits
    <3>3. QED
      BY <3>1, <3>2 DEF TabsFit
  <2>5. QED
    BY <2>1, <2>3, <2>4
<1>2. ASSUME PopupFits, LaunchesFit, CallsFit, SavesFit, TabsFit PROVE X!LaunchInvariant
  <2>1. X!LaunchAsMeant /\ launches \in Seq(X!Launches) /\ (popup # None => popup \in X!Popups /\ X!AsMeant(popup))
    BY <1>2 DEF PopupFits, LaunchesFit
  <2>2. DOMAIN xCalls = DOMAIN launches
    <3>1. xCalls \in Seq({"save", "open", "done"}) /\ launches \in Seq(X!Launches) /\ Len(xCalls) = Len(launches)
      BY <1>2, <2>1 DEF CallsFit
    <3>2. QED
      BY <3>1
  <2>3. \A t \in DOMAIN tabs : tabs[t] \in X!PlayerTabs /\ TabFits(tabs[t])
    BY <1>2 DEF TabsFit, TabFits
  <2>4. \A t \in DOMAIN tabs : tabs[t].draft \in X!Places /\ tabs[t].shown \in X!Places
    BY <2>3 DEF X!PlayerTabs
  <2>5. X!TypeOK
    BY <1>2, <2>2, <2>4 DEF X!TypeOK, SavesFit
  <2>6. X!TabsLoadTheirOwn
    BY <2>3 DEF TabFits, X!TabsLoadTheirOwn
  <2>7. \A t \in DOMAIN tabs : tabs[t].launch # None => X!WasSaved(tabs[t].launch)
    BY <2>3 DEF TabFits
  <2>8. QED
    BY <1>2, <2>1, <2>5, <2>6, <2>7 DEF X!LaunchInvariant, CallsFit, SavesFit, TabsFit
<1>3. QED
  BY <1>1, <1>2

LEMMA LaunchPartsNext ==
  X!LaunchInvariant' <=> PopupFits' /\ LaunchesFit' /\ CallsFit' /\ SavesFit' /\ TabsFit'
BY LaunchParts, PTL

LEMMA LaunchBegins ==
  ASSUME X!Init PROVE X!LaunchInvariant
<1>1. /\ popup = None /\ launches = <<>> /\ xCalls = <<>> /\ xLast = None /\ saved = <<>> /\ tabs = <<>>
  BY DEF X!Init
<1>2. /\ launches \in Seq(X!Launches) /\ xCalls \in Seq({"save", "open", "done"}) /\ saved \in Seq(Nat)
      /\ tabs \in Seq(X!PlayerTabs) /\ DOMAIN launches = {} /\ DOMAIN xCalls = {} /\ DOMAIN tabs = {}
      /\ Len(xCalls) = Len(launches)
  BY <1>1
<1>3. PopupFits /\ LaunchesFit /\ CallsFit /\ SavesFit /\ TabsFit
  BY <1>1, <1>2 DEF PopupFits, LaunchesFit, CallsFit, SavesFit, TabsFit, X!LaunchAsMeant
<1>4. QED
  BY <1>3, LaunchParts

(* What grows keeps what it had. *)

LEMMA SavedStay ==
  ASSUME UNCHANGED <<launches, saved>>
  PROVE  /\ \A i : X!WasSaved(i) => X!WasSaved(i)'
         /\ \A tab : TabFits(tab) => TabFits(tab)'
BY DEF X!WasSaved, TabFits

LEMMA LaunchAdded ==
  ASSUME launches \in Seq(X!Launches), NEW l \in X!Launches, launches' = Append(launches, l), saved' = saved
  PROVE  /\ launches' \in Seq(X!Launches) /\ Len(launches') = Len(launches) + 1 /\ Len(launches) \in Nat
         /\ launches'[Len(launches) + 1] = l /\ \A i \in DOMAIN launches : launches'[i] = launches[i]
         /\ DOMAIN launches = 1..Len(launches) /\ DOMAIN launches' = 1..(Len(launches) + 1)
         /\ DOMAIN launches \subseteq DOMAIN launches'
         /\ \A i : X!WasSaved(i) => X!WasSaved(i)'
         /\ \A tab : TabFits(tab) => TabFits(tab)'
<1>1. /\ launches' \in Seq(X!Launches) /\ Len(launches') = Len(launches) + 1 /\ Len(launches) \in Nat
      /\ launches'[Len(launches) + 1] = l /\ \A i \in 1..Len(launches) : launches'[i] = launches[i]
  BY AppendProperties
<1>2. DOMAIN launches = 1..Len(launches) /\ DOMAIN launches' = 1..(Len(launches) + 1)
  BY <1>1
<1>3. DOMAIN launches \subseteq DOMAIN launches'
  BY <1>1, <1>2
<1>4. \A i : X!WasSaved(i) => X!WasSaved(i)'
  BY <1>3 DEF X!WasSaved
<1>5. ASSUME NEW tab, TabFits(tab) PROVE TabFits(tab)'
  <2>1. tab.launch # None => launches'[tab.launch] = launches[tab.launch] /\ X!WasSaved(tab.launch)'
    BY <1>1, <1>2, <1>4, <1>5 DEF TabFits, X!WasSaved
  <2>2. QED
    BY <1>5, <2>1 DEF TabFits
<1>6. QED
  BY <1>1, <1>2, <1>3, <1>4, <1>5

LEMMA SaveAdded ==
  ASSUME saved \in Seq(Nat), NEW id \in DOMAIN launches, launches \in Seq(X!Launches), saved' = Append(saved, id), launches' = launches
  PROVE  /\ saved' \in Seq(Nat) /\ saved' # <<>> /\ saved'[Len(saved')] = id
         /\ X!WasSaved(id)'
         /\ \A i : X!WasSaved(i) => X!WasSaved(i)'
         /\ \A tab : TabFits(tab) => TabFits(tab)'
<1>1. id \in Nat
  OBVIOUS
<1>2. /\ saved' \in Seq(Nat) /\ Len(saved') = Len(saved) + 1 /\ Len(saved) \in Nat
      /\ saved'[Len(saved) + 1] = id /\ \A i \in 1..Len(saved) : saved'[i] = saved[i]
  BY <1>1, AppendProperties
<1>3. /\ DOMAIN saved = 1..Len(saved) /\ DOMAIN saved' = 1..(Len(saved) + 1)
      /\ Len(saved) + 1 \in DOMAIN saved' /\ DOMAIN saved \subseteq DOMAIN saved'
  BY <1>2
<1>4. saved' # <<>>
  BY <1>2
<1>5. X!WasSaved(id)' /\ \A i : X!WasSaved(i) => X!WasSaved(i)'
  BY <1>2, <1>3 DEF X!WasSaved
<1>6. ASSUME NEW tab, TabFits(tab) PROVE TabFits(tab)'
  <2>1. (\E i, j \in DOMAIN saved : i < j /\ saved[i] = tab.launch)
          => \E i, j \in DOMAIN saved' : i < j /\ saved'[i] = tab.launch
    BY <1>2, <1>3
  <2>2. QED
    BY <1>5, <1>6, <2>1 DEF TabFits
<1>7. QED
  BY <1>2, <1>4, <1>5, <1>6

\* A tab that is opened, and one that is set.
LEMMA TabAdded ==
  ASSUME TabsFit, NEW i, i = None \/ X!WasSaved(i), launches \in Seq(X!Launches),
         UNCHANGED <<launches, saved>>, tabs' = Append(tabs, X!Tab(i))
  PROVE  TabsFit'
<1>1. i \in Nat \cup {None}
  BY DEF X!WasSaved
<1>2. TabFits(X!Tab(i)) /\ X!Tab(i) \in X!PlayerTabs
  BY <1>1 DEF TabFits, X!Tab, X!PlayerTabs, X!Places
<1>3. tabs \in Seq(X!PlayerTabs) /\ \A t \in 1..Len(tabs) : TabFits(tabs[t])
  BY DEF TabsFit
<1>4. /\ tabs' \in Seq(X!PlayerTabs) /\ Len(tabs') = Len(tabs) + 1 /\ Len(tabs) \in Nat
      /\ tabs'[Len(tabs) + 1] = X!Tab(i) /\ \A t \in 1..Len(tabs) : tabs'[t] = tabs[t]
  BY <1>2, <1>3, AppendProperties
<1>5. \A t \in 1..(Len(tabs) + 1) : TabFits(tabs'[t])
  BY <1>2, <1>3, <1>4
<1>6. \A t \in DOMAIN tabs' : TabFits(tabs'[t])
  BY <1>4, <1>5
<1>7. \A t \in DOMAIN tabs' : TabFits(tabs[t])'
  BY <1>6, SavedStay
<1>8. QED
  BY <1>4, <1>7 DEF TabsFit

LEMMA TabSet ==
  ASSUME TabsFit, NEW t \in DOMAIN tabs, NEW tab, TabFits(tab),
         UNCHANGED <<launches, saved>>, tabs' = [tabs EXCEPT ![t] = tab]
  PROVE  TabsFit'
<1>1. tab \in X!PlayerTabs /\ tabs \in Seq(X!PlayerTabs)
  BY DEF TabFits, TabsFit
<1>2. tabs' \in Seq(X!PlayerTabs) /\ DOMAIN tabs' = DOMAIN tabs
  BY <1>1
<1>3. \A u \in DOMAIN tabs : tabs'[u] = IF u = t THEN tab ELSE tabs[u]
  BY <1>1
<1>4. \A u \in DOMAIN tabs' : TabFits(tabs'[u])
  BY <1>2, <1>3 DEF TabsFit
<1>5. \A u \in DOMAIN tabs' : TabFits(tabs[u])'
  BY <1>4, SavedStay
<1>6. QED
  BY <1>2, <1>5 DEF TabsFit

LEMMA PopupStep ==
  ASSUME PopupFits, LaunchesFit, SavesFit,
         X!ClosePopup \/ X!Play \/ X!OpenPlayer \/ (\E u \in X!Urls : X!OpenPopup(u)) \/ (\E u \in X!Urls : X!Type(u))
  PROVE  PopupFits'
<1>1. CASE X!ClosePopup \/ X!Play \/ X!OpenPlayer
  BY <1>1 DEF X!ClosePopup, X!Play, X!OpenPlayer, PopupFits
<1>2. ASSUME NEW u \in X!Urls, X!Type(u) PROVE PopupFits'
  BY <1>2 DEF X!Type, PopupFits, X!Popups, X!AsMeant
<1>3. ASSUME NEW u \in X!Urls, X!OpenPopup(u) PROVE PopupFits'
  <2>1. CASE X!Parsed(u) # None
    <3>1. u.form # "other"
      BY <2>1 DEF X!Parsed
    <3>2. u.repo \in Projects
      BY <3>1 DEF X!Urls
    <3>3. X!CanonicalUrl(u.repo) \in X!Urls /\ X!CanonicalUrl(u.repo).repo = u.repo
      BY <3>2, MainIsABranch DEF X!CanonicalUrl, X!Urls
    <3>4. popup' = [url |-> X!CanonicalUrl(u.repo), meant |-> u, typed |-> FALSE]
      BY <1>3, <2>1 DEF X!OpenPopup
    <3>5. QED
      BY <3>1, <3>3, <3>4 DEF PopupFits, X!Popups, X!AsMeant
  <2>2. CASE X!Parsed(u) = None /\ xLast = None
    <3>1. popup' = [url |-> [form |-> "other"], meant |-> u, typed |-> FALSE]
      BY <1>3, <2>2 DEF X!OpenPopup
    <3>2. [form |-> "other"] \in X!Urls
      BY DEF X!Urls
    <3>3. QED
      BY <3>1, <3>2 DEF PopupFits, X!Popups, X!AsMeant
  <2>3. CASE X!Parsed(u) = None /\ xLast # None
    <3> DEFINE c == X!CanonicalUrl(launches[xLast].repo)
    <3>1. popup' = [url |-> c, meant |-> c, typed |-> FALSE]
      BY <1>3, <2>3 DEF X!OpenPopup
    <3>2. launches[xLast] \in X!Launches
      BY <2>3 DEF SavesFit, LaunchesFit
    <3>3. c \in X!Urls
      BY <3>2, MainIsABranch DEF X!CanonicalUrl, X!Urls, X!Launches
    <3> HIDE DEF c
    <3>4. QED
      BY <3>1, <3>3 DEF PopupFits, X!Popups, X!AsMeant
  <2>4. QED
    BY <2>1, <2>2, <2>3
<1>4. QED
  BY <1>1, <1>2, <1>3

LEMMA PlayStep ==
  ASSUME PopupFits, LaunchesFit, CallsFit, SavesFit, TabsFit, X!Play
  PROVE  LaunchesFit' /\ CallsFit' /\ SavesFit' /\ TabsFit'
<1> DEFINE l == [repo |-> X!Parsed(popup.url).repo, branch |-> X!Parsed(popup.url).branch,
                 meant |-> popup.meant, typed |-> popup.typed]
<1>1. /\ popup # None /\ X!Parsed(popup.url) # None
      /\ launches' = Append(launches, l) /\ xCalls' = Append(xCalls, "save")
      /\ UNCHANGED <<xLast, saved, tabs>>
  BY DEF X!Play
<1>2. popup \in X!Popups /\ X!AsMeant(popup)
  BY <1>1 DEF PopupFits
<1>3. popup.url \in X!Urls /\ popup.meant \in X!Urls /\ popup.typed \in BOOLEAN /\ popup.url.form # "other"
  BY <1>1, <1>2 DEF X!Popups, X!Parsed
<1>4. /\ popup.meant.form # "other" /\ popup.url.repo = popup.meant.repo
      /\ popup.typed => popup.meant = popup.url
  BY <1>2, <1>3 DEF X!AsMeant
<1>5. /\ popup.url.repo \in Projects /\ popup.url.branch \in Branches
      /\ X!Parsed(popup.url).repo = popup.url.repo /\ X!Parsed(popup.url).branch \in Branches
      /\ X!Parsed(popup.meant).repo = popup.meant.repo
  BY <1>3, <1>4, MainIsABranch DEF X!Urls, X!Parsed
<1>6. l \in X!Launches /\ l.repo = X!Parsed(l.meant).repo /\ (l.typed => l.branch = X!Parsed(l.meant).branch)
  BY <1>3, <1>4, <1>5 DEF X!Launches
<1> HIDE DEF l
<1>7. launches \in Seq(X!Launches)
  BY DEF LaunchesFit
<1>8. /\ launches' \in Seq(X!Launches) /\ Len(launches') = Len(launches) + 1 /\ Len(launches) \in Nat
      /\ launches'[Len(launches) + 1] = l /\ \A i \in DOMAIN launches : launches'[i] = launches[i]
      /\ DOMAIN launches = 1..Len(launches) /\ DOMAIN launches' = 1..(Len(launches) + 1)
      /\ DOMAIN launches \subseteq DOMAIN launches'
      /\ \A i : X!WasSaved(i) => X!WasSaved(i)'
      /\ \A tab : TabFits(tab) => TabFits(tab)'
  BY <1>1, <1>6, <1>7, LaunchAdded
<1>9. LaunchesFit'
  <2>1. ASSUME NEW i \in DOMAIN launches'
        PROVE  /\ launches'[i].repo = X!Parsed(launches'[i].meant).repo
               /\ launches'[i].typed => launches'[i].branch = X!Parsed(launches'[i].meant).branch
    <3>1. i \in DOMAIN launches \/ i = Len(launches) + 1
      BY <1>8
    <3>2. CASE i = Len(launches) + 1
      BY <1>6, <1>8, <3>2
    <3>3. CASE i \in DOMAIN launches
      BY <1>8, <3>3 DEF LaunchesFit, X!LaunchAsMeant
    <3>4. QED
      BY <3>1, <3>2, <3>3
  <2>2. X!LaunchAsMeant'
    BY <2>1 DEF X!LaunchAsMeant, X!Parsed
  <2>3. QED
    BY <1>8, <2>2 DEF LaunchesFit
<1>10. CallsFit'
  <2>1. xCalls \in Seq({"save", "open", "done"}) /\ Len(xCalls) = Len(launches)
        /\ \A i \in DOMAIN xCalls : xCalls[i] = "open" => X!WasSaved(i)
    BY DEF CallsFit
  <2>2. "save" \in {"save", "open", "done"}
    OBVIOUS
  <2>3. /\ xCalls' \in Seq({"save", "open", "done"}) /\ Len(xCalls') = Len(xCalls) + 1
        /\ xCalls'[Len(xCalls) + 1] = "save" /\ \A i \in 1..Len(xCalls) : xCalls'[i] = xCalls[i]
    BY <1>1, <2>1, <2>2, AppendProperties
  <2>4. ASSUME NEW i \in DOMAIN xCalls', xCalls'[i] = "open" PROVE X!WasSaved(i)'
    <3>1. i \in 1..Len(xCalls) /\ xCalls[i] = "open"
      BY <1>8, <2>1, <2>3, <2>4
    <3>2. X!WasSaved(i)
      BY <2>1, <3>1
    <3>3. QED
      BY <1>8, <3>2
  <2>5. QED
    BY <1>8, <2>1, <2>3, <2>4 DEF CallsFit
<1>11. SavesFit'
  BY <1>1, <1>8 DEF SavesFit
<1>12. TabsFit'
  <2>1. tabs' = tabs /\ \A t \in DOMAIN tabs : TabFits(tabs[t])'
    BY <1>1, <1>8 DEF TabsFit
  <2>2. QED
    BY <2>1 DEF TabsFit
<1>13. QED
  BY <1>9, <1>10, <1>11, <1>12

\* The steps of the worker.
LEMMA CallSet ==
  ASSUME CallsFit, NEW id \in DOMAIN xCalls, NEW after \in {"open", "done"}, launches' = launches,
         xCalls' = [xCalls EXCEPT ![id] = after],
         \A i : X!WasSaved(i) => X!WasSaved(i)', after = "open" => X!WasSaved(id)'
  PROVE  CallsFit'
<1>1. xCalls \in Seq({"save", "open", "done"})
  BY DEF CallsFit
<1>2. xCalls' \in Seq({"save", "open", "done"}) /\ DOMAIN xCalls' = DOMAIN xCalls /\ Len(xCalls') = Len(xCalls)
  BY <1>1
<1>3. \A i \in DOMAIN xCalls : xCalls'[i] = IF i = id THEN after ELSE xCalls[i]
  BY <1>1
<1>4. \A i \in DOMAIN xCalls' : xCalls'[i] = "open" => X!WasSaved(i)'
  BY <1>2, <1>3 DEF CallsFit
<1>5. QED
  BY <1>2, <1>4 DEF CallsFit

LEMMA WorkerStep ==
  ASSUME LaunchesFit, CallsFit, SavesFit, TabsFit,
         NEW id \in DOMAIN xCalls, X!Saves(id) \/ X!Opens(id) \/ X!Fails(id)
  PROVE  LaunchesFit' /\ CallsFit' /\ SavesFit' /\ TabsFit'
<1>0. launches \in Seq(X!Launches) /\ saved \in Seq(Nat) /\ id \in DOMAIN launches
      /\ \A i \in DOMAIN xCalls : xCalls[i] = "open" => X!WasSaved(i)
  <2>1. launches \in Seq(X!Launches) /\ saved \in Seq(Nat) /\ xCalls \in Seq({"save", "open", "done"}) /\ Len(xCalls) = Len(launches)
    BY DEF LaunchesFit, SavesFit, CallsFit
  <2>2. id \in DOMAIN launches
    BY <2>1
  <2>3. QED
    BY <2>1, <2>2 DEF CallsFit
<1>1. CASE X!Saves(id)
  <2>1. /\ xCalls' = [xCalls EXCEPT ![id] = "open"] /\ xLast' = id /\ saved' = Append(saved, id)
        /\ UNCHANGED <<popup, launches, tabs>>
    BY <1>1 DEF X!Saves
  <2>2. /\ saved' \in Seq(Nat) /\ saved' # <<>> /\ saved'[Len(saved')] = id
        /\ X!WasSaved(id)'
        /\ \A i : X!WasSaved(i) => X!WasSaved(i)'
        /\ \A tab : TabFits(tab) => TabFits(tab)'
    BY <1>0, <2>1, SaveAdded
  <2>3. CallsFit'
    BY <2>1, <2>2, CallSet
  <2>4. LaunchesFit'
    BY <2>1 DEF LaunchesFit, X!LaunchAsMeant
  <2>5. SavesFit'
    BY <1>0, <2>1, <2>2 DEF SavesFit
  <2>6. TabsFit'
    <3>1. tabs' = tabs /\ \A t \in DOMAIN tabs : TabFits(tabs[t])'
      BY <2>1, <2>2 DEF TabsFit
    <3>2. QED
      BY <3>1 DEF TabsFit
  <2>7. QED
    BY <2>3, <2>4, <2>5, <2>6
<1>2. CASE X!Opens(id) \/ X!Fails(id)
  <2>1. /\ xCalls' = [xCalls EXCEPT ![id] = "done"]
        /\ UNCHANGED <<popup, launches, saved, xLast>>
        /\ tabs' = tabs \/ (xCalls[id] = "open" /\ tabs' = Append(tabs, X!Tab(id)))
    BY <1>2 DEF X!Opens, X!Fails
  <2>2. CallsFit'
    BY <2>1, SavedStay, CallSet
  <2>3. LaunchesFit' /\ SavesFit'
    BY <2>1 DEF LaunchesFit, X!LaunchAsMeant, SavesFit
  <2>4. TabsFit'
    <3>1. CASE tabs' = tabs
      <4>1. \A t \in DOMAIN tabs : TabFits(tabs[t])'
        BY <2>1, <3>1, SavedStay DEF TabsFit
      <4>2. QED
        BY <3>1, <4>1 DEF TabsFit
    <3>2. CASE xCalls[id] = "open" /\ tabs' = Append(tabs, X!Tab(id))
      BY <1>0, <2>1, <3>2, TabAdded
    <3>3. QED
      BY <2>1, <3>1, <3>2
  <2>5. QED
    BY <2>2, <2>3, <2>4
<1>3. QED
  BY <1>1, <1>2

LEMMA TabStep ==
  ASSUME LaunchesFit, SavesFit, TabsFit, NEW t \in DOMAIN tabs, X!Boots(t) \/ X!Refresh(t)
  PROVE  TabsFit' /\ UNCHANGED <<popup, launches, xCalls, xLast, saved>>
<1>0. UNCHANGED <<popup, launches, xCalls, xLast, saved>>
  BY DEF X!Boots, X!Refresh
<1>1. TabFits(tabs[t]) /\ tabs[t] \in X!PlayerTabs
  BY DEF TabsFit, TabFits
<1>2. CASE X!Refresh(t)
  <2>1. tabs' = [tabs EXCEPT ![t] = X!Tab(tabs[t].launch)]
    BY <1>2 DEF X!Refresh, X!Tab
  <2>2. TabFits(X!Tab(tabs[t].launch))
    BY <1>1 DEF TabFits, X!Tab, X!PlayerTabs, X!Places
  <2>3. QED
    BY <1>0, <2>1, <2>2, TabSet
<1>3. CASE X!Boots(t)
  <2> DEFINE draft == IF xLast = None THEN None ELSE [repo |-> launches[xLast].repo, branch |-> launches[xLast].branch]
             shown == IF X!LoadsByItself(tabs[t]) THEN draft ELSE None
             tab == [tabs[t] EXCEPT !.ready = TRUE, !.draft = draft, !.shown = shown]
  <2>1. tabs' = [tabs EXCEPT ![t] = tab]
    BY <1>3 DEF X!Boots
  <2>2. draft \in X!Places /\ (xLast # None => draft # None)
    <3>1. CASE xLast = None
      BY <3>1 DEF X!Places
    <3>2. CASE xLast # None
      <4>1. launches[xLast] \in X!Launches
        BY <3>2 DEF SavesFit, LaunchesFit
      <4>2. draft \in [repo : Projects, branch : Branches]
        BY <3>2, <4>1 DEF X!Launches
      <4>3. QED
        BY <4>2, NoneIsNowhere DEF X!Places
    <3>3. QED
      BY <3>1, <3>2
  <2>3. shown \in X!Places
    BY <2>2 DEF X!Places
  <2> HIDE DEF draft, shown
  <2>4. tab \in X!PlayerTabs /\ tab.launch = tabs[t].launch /\ tab.shown = shown /\ tab.ready
    BY <1>1, <2>2, <2>3 DEF X!PlayerTabs
  <2> HIDE DEF tab
  <2>5. ASSUME tab.launch # None
        PROVE  /\ X!WasSaved(tab.launch)
               /\ IF shown # None
                  THEN shown = [repo |-> launches[tab.launch].repo, branch |-> launches[tab.launch].branch]
                  ELSE \E i, j \in DOMAIN saved : i < j /\ saved[i] = tab.launch
    <3>1. X!WasSaved(tab.launch)
      BY <1>1, <2>4, <2>5 DEF TabFits
    <3>2. PICK i \in DOMAIN saved : saved[i] = tab.launch
      BY <3>1 DEF X!WasSaved
    <3>3. saved \in Seq(Nat) /\ saved # <<>> /\ xLast = saved[Len(saved)] /\ DOMAIN saved = 1..Len(saved) /\ Len(saved) \in Nat
      BY <3>2 DEF SavesFit
    <3>4. xLast # None
      BY <3>2, <3>3, NoneIsNowhere
    <3>5. CASE tab.launch = xLast
      <4>1. shown = draft /\ draft = [repo |-> launches[xLast].repo, branch |-> launches[xLast].branch]
        BY <2>4, <3>4, <3>5 DEF shown, draft, X!LoadsByItself
      <4>2. QED
        BY <2>2, <3>1, <3>4, <3>5, <4>1
    <3>6. CASE tab.launch # xLast
      <4>1. shown = None
        BY <2>4, <2>5, <3>6 DEF shown, X!LoadsByItself
      <4>2. i < Len(saved) /\ Len(saved) \in DOMAIN saved
        BY <3>2, <3>3, <3>6
      <4>3. QED
        BY <3>1, <3>2, <4>1, <4>2
    <3>7. QED
      BY <3>5, <3>6
  <2>6. TabFits(tab)
    BY <2>4, <2>5 DEF TabFits
  <2>7. QED
    BY <1>0, <2>1, <2>6, TabSet
<1>4. QED
  BY <1>0, <1>2, <1>3

LEMMA LaunchStays ==
  ASSUME X!LaunchInvariant, [X!Next]_xVars
  PROVE  X!LaunchInvariant'
<1>0. PopupFits /\ LaunchesFit /\ CallsFit /\ SavesFit /\ TabsFit
  BY LaunchParts
<1>p. X!LaunchInvariant' <=> PopupFits' /\ LaunchesFit' /\ CallsFit' /\ SavesFit' /\ TabsFit'
  BY LaunchPartsNext
<1>s. ASSUME UNCHANGED <<launches, saved>>
      PROVE  /\ LaunchesFit'
             /\ UNCHANGED xLast => SavesFit'
             /\ UNCHANGED xCalls => CallsFit'
             /\ UNCHANGED tabs => TabsFit'
  <2>1. LaunchesFit' /\ (UNCHANGED xLast => SavesFit') /\ (UNCHANGED xCalls => CallsFit')
    BY <1>0, <1>s DEF LaunchesFit, X!LaunchAsMeant, SavesFit, CallsFit, X!WasSaved
  <2>2. UNCHANGED tabs => TabsFit'
    BY <1>0, <1>s, SavedStay DEF TabsFit
  <2>3. QED
    BY <2>1, <2>2
<1>1. CASE X!Play
  BY <1>0, <1>p, <1>1, PlayStep, PopupStep
<1>2. CASE X!ClosePopup \/ (\E u \in X!Urls : X!OpenPopup(u)) \/ (\E u \in X!Urls : X!Type(u))
  <2>1. UNCHANGED <<launches, xCalls, xLast, saved, tabs>>
    BY <1>2 DEF X!ClosePopup, X!OpenPopup, X!Type
  <2>2. PopupFits'
    BY <1>0, <1>2, PopupStep
  <2>3. QED
    BY <1>p, <1>s, <2>1, <2>2
<1>3. CASE X!OpenPlayer
  <2>1. UNCHANGED <<launches, xCalls, xLast, saved>> /\ tabs' = Append(tabs, X!Tab(None))
    BY <1>3 DEF X!OpenPlayer
  <2>2. TabsFit'
    BY <1>0, <2>1, TabAdded DEF LaunchesFit
  <2>3. PopupFits'
    BY <1>0, <1>3, PopupStep
  <2>4. QED
    BY <1>p, <1>s, <2>1, <2>2, <2>3
<1>4. ASSUME NEW id \in DOMAIN xCalls, X!Saves(id) \/ X!Opens(id) \/ X!Fails(id) PROVE X!LaunchInvariant'
  <2>1. LaunchesFit' /\ CallsFit' /\ SavesFit' /\ TabsFit'
    BY <1>0, <1>4, WorkerStep
  <2>2. popup' = popup
    BY <1>4 DEF X!Saves, X!Opens, X!Fails
  <2>3. PopupFits'
    BY <1>0, <2>2 DEF PopupFits, X!AsMeant
  <2>4. QED
    BY <1>p, <2>1, <2>3
<1>5. ASSUME NEW t \in DOMAIN tabs, X!Boots(t) \/ X!Refresh(t) PROVE X!LaunchInvariant'
  <2>1. TabsFit' /\ UNCHANGED <<popup, launches, xCalls, xLast, saved>>
    BY <1>0, <1>5, TabStep
  <2>2. PopupFits'
    BY <1>0, <2>1 DEF PopupFits, X!AsMeant
  <2>3. QED
    BY <1>p, <1>s, <2>1, <2>2
<1>6. CASE UNCHANGED xVars
  <2>1. UNCHANGED <<popup, launches, xCalls, xLast, saved, tabs>>
    BY <1>6 DEF xVars
  <2>2. PopupFits'
    BY <1>0, <2>1 DEF PopupFits, X!AsMeant
  <2>3. QED
    BY <1>p, <1>s, <2>1, <2>2
<1>7. QED
  BY <1>1, <1>2, <1>3, <1>4, <1>5, <1>6 DEF X!Next

LEMMA LaunchSuffices ==
  ASSUME X!LaunchInvariant PROVE X!TabsLoadTheirOwn /\ X!LaunchAsMeant
BY DEF X!LaunchInvariant

-----------------------------------------------------------------------------
(* The sources of a replay (publicRepoAdapter.js and its neighbours). *)

LEMMA SourcesBegin ==
  ASSUME R!Init PROVE R!SourcesInvariant
BY DEF R!Init, R!SourcesInvariant, R!TypeOK, R!NothingInPart, R!Call

\* What is asked is a call, and only those with a token ask for approvals.
LEMMA AskedAreCalls ==
  /\ \A S \in SUBSET Commits : R!AboutCommit \X S \subseteq R!Call
  /\ \A S \in SUBSET Pulls : R!AboutPull \X S \subseteq R!Call
  /\ {"pulls"} \X {None} \subseteq R!Call
  /\ "approvals" \in R!AboutPull => access.token = TRUE \/ access.token
<1>1. R!AboutCommit \subseteq R!Kinds /\ R!AboutPull \subseteq R!Kinds
  BY DEF R!AboutCommit, R!AboutPull, R!Kinds
<1>2. "approvals" \in R!AboutPull => access.token = TRUE \/ access.token
  BY DEF R!AboutPull
<1>3. QED
  BY <1>1, <1>2 DEF R!Call

LEMMA ListStep ==
  ASSUME R!SourcesInvariant, R!ListArrives \/ R!PullsArrive \/ \E why \in Failures : R!LoadFails(why)
  PROVE  R!SourcesInvariant'
<1>0. /\ access \in R!Access /\ read \subseteq Commits /\ threads \subseteq Pulls /\ lacking \subseteq Pulls
      /\ stage # "failed" => code = None
      /\ stage \in {"list", "details"} => read = {}
      /\ stage \in {"list", "details", "pulls", "threads"} => threads = {}
      /\ stage \in {"list", "details", "pulls"} => lacking = {}
  BY DEF R!SourcesInvariant, R!TypeOK, R!NothingInPart
<1>1. CASE R!ListArrives
  <2>1. PICK found \in SUBSET Commits :
          /\ rListed' = found
          /\ IF found = {} THEN R!AsksForPulls ELSE R!Asks("details", R!AboutCommit, found)
    BY <1>1 DEF R!ListArrives
  <2>2. stage = "list" /\ UNCHANGED <<access, read, threads, lacking, code>>
    BY <1>1 DEF R!ListArrives
  <2>3. R!AboutCommit' = R!AboutCommit /\ R!AboutPull' = R!AboutPull
    BY <2>2 DEF R!AboutCommit, R!AboutPull
  <2>4. CASE found = {}
    <3>1. stage' = "pulls" /\ rCalls' = {"pulls"} \X {None} /\ got' = {}
      BY <2>1, <2>4 DEF R!AsksForPulls, R!Asks
    <3>2. QED
      BY <1>0, <2>1, <2>2, <3>1, AskedAreCalls DEF R!SourcesInvariant, R!TypeOK, R!NothingInPart
  <2>5. CASE found # {}
    <3>1. stage' = "details" /\ rCalls' = R!AboutCommit \X found /\ got' = {}
      BY <2>1, <2>5 DEF R!Asks
    <3>2. rCalls' \subseteq R!Call
      BY <3>1, AskedAreCalls
    <3>3. QED
      BY <1>0, <2>1, <2>2, <2>3, <3>1, <3>2 DEF R!SourcesInvariant, R!TypeOK, R!NothingInPart
  <2>6. QED
    BY <2>4, <2>5
<1>2. CASE R!PullsArrive
  <2>1. PICK found \in SUBSET Pulls :
          /\ rListed' = found
          /\ IF found = {} THEN R!Shows ELSE R!Asks("threads", R!AboutPull, found)
    BY <1>2 DEF R!PullsArrive
  <2>2. stage = "pulls" /\ UNCHANGED <<access, read, threads, lacking, code>>
    BY <1>2 DEF R!PullsArrive
  <2>3. R!AboutCommit' = R!AboutCommit /\ R!AboutPull' = R!AboutPull
    BY <2>2 DEF R!AboutCommit, R!AboutPull
  <2>4. CASE found = {}
    <3>1. stage' = "shown" /\ rCalls' = {} /\ got' = {}
      BY <2>1, <2>4 DEF R!Shows
    <3>2. QED
      BY <1>0, <2>1, <2>2, <3>1 DEF R!SourcesInvariant, R!TypeOK, R!NothingInPart
  <2>5. CASE found # {}
    <3>1. stage' = "threads" /\ rCalls' = R!AboutPull \X found /\ got' = {}
      BY <2>1, <2>5 DEF R!Asks
    <3>2. rCalls' \subseteq R!Call
      BY <3>1, AskedAreCalls
    <3>3. QED
      BY <1>0, <2>1, <2>2, <2>3, <3>1, <3>2 DEF R!SourcesInvariant, R!TypeOK, R!NothingInPart
  <2>6. QED
    BY <2>4, <2>5
<1>3. ASSUME NEW why \in Failures, R!LoadFails(why) PROVE R!SourcesInvariant'
  <2>1. /\ stage \in {"list", "details"} /\ stage' = "failed" /\ rCalls' = {} /\ got' = {}
        /\ code' \in Failures \cup {"none"} /\ UNCHANGED <<access, rListed, read, threads, lacking>>
    BY <1>3 DEF R!LoadFails
  <2>2. rListed \subseteq Commits \cup Pulls
    BY DEF R!SourcesInvariant, R!TypeOK
  <2>3. QED
    BY <1>0, <2>1, <2>2 DEF R!SourcesInvariant, R!TypeOK, R!NothingInPart
<1>4. QED
  BY <1>1, <1>2, <1>3

LEMMA AnswerStep ==
  ASSUME R!SourcesInvariant, NEW c \in rCalls,
         R!DetailArrives(c) \/ R!ThreadArrives(c) \/ R!ApprovalsFail(c) \/ R!OverlayFails(c)
  PROVE  R!SourcesInvariant'
<1>0. /\ access \in R!Access /\ read \subseteq Commits /\ threads \subseteq Pulls /\ lacking \subseteq Pulls
      /\ rCalls \subseteq R!Call /\ got \subseteq R!Call /\ rListed \subseteq Commits \cup Pulls
      /\ code \in Failures \cup {None, "none"}
      /\ stage # "failed" => code = None
      /\ stage \in {"list", "details"} => read = {}
      /\ stage \in {"list", "details", "pulls", "threads"} => threads = {}
      /\ stage \in {"list", "details", "pulls"} => lacking = {}
      /\ stage = "details" => rListed \subseteq Commits /\ got \cup rCalls = R!AboutCommit \X rListed
      /\ stage = "threads" => /\ rListed \subseteq Pulls /\ lacking \subseteq rListed
                              /\ got \cup rCalls = R!AboutPull \X rListed
      /\ lacking # {} => access.token
  BY DEF R!SourcesInvariant, R!TypeOK, R!NothingInPart
<1>1. CASE R!DetailArrives(c)
  <2>1. stage = "details" /\ UNCHANGED <<access, rListed, threads, lacking, code>>
    BY <1>1 DEF R!DetailArrives
  <2>2. R!AboutCommit' = R!AboutCommit /\ R!AboutPull' = R!AboutPull
    BY <2>1 DEF R!AboutCommit, R!AboutPull
  <2>3. CASE rCalls = {c}
    <3>1. stage' = "pulls" /\ rCalls' = {"pulls"} \X {None} /\ got' = {} /\ read' = rListed
      BY <1>1, <2>3 DEF R!DetailArrives, R!AsksForPulls, R!Asks
    <3>2. rCalls' \subseteq R!Call
      BY <3>1, AskedAreCalls
    <3>3. QED
      BY <1>0, <2>1, <3>1, <3>2 DEF R!SourcesInvariant, R!TypeOK, R!NothingInPart
  <2>4. CASE rCalls # {c}
    <3>1. rCalls' = rCalls \ {c} /\ got' = got \cup {c} /\ stage' = stage /\ read' = read
      BY <1>1, <2>4 DEF R!DetailArrives
    <3>2. got' \cup rCalls' = got \cup rCalls /\ rCalls' \subseteq R!Call /\ got' \subseteq R!Call
      BY <1>0, <3>1
    <3>3. QED
      BY <1>0, <2>1, <2>2, <3>1, <3>2 DEF R!SourcesInvariant, R!TypeOK, R!NothingInPart
  <2>5. QED
    BY <2>3, <2>4
<1>2. CASE R!ThreadArrives(c) \/ R!ApprovalsFail(c)
  <2>1. /\ stage = "threads" /\ R!Whole(c) /\ UNCHANGED <<access, rListed, read, code>>
        /\ lacking' = lacking \/ (c[1] = "approvals" /\ lacking' = lacking \cup {c[2]})
    BY <1>2 DEF R!ThreadArrives, R!ApprovalsFail
  <2>2. R!AboutCommit' = R!AboutCommit /\ R!AboutPull' = R!AboutPull
    BY <2>1 DEF R!AboutCommit, R!AboutPull
  <2>3. c \in R!AboutPull \X rListed
    BY <1>0, <2>1
  <2>4. c[1] \in R!AboutPull /\ c[2] \in rListed
    BY <2>3
  <2>5. lacking' \subseteq rListed /\ (lacking' # {} => access.token)
    BY <1>0, <2>1, <2>4, AskedAreCalls
  <2>6. CASE rCalls = {c}
    <3>1. stage' = "shown" /\ rCalls' = {} /\ got' = {} /\ threads' = rListed
      BY <2>1, <2>6 DEF R!Whole, R!Shows
    <3>2. QED
      BY <1>0, <2>1, <2>5, <3>1 DEF R!SourcesInvariant, R!TypeOK, R!NothingInPart
  <2>7. CASE rCalls # {c}
    <3>1. rCalls' = rCalls \ {c} /\ got' = got \cup {c} /\ stage' = stage /\ threads' = threads
      BY <2>1, <2>7 DEF R!Whole
    <3>2. got' \cup rCalls' = got \cup rCalls /\ rCalls' \subseteq R!Call /\ got' \subseteq R!Call
      BY <1>0, <3>1
    <3>3. QED
      BY <1>0, <2>1, <2>2, <2>5, <3>1, <3>2 DEF R!SourcesInvariant, R!TypeOK, R!NothingInPart
  <2>8. QED
    BY <2>6, <2>7
<1>3. CASE R!OverlayFails(c)
  <2>1. /\ stage \in {"pulls", "threads"} /\ stage' = "shown" /\ rCalls' = {} /\ got' = {} /\ lacking' = {}
        /\ UNCHANGED <<access, rListed, read, threads, code>>
    BY <1>3 DEF R!OverlayFails, R!Shows
  <2>2. QED
    BY <1>0, <2>1 DEF R!SourcesInvariant, R!TypeOK, R!NothingInPart
<1>4. QED
  BY <1>1, <1>2, <1>3

LEMMA SourcesStay ==
  ASSUME R!SourcesInvariant, [R!Next]_rVars
  PROVE  R!SourcesInvariant'
<1>1. CASE UNCHANGED rVars
  BY <1>1 DEF rVars, R!SourcesInvariant, R!TypeOK, R!NothingInPart, R!AboutCommit, R!AboutPull
<1>2. CASE R!Next
  BY <1>2, ListStep, AnswerStep DEF R!Next
<1>3. QED
  BY <1>1, <1>2

-----------------------------------------------------------------------------
(* The threads of a pull request. *)

\* A set of numbers has a smallest one.
LEMMA FirstNumber ==
  ASSUME NEW S \in SUBSET Nat, S # {}
  PROVE  \E m \in S : \A n \in S : m <= n
<1> DEFINE Below == OpToRel(<, Nat)
<1>1. IsWellFoundedOn(Below, Nat)
  BY NatLessThanWellFounded
<1>2. \A m, n \in Nat : n < m => <<n, m>> \in Below
  BY DEF OpToRel
<1> HIDE DEF Below
<1>3. PICK m \in S : \A n \in S : ~ (<<n, m>> \in Below)
  BY <1>1, WFMin
<1>4. \A n \in S : m <= n
  <2> TAKE n \in S
  <2>1. m \in Nat /\ n \in Nat /\ ~ (n < m)
    BY <1>2, <1>3
  <2>2. QED
    BY <2>1
<1>5. QED
  BY <1>4

\* What holds of 1, and of each after the one before it, holds of all: no first one lacks it.
LEMMA EachAfterTheOther ==
  ASSUME NEW n \in Nat, NEW S, 1 \in S, \A k \in 2..n : k - 1 \in S => k \in S
  PROVE  1..n \subseteq S
<1> DEFINE Bad == {k \in 1..n : k \notin S}
<1>1. SUFFICES ASSUME Bad # {} PROVE FALSE
  OBVIOUS
<1>2. PICK k \in Bad : \A m \in Bad : k <= m
  <2>1. Bad \in SUBSET Nat
    OBVIOUS
  <2> HIDE DEF Bad
  <2>2. QED
    BY <1>1, <2>1, FirstNumber
<1>3. k \in 2..n /\ k \notin S /\ k - 1 \in 1..n
  <2>1. k \in 1..n /\ k \notin S
    OBVIOUS
  <2>2. QED
    BY <2>1
<1>4. k - 1 \in S
  <2>1. ~ (k <= k - 1)
    BY <1>3
  <2>2. QED
    BY <1>2, <1>3, <2>1
<1>5. QED
  BY <1>3, <1>4

\* What is written of a discussion: its events, and whether it is resolved.
EventNames == {"review-request-changes", "review-resolve", "review-reopen"}
EventName(k) == IF k = 1 THEN "review-request-changes" ELSE IF k % 2 = 0 THEN "review-resolve" ELSE "review-reopen"
Written(e, resolved) ==
  /\ e \in Seq(EventNames) /\ Len(e) > 0
  /\ \A k \in 1..Len(e) : e[k] = EventName(k)
  /\ resolved \in BOOLEAN
  /\ (Len(e) % 2 = 0) = resolved

LEMMA EventWritten ==
  ASSUME NEW e, NEW old, Written(e, old), NEW new \in BOOLEAN, NEW piece,
         piece = (IF new = old THEN <<>> ELSE IF new THEN <<"review-resolve">> ELSE <<"review-reopen">>)
  PROVE  Written(e \o piece, new) /\ piece \in Seq(EventNames)
<1>0. e \in Seq(EventNames) /\ Len(e) \in Nat /\ Len(e) > 0 /\ old \in BOOLEAN
  BY DEF Written
<1>1. CASE new = old
  <2>1. piece = <<>> /\ piece \in Seq(EventNames)
    BY <1>1
  <2>2. e \o piece = e
    BY <1>0, <2>1, ConcatEmptySeq
  <2>3. QED
    BY <1>1, <2>1, <2>2
<1>2. CASE new # old
  <2> DEFINE m == Len(e) + 1
             w == IF new THEN "review-resolve" ELSE "review-reopen"
  <2>1. piece = <<w>> /\ w \in EventNames
    BY <1>2 DEF EventNames
  <2>2. piece \in Seq(EventNames) /\ Len(piece) = 1 /\ piece[1] = w
    BY <2>1
  <2>3. e \o piece \in Seq(EventNames) /\ Len(e \o piece) = m /\ (e \o piece)[m] = w
        /\ \A k \in 1..Len(e) : (e \o piece)[k] = e[k]
    BY <1>0, <2>2, ConcatProperties
  <2>4. m \in Nat /\ m > 1 /\ ((m % 2 = 0) <=> ~ (Len(e) % 2 = 0))
    BY <1>0
  <2>5. (m % 2 = 0) = new
    BY <1>2, <2>4 DEF Written
  <2>6. w = EventName(m)
    <3>1. m # 1
      BY <2>4
    <3>2. QED
      BY <2>5, <3>1 DEF EventName
  <2>7. \A k \in 1..m : (e \o piece)[k] = EventName(k)
    <3>1. \A k \in 1..m : k \in 1..Len(e) \/ k = m
      BY <1>0
    <3>2. \A k \in 1..Len(e) : e[k] = EventName(k)
      BY DEF Written
    <3> HIDE DEF m, w
    <3>3. QED
      BY <2>3, <2>6, <3>1, <3>2
  <2>8. Len(e \o piece) > 0
    BY <2>3, <2>4
  <2> HIDE DEF m, w
  <2>9. QED
    BY <2>2, <2>3, <2>5, <2>7, <2>8 DEF Written
<1>3. QED
  BY <1>1, <1>2

\* The sequence that joins the first of some sequences.
Joined(f, s) == f = [i \in 1..Len(s) |-> IF i = 1 THEN s[i] ELSE f[i - 1] \o s[i]]

LEMMA JoinedUpTo ==
  ASSUME NEW n \in Nat, NEW s
  PROVE  \A k \in 1..n : \E f : f = [i \in 1..k |-> IF i = 1 THEN s[i] ELSE f[i - 1] \o s[i]]
<1> DEFINE J(k) == \E f : f = [i \in 1..k |-> IF i = 1 THEN s[i] ELSE f[i - 1] \o s[i]]
           S == {k \in Nat : J(k)}
<1>1. J(1)
  <2> DEFINE g == [i \in 1..1 |-> s[i]]
  <2>1. g = [i \in 1..1 |-> IF i = 1 THEN s[i] ELSE g[i - 1] \o s[i]]
    OBVIOUS
  <2> HIDE DEF g
  <2>2. QED
    BY <2>1
<1>2. ASSUME NEW k \in 2..n, J(k - 1) PROVE J(k)
  <2>1. PICK f : f = [i \in 1..(k - 1) |-> IF i = 1 THEN s[i] ELSE f[i - 1] \o s[i]]
    BY <1>2
  <2> DEFINE g == [i \in 1..k |-> IF i = k THEN f[k - 1] \o s[k] ELSE f[i]]
  <2>2. ASSUME NEW i \in 1..k PROVE g[i] = IF i = 1 THEN s[i] ELSE g[i - 1] \o s[i]
    <3>1. CASE i = k
      <4>1. k # 1 /\ k - 1 \in 1..k /\ k \in 1..k /\ k - 1 # k
        OBVIOUS
      <4>2. g[k] = f[k - 1] \o s[k] /\ g[k - 1] = f[k - 1]
        BY <4>1
      <4> HIDE DEF g
      <4>3. QED
        BY <3>1, <4>1, <4>2
    <3>2. CASE i # k
      <4>1. i \in 1..(k - 1) /\ (i # 1 => i - 1 \in 1..k /\ i - 1 # k)
        BY <3>2
      <4>2. g[i] = f[i] /\ (i # 1 => g[i - 1] = f[i - 1])
        BY <3>2, <4>1
      <4>3. f[i] = IF i = 1 THEN s[i] ELSE f[i - 1] \o s[i]
        BY <2>1, <4>1
      <4> HIDE DEF g
      <4>4. QED
        BY <4>2, <4>3
    <3>3. QED
      BY <3>1, <3>2
  <2>3. g = [i \in 1..k |-> IF i = 1 THEN s[i] ELSE g[i - 1] \o s[i]]
    <3>1. g = [i \in 1..k |-> g[i]]
      OBVIOUS
    <3> HIDE DEF g
    <3>2. QED
      BY <2>2, <3>1
  <2> HIDE DEF g
  <2>4. QED
    BY <2>3
<1> HIDE DEF J
<1>3. 1 \in S /\ \A k \in 2..n : k - 1 \in S => k \in S
  <2>1. \A k \in 2..n : k \in Nat /\ k - 1 \in Nat
    OBVIOUS
  <2>2. QED
    BY <1>1, <1>2, <2>1
<1> HIDE DEF S
<1>4. 1..n \subseteq S
  BY <1>3, EachAfterTheOther
<1>5. \A k \in 1..n : J(k)
  BY <1>4 DEF S
<1>6. QED
  BY <1>5 DEF J

\* However long a discussion is, its state events alternate between closing and opening it again,
\* after the one that opened it, and the last says whether it is resolved
\* (mapGitLabDiscussionToOverlayEvents, collaborationOverlayAdapter.js).
THEOREM DiscussionWritten ==
  ASSUME NEW n \in Nat, n > 0, NEW d \in [1..n -> BOOLEAN]
  PROVE  Written(R!StateEvents(d), d[n])
<1> DEFINE Piece(k) == IF d[k] = (k > 1 /\ d[k - 1]) THEN <<>>
                       ELSE IF d[k] THEN <<"review-resolve">> ELSE <<"review-reopen">>
           s == [k \in DOMAIN d |-> Piece(k)]
           opened == <<"review-request-changes">>
<1>1. DOMAIN d = 1..n /\ d # <<>>
  OBVIOUS
<1>2. R!StateEvents(d) = opened \o R!FlattenSeq(s)
  BY <1>1 DEF R!StateEvents
<1>3. Len(s) = n
  BY <1>1
<1>4. \A k \in 1..n : s[k] = Piece(k)
  BY <1>1
<1>5. s[1] = (IF d[1] = FALSE THEN <<>> ELSE IF d[1] THEN <<"review-resolve">> ELSE <<"review-reopen">>)
  <2>1. 1 \in 1..n /\ ~ (1 > 1)
    OBVIOUS
  <2>2. QED
    BY <1>4, <2>1
<1>6. ASSUME NEW k \in 2..n
      PROVE  s[k] = (IF d[k] = d[k - 1] THEN <<>> ELSE IF d[k] THEN <<"review-resolve">> ELSE <<"review-reopen">>)
  <2>1. k \in 1..n /\ k > 1 /\ k - 1 \in 1..n
    OBVIOUS
  <2>2. d[k - 1] \in BOOLEAN
    BY <2>1
  <2>3. s[k] = Piece(k)
    BY <1>4, <2>1
  <2>4. (k > 1 /\ d[k - 1]) = d[k - 1]
    BY <2>1, <2>2
  <2>5. QED
    BY <2>3, <2>4
<1> HIDE DEF s
<1>7. PICK f : f = [i \in 1..n |-> IF i = 1 THEN s[i] ELSE f[i - 1] \o s[i]]
  <2>1. \A k \in 1..n : \E f : f = [i \in 1..k |-> IF i = 1 THEN s[i] ELSE f[i - 1] \o s[i]]
    BY JoinedUpTo
  <2>2. n \in 1..n
    OBVIOUS
  <2>3. QED
    BY <2>1, <2>2
<1> DEFINE joined == CHOOSE g : g = [i \in 1..n |-> IF i = 1 THEN s[i] ELSE g[i - 1] \o s[i]]
<1>8. joined = [i \in 1..n |-> IF i = 1 THEN s[i] ELSE joined[i - 1] \o s[i]]
  BY <1>7
<1>9. R!FlattenSeq(s) = joined[n]
  BY <1>3 DEF R!FlattenSeq
<1> HIDE DEF joined
<1> DEFINE Goal(k) == joined[k] \in Seq(EventNames) /\ Written(opened \o joined[k], d[k])
           S == {k \in Nat : Goal(k)}
<1>10. opened \in Seq(EventNames) /\ Written(opened, FALSE)
  <2>1. "review-request-changes" \in EventNames
    BY DEF EventNames
  <2>2. opened \in Seq(EventNames) /\ Len(opened) = 1 /\ opened[1] = "review-request-changes"
    BY <2>1
  <2>3. \A k \in 1..1 : k = 1
    OBVIOUS
  <2>4. ~ (1 % 2 = 0) /\ 1 > 0
    OBVIOUS
  <2> HIDE DEF opened
  <2>5. QED
    BY <2>2, <2>3, <2>4 DEF Written, EventName
<1> HIDE DEF opened
<1>11. Goal(1)
  <2>1. joined[1] = s[1] /\ d[1] \in BOOLEAN
    BY <1>8
  <2>2. QED
    BY <1>5, <1>10, <2>1, EventWritten
<1>12. ASSUME NEW k \in 2..n, Goal(k - 1) PROVE Goal(k)
  <2>1. k \in 1..n /\ k # 1 /\ d[k] \in BOOLEAN /\ d[k - 1] \in BOOLEAN
    OBVIOUS
  <2>2. joined[k] = joined[k - 1] \o s[k]
    BY <1>8, <2>1
  <2>3. Written((opened \o joined[k - 1]) \o s[k], d[k]) /\ s[k] \in Seq(EventNames)
    BY <1>6, <1>12, <2>1, EventWritten
  <2>4. (opened \o joined[k - 1]) \o s[k] = opened \o joined[k]
    <3>1. joined[k - 1] \in Seq(EventNames)
      BY <1>12
    <3>2. (opened \o joined[k - 1]) \o s[k] = opened \o (joined[k - 1] \o s[k])
      <4>1. \A a, b, c \in Seq(EventNames) : (a \o b) \o c = a \o (b \o c)
        BY ConcatAssociative
      <4>2. QED
        BY <1>10, <2>3, <3>1, <4>1, Zenon
    <3>3. QED
      BY <2>2, <3>2
  <2>5. joined[k] \in Seq(EventNames)
    BY <1>12, <2>2, <2>3, ConcatProperties
  <2>6. QED
    BY <2>3, <2>4, <2>5
<1> HIDE DEF Goal
<1>13. 1 \in S /\ \A k \in 2..n : k - 1 \in S => k \in S
  <2>1. \A k \in 2..n : k \in Nat /\ k - 1 \in Nat
    OBVIOUS
  <2>2. QED
    BY <1>11, <1>12, <2>1
<1> HIDE DEF S
<1>14. 1..n \subseteq S /\ n \in 1..n
  <2>1. 1..n \subseteq S
    BY <1>13, EachAfterTheOther
  <2>2. QED
    BY <2>1
<1>15. Goal(n)
  BY <1>14 DEF S
<1>16. QED
  BY <1>2, <1>9, <1>15 DEF Goal

LEMMA DiscussionsHold == R!DiscussionsAlternate
<1>1. SUFFICES ASSUME NEW d \in R!Discussions, d # <<>>
      PROVE  /\ \A k \in 1..Len(R!StateEvents(d)) : R!StateEvents(d)[k] = EventName(k)
             /\ (R!Last(R!StateEvents(d)) = "review-resolve") = R!Last(d)
  BY Zenon DEF R!DiscussionsAlternate, EventName
<1>2. PICK n \in 0..4 : d \in [1..n -> BOOLEAN]
  BY DEF R!Discussions
<1>3. n \in Nat /\ n > 0
  BY <1>1, <1>2
<1>4. Written(R!StateEvents(d), d[n])
  BY <1>2, <1>3, DiscussionWritten
<1>5. Len(d) = n
  BY <1>2, <1>3
<1>6. R!Last(d) = d[n] /\ R!Last(R!StateEvents(d)) = R!StateEvents(d)[Len(R!StateEvents(d))]
  BY <1>5 DEF R!Last
<1> DEFINE e == R!StateEvents(d)
<1>7. e \in Seq(EventNames) /\ Len(e) > 0 /\ Len(e) \in 1..Len(e) /\ (Len(e) % 2 = 0) = d[n]
      /\ \A k \in 1..Len(e) : e[k] = EventName(k)
  <2>1. e \in Seq(EventNames) /\ Len(e) > 0 /\ (Len(e) % 2 = 0) = d[n] /\ \A k \in 1..Len(e) : e[k] = EventName(k)
    BY <1>4 DEF Written
  <2> HIDE DEF e
  <2>2. Len(e) \in 1..Len(e)
    BY <2>1
  <2>3. QED
    BY <2>1, <2>2
<1> HIDE DEF e
<1>8. (e[Len(e)] = "review-resolve") <=> (Len(e) % 2 = 0)
  <2>1. e[Len(e)] = EventName(Len(e))
    BY <1>7
  <2>2. Len(e) = 1 => ~ (Len(e) % 2 = 0)
    OBVIOUS
  <2>3. QED
    BY <2>1, <2>2 DEF EventName
<1>9. (e[Len(e)] = "review-resolve") = d[n]
  BY <1>7, <1>8
<1>10. QED
  BY <1>6, <1>7, <1>9 DEF e

-----------------------------------------------------------------------------
(* What is heard of a run (PlayerRunPanel.jsx and its audio drivers). *)

Pending == {"resume", "suspend"}
States == {None, "suspended", "running"}

\* The invariant by what it is about: the context and what it was asked for, the run, its cues,
\* and those of a run that was heard from its beginning.
SoundFits ==
  /\ context \in States /\ control \in Seq(Pending)
  /\ aMissed \in BOOLEAN /\ hurried \in BOOLEAN
  /\ context = None => control = <<>>
  /\ aStatus = "running" /\ ~aMissed => A!Final = "running"
  /\ aStatus # "running" /\ ~hurried => A!Final # "running"
RunFits ==
  /\ aStatus \in {"idle", "running", "paused", "complete"} /\ step \in 0..LastStep
  /\ sound \in BOOLEAN /\ full \in BOOLEAN /\ chart \in {None, "load", "autoplay"}
  /\ aAsked \in 0..MaxAutoplays
  /\ full => sound
Rising(h, top) ==
  /\ h \in Seq(0..LastStep)
  /\ \A i, j \in DOMAIN h : i < j => h[i] < h[j]
  /\ \A i \in DOMAIN h : h[i] <= top
CuesFit ==
  /\ last \in -1..LastStep /\ Rising(aHeard, LastStep)
  /\ aStatus \in {"running", "paused"} => last <= step /\ Rising(aHeard, last)
UpTo(s) == [k \in 1..s + 1 |-> k - 1]
FullFits == aStatus \in {"running", "paused"} /\ full => last = step /\ aHeard = UpTo(step)

LEMMA AudioParts ==
  A!AudioInvariant <=> SoundFits /\ RunFits /\ CuesFit /\ FullFits
<1>1. A!AudioInvariant => SoundFits
  BY DEF A!AudioInvariant, A!TypeOK, SoundFits, Pending, States
<1>2. A!AudioInvariant => RunFits
  BY DEF A!AudioInvariant, A!TypeOK, RunFits
<1>3. A!AudioInvariant => CuesFit
  <2>1. ASSUME A!AudioInvariant PROVE CuesFit
    <3>1. /\ last \in -1..LastStep /\ aHeard \in Seq(0..LastStep)
          /\ \A i, j \in DOMAIN aHeard : i < j => aHeard[i] < aHeard[j]
          /\ aStatus \in {"running", "paused"} => last <= step /\ \A i \in DOMAIN aHeard : aHeard[i] <= last
      BY <2>1 DEF A!AudioInvariant, A!TypeOK
    <3>2. \A i \in DOMAIN aHeard : aHeard[i] <= LastStep
      BY <3>1, RunsEndSomewhere
    <3>3. QED
      BY <3>1, <3>2 DEF CuesFit, Rising
  <2>2. QED
    BY <2>1
<1>4. A!AudioInvariant => FullFits
  BY DEF A!AudioInvariant, FullFits, UpTo
<1>5. SoundFits /\ RunFits /\ CuesFit /\ FullFits => A!AudioInvariant
  <2>1. SoundFits /\ RunFits /\ CuesFit => A!TypeOK /\ aHeard \in Seq(0..LastStep) /\ full \in BOOLEAN /\ (full => sound)
    BY DEF A!TypeOK, SoundFits, RunFits, CuesFit, Rising, Pending, States
  <2>2. CuesFit =>
          /\ \A i, j \in DOMAIN aHeard : i < j => aHeard[i] < aHeard[j]
          /\ aStatus \in {"running", "paused"} => last <= step /\ \A i \in DOMAIN aHeard : aHeard[i] <= last
    BY DEF CuesFit, Rising
  <2>3. FullFits => (aStatus \in {"running", "paused"} /\ full =>
                       last = step /\ aHeard = [k \in 1..step + 1 |-> k - 1])
    BY DEF FullFits, UpTo
  <2>4. SoundFits =>
          /\ context = None => control = <<>>
          /\ aStatus = "running" /\ ~aMissed => A!Final = "running"
          /\ aStatus # "running" /\ ~hurried => A!Final # "running"
    BY DEF SoundFits
  <2>5. QED
    BY <2>1, <2>2, <2>3, <2>4 DEF A!AudioInvariant
<1>6. QED
  BY <1>1, <1>2, <1>3, <1>4, <1>5

LEMMA AudioPartsNext ==
  A!AudioInvariant' <=> SoundFits' /\ RunFits' /\ CuesFit' /\ FullFits'
BY AudioParts, PTL

LEMMA AudioBegins ==
  ASSUME A!Init PROVE A!AudioInvariant
<1>1. /\ context = None /\ control = <<>> /\ aStatus = "idle" /\ step = 0 /\ sound = TRUE
      /\ last = -1 /\ aHeard = <<>> /\ full = FALSE /\ chart = None
      /\ aMissed = FALSE /\ hurried = FALSE /\ aAsked = 0
  BY DEF A!Init
<1>2. LastStep \in Nat /\ MaxAutoplays \in Nat /\ None # "running"
  BY RunsEndSomewhere, NoneIsNowhere
<1>3. SoundFits
  <2>1. control \in Seq(Pending)
    BY <1>1
  <2>2. A!Final = None
    BY <1>1 DEF A!Final
  <2>3. QED
    BY <1>1, <1>2, <2>1, <2>2 DEF SoundFits, States
<1>4. RunFits
  <2>1. step \in 0..LastStep /\ aAsked \in 0..MaxAutoplays
    BY <1>1, <1>2
  <2>2. sound \in BOOLEAN /\ full \in BOOLEAN /\ (full => sound)
    BY <1>1
  <2>3. aStatus \in {"idle", "running", "paused", "complete"} /\ chart \in {None, "load", "autoplay"}
    BY <1>1
  <2>4. QED
    BY <2>1, <2>2, <2>3 DEF RunFits
<1>5. CuesFit
  <2>1. aHeard \in Seq(0..LastStep) /\ DOMAIN aHeard = {}
    BY <1>1
  <2>2. QED
    BY <1>1, <1>2, <2>1 DEF CuesFit, Rising
<1>6. FullFits
  BY <1>1 DEF FullFits
<1>7. QED
  BY <1>3, <1>4, <1>5, <1>6, AudioParts

(* The context. *)

\* Where the context will be, with one more order and with the first one done.
Ends(c, orders) ==
  IF orders = <<>> THEN c ELSE IF orders[Len(orders)] = "resume" THEN "running" ELSE "suspended"

LEMMA OrderAdded ==
  ASSUME NEW orders \in Seq(Pending), NEW o \in Pending, NEW c
  PROVE  /\ Append(orders, o) \in Seq(Pending) /\ Append(orders, o) # <<>>
         /\ Ends(c, Append(orders, o)) = IF o = "resume" THEN "running" ELSE "suspended"
<1>1. /\ Append(orders, o) \in Seq(Pending) /\ Len(Append(orders, o)) = Len(orders) + 1
      /\ Append(orders, o)[Len(orders) + 1] = o /\ Len(orders) \in Nat
  BY AppendProperties
<1>2. Append(orders, o) # <<>>
  BY <1>1
<1>3. QED
  BY <1>1, <1>2 DEF Ends

LEMMA OrderDone ==
  ASSUME NEW orders \in Seq(Pending), orders # <<>>, NEW c
  PROVE  /\ Tail(orders) \in Seq(Pending) /\ Head(orders) \in Pending
         /\ Ends(IF Head(orders) = "resume" THEN "running" ELSE "suspended", Tail(orders)) = Ends(c, orders)
<1>1. /\ Tail(orders) \in Seq(Pending) /\ Len(Tail(orders)) = Len(orders) - 1 /\ Head(orders) = orders[1]
      /\ \A i \in 1..Len(Tail(orders)) : Tail(orders)[i] = orders[i + 1]
      /\ Len(orders) \in Nat /\ Len(orders) # 0 /\ Head(orders) \in Pending
  <2>1. Len(orders) \in Nat /\ Len(orders) # 0
    BY EmptySeq
  <2>2. QED
    BY <2>1, HeadTailProperties
<1>e. \A t \in Seq(Pending) : Len(t) = 0 <=> t = <<>>
  BY EmptySeq
<1>2. CASE Len(orders) = 1
  <2>0. Len(Tail(orders)) = 0
    BY <1>1, <1>2
  <2>1. Tail(orders) = <<>>
    BY <1>1, <1>e, <2>0
  <2>2. QED
    BY <1>1, <1>2, <2>1 DEF Ends
<1>3. CASE Len(orders) # 1
  <2>1. Len(Tail(orders)) \in 1..Len(Tail(orders)) /\ Len(Tail(orders)) + 1 = Len(orders)
    BY <1>1, <1>3
  <2>2. Tail(orders)[Len(Tail(orders))] = orders[Len(orders)]
    BY <1>1, <2>1
  <2>3. Tail(orders) # <<>>
    <3>1. Len(Tail(orders)) # 0
      BY <1>1, <1>3
    <3>2. QED
      BY <1>1, <1>e, <3>1
  <2>4. QED
    BY <1>1, <2>2, <2>3 DEF Ends
<1>4. QED
  BY <1>2, <1>3

LEMMA EndIsFinal == A!Final = Ends(context, control)
BY DEF A!Final, Ends

LEMMA EndIsFinalNext == A!Final' = Ends(context', control')
BY DEF A!Final, Ends

\* A run that begins asks the context to resume unless it seems to run; one that stops asks it to
\* suspend if it runs.
LEMMA SoundStarts ==
  ASSUME SoundFits, NEW orders, orders = A!Primed, aStatus' = "running", hurried' = FALSE,
         control' = orders \/ control' = A!Stopped(orders),
         context' = (IF context = None THEN "suspended" ELSE context),
         aMissed' = (context = "running")
  PROVE  SoundFits'
<1>1. context \in States /\ control \in Seq(Pending) /\ None # "running"
  BY NoneIsNowhere DEF SoundFits
<1>2. context' \in States /\ context' # None /\ aMissed' \in BOOLEAN /\ hurried' \in BOOLEAN
  BY <1>1, NoneIsNowhere DEF States
<1>3. CASE context = "running"
  <2>1. orders = control
    BY <1>3 DEF A!Primed
  <2>2. Append(control, "suspend") \in Seq(Pending)
    BY <1>1, OrderAdded DEF Pending
  <2>3. control' \in Seq(Pending)
    BY <1>1, <1>3, <2>1, <2>2 DEF A!Stopped
  <2>4. aMissed' = TRUE
    BY <1>3
  <2>5. QED
    BY <1>2, <2>3, <2>4 DEF SoundFits
<1>4. CASE context # "running"
  <2>1. control' = Append(control, "resume")
    BY <1>4 DEF A!Primed, A!Stopped
  <2>2. control' \in Seq(Pending) /\ Ends(context', control') = "running"
    BY <1>1, <2>1, OrderAdded DEF Pending
  <2>3. A!Final' = "running"
    BY <2>2, EndIsFinalNext
  <2>4. QED
    BY <1>2, <2>2, <2>3 DEF SoundFits
<1>5. QED
  BY <1>3, <1>4

LEMMA SoundStops ==
  ASSUME SoundFits, A!Stops, aStatus' # "running"
  PROVE  SoundFits'
<1>1. /\ context \in States /\ control \in Seq(Pending) /\ aMissed \in BOOLEAN /\ None # "running"
      /\ context = None => control = <<>>
  BY NoneIsNowhere DEF SoundFits
<1>2. /\ context' = context /\ aMissed' = aMissed /\ control' = A!Stopped(control)
      /\ hurried' = (context = "suspended" /\ control # <<>>)
  BY DEF A!Stops
<1>3. hurried' \in BOOLEAN
  BY <1>2
<1>4. CASE context = "running"
  <2>1. control' = Append(control, "suspend")
    BY <1>2, <1>4 DEF A!Stopped
  <2>2. control' \in Seq(Pending) /\ Ends(context', control') = "suspended"
    BY <1>1, <2>1, OrderAdded DEF Pending
  <2>3. A!Final' # "running"
    BY <2>2, EndIsFinalNext
  <2>4. context' # None
    BY <1>1, <1>2, <1>4
  <2>5. QED
    BY <1>1, <1>2, <1>3, <2>2, <2>3, <2>4 DEF SoundFits
<1>5. CASE context # "running"
  <2>1. control' = control
    BY <1>2, <1>5 DEF A!Stopped
  <2>2. ~hurried' => control = <<>>
    BY <1>1, <1>2, <1>5 DEF States
  <2>3. control = <<>> => Ends(context', control') # "running"
    BY <1>2, <1>5, <2>1 DEF Ends
  <2>4. ~hurried' => A!Final' # "running"
    BY <2>2, <2>3, EndIsFinalNext
  <2>5. QED
    BY <1>1, <1>2, <1>3, <2>1, <2>4 DEF SoundFits
<1>6. QED
  BY <1>4, <1>5

LEMMA SoundStays ==
  ASSUME SoundFits, UNCHANGED <<context, control, aMissed, hurried>>,
         (aStatus' = "running") <=> (aStatus = "running")
  PROVE  SoundFits'
<1>1. A!Final' = A!Final
  BY DEF A!Final
<1>2. QED
  BY <1>1 DEF SoundFits

LEMMA SoundObeys ==
  ASSUME SoundFits, A!Controlled
  PROVE  SoundFits'
<1>1. /\ control # <<>> /\ control' = Tail(control) /\ control \in Seq(Pending)
      /\ context' = (IF Head(control) = "resume" THEN "running" ELSE "suspended")
      /\ UNCHANGED <<aStatus, aMissed, hurried>>
  BY DEF A!Controlled, SoundFits
<1>2. control' \in Seq(Pending) /\ Ends(context', control') = Ends(context, control)
  BY <1>1, OrderDone
<1>3. A!Final' = A!Final
  BY <1>2, EndIsFinal, EndIsFinalNext
<1>4. context' \in States /\ context' # None
  BY <1>1, NoneIsNowhere DEF States
<1>5. QED
  BY <1>1, <1>2, <1>3, <1>4 DEF SoundFits

(* The cues. *)

LEMMA CuesAreSteps ==
  ASSUME NEW h \in Seq(0..LastStep)
  PROVE  /\ Len(h) \in Nat /\ DOMAIN h = 1..Len(h)
         /\ \A i \in DOMAIN h : h[i] \in Nat /\ h[i] <= LastStep
<1>1. DOMAIN h = 1..Len(h) /\ Len(h) \in Nat
  OBVIOUS
<1>2. \A i \in DOMAIN h : h[i] \in 0..LastStep
  BY <1>1, ElementOfSeq
<1>3. QED
  BY <1>1, <1>2, RunsEndSomewhere

LEMMA RisingStays ==
  ASSUME NEW h, NEW a \in Int, NEW b \in Int, Rising(h, a), a <= b
  PROVE  Rising(h, b)
<1>1. h \in Seq(0..LastStep) /\ \A i \in DOMAIN h : h[i] \in Nat /\ h[i] <= a
  <2>1. h \in Seq(0..LastStep) /\ \A i \in DOMAIN h : h[i] <= a
    BY DEF Rising
  <2>2. QED
    BY <2>1, CuesAreSteps
<1>2. \A i \in DOMAIN h : h[i] <= b
  BY <1>1
<1>3. QED
  BY <1>2 DEF Rising

LEMMA RisingAtFirst ==
  ASSUME NEW a PROVE Rising(<<>>, a)
<1>1. <<>> \in Seq(0..LastStep) /\ DOMAIN <<>> = {}
  OBVIOUS
<1>2. QED
  BY <1>1 DEF Rising

\* A cue is added at a step that comes after those that were played, or is there already.
LEMMA CueAdded ==
  ASSUME NEW s \in 0..LastStep, NEW before \in -1..LastStep, before <= s,
         NEW played, Rising(played, before),
         NEW h, h = IF s # before THEN Append(played, s) ELSE played
  PROVE  Rising(h, s) /\ Rising(h, LastStep)
<1>0. LastStep \in Nat /\ s \in Nat /\ before \in Int /\ s <= LastStep
  BY RunsEndSomewhere
<1>1. CASE s = before
  <2>1. Rising(h, s)
    BY <1>1
  <2>2. QED
    BY <1>0, <2>1, RisingStays
<1>2. CASE s # before
  <2>1. played \in Seq(0..LastStep) /\ Len(played) \in Nat /\ DOMAIN played = 1..Len(played)
    BY DEF Rising
  <2>2. \A i \in DOMAIN played : played[i] \in Nat /\ played[i] <= before /\ played[i] < s
    <3>1. \A i \in DOMAIN played : played[i] \in Nat /\ played[i] <= before
      BY <2>1, CuesAreSteps DEF Rising
    <3>2. before < s
      BY <1>0, <1>2
    <3>3. QED
      BY <1>0, <3>1, <3>2
  <2>3. h = Append(played, s)
    BY <1>2
  <2>4. /\ h \in Seq(0..LastStep) /\ Len(h) = Len(played) + 1
        /\ \A i \in 1..Len(played) : h[i] = played[i]
        /\ h[Len(played) + 1] = s
    <3>1. /\ Append(played, s) \in Seq(0..LastStep) /\ Len(Append(played, s)) = Len(played) + 1
          /\ \A i \in 1..Len(played) : Append(played, s)[i] = played[i]
          /\ Append(played, s)[Len(played) + 1] = s
      BY <2>1, AppendProperties
    <3>2. QED
      BY <2>3, <3>1
  <2>5. DOMAIN h = 1..(Len(played) + 1)
    BY <2>4
  <2>6. \A i \in DOMAIN h : (i \in 1..Len(played) /\ h[i] = played[i]) \/ (i = Len(played) + 1 /\ h[i] = s)
    <3>1. \A i \in DOMAIN h : i \in 1..Len(played) \/ i = Len(played) + 1
      BY <2>1, <2>5
    <3>2. QED
      BY <2>4, <3>1
  <2>7. ASSUME NEW i \in DOMAIN h, NEW j \in DOMAIN h, i < j PROVE h[i] < h[j]
    <3>1. i \in 1..Len(played) /\ h[i] = played[i]
      BY <2>1, <2>5, <2>6, <2>7
    <3>2. CASE j \in 1..Len(played) /\ h[j] = played[j]
      <4>1. played[i] < played[j]
        BY <2>1, <2>7, <3>1, <3>2 DEF Rising
      <4>2. QED
        BY <3>1, <3>2, <4>1
    <3>3. CASE h[j] = s
      BY <2>1, <2>2, <3>1, <3>3
    <3>4. QED
      BY <2>6, <3>2, <3>3
  <2>8. \A i \in DOMAIN h : h[i] <= s
    <3>1. \A i \in 1..Len(played) : played[i] <= s
      BY <1>0, <2>1, <2>2
    <3>2. s <= s
      BY <1>0
    <3>3. QED
      BY <2>6, <3>1, <3>2
  <2>9. Rising(h, s)
    BY <2>4, <2>7, <2>8 DEF Rising
  <2>10. QED
    BY <1>0, <2>9, RisingStays
<1>3. QED
  BY <1>1, <1>2

LEMMA CuePlayed ==
  ASSUME NEW s \in 0..LastStep, NEW before \in -1..LastStep, before <= s,
         NEW played, Rising(played, before), A!Plays(s, before, played), sound \in BOOLEAN
  PROVE  last' \in -1..LastStep /\ last' <= s /\ Rising(aHeard, last)' /\ Rising(aHeard, LastStep)'
<1>0. LastStep \in Nat /\ s \in Nat /\ before \in Int /\ before <= LastStep
  BY RunsEndSomewhere
<1>1. CASE sound
  <2>1. last' = s /\ aHeard' = IF s # before THEN Append(played, s) ELSE played
    BY <1>1 DEF A!Plays
  <2>2. Rising(aHeard', s) /\ Rising(aHeard', LastStep)
    BY <2>1, CueAdded
  <2>3. s \in -1..LastStep /\ s <= s
    BY <1>0
  <2>4. QED
    BY <2>1, <2>2, <2>3 DEF Rising
<1>2. CASE ~sound
  <2>1. last' = before /\ aHeard' = played
    BY <1>2 DEF A!Plays
  <2>2. Rising(played, LastStep)
    BY <1>0, RisingStays
  <2>3. QED
    BY <2>1, <2>2 DEF Rising
<1>3. QED
  BY <1>1, <1>2

\* With the sound on, the cue of a step follows those up to the one before it.
LEMMA AllPlayed ==
  ASSUME NEW s \in Nat, NEW before, NEW played, A!Plays(s, before, played), sound,
         \/ before = s /\ played = UpTo(s)
         \/ before = s - 1 /\ played = UpTo(s - 1)
  PROVE  last' = s /\ aHeard' = UpTo(s)
<1>1. last' = s
  BY DEF A!Plays
<1>2. CASE before = s /\ played = UpTo(s)
  BY <1>1, <1>2 DEF A!Plays
<1>3. CASE before = s - 1 /\ played = UpTo(s - 1)
  <2>1. s # before
    BY <1>3
  <2>2. aHeard' = Append(UpTo(s - 1), s)
    BY <1>3, <2>1 DEF A!Plays
  <2>3. UpTo(s - 1) \in Seq(Int) /\ Len(UpTo(s - 1)) = s
    BY DEF UpTo
  <2>4. /\ Append(UpTo(s - 1), s) \in Seq(Int) /\ Len(Append(UpTo(s - 1), s)) = s + 1
        /\ \A k \in 1..s : Append(UpTo(s - 1), s)[k] = UpTo(s - 1)[k]
        /\ Append(UpTo(s - 1), s)[s + 1] = s
    BY <2>3, AppendProperties
  <2>5. UpTo(s) \in Seq(Int) /\ Len(UpTo(s)) = s + 1
    BY DEF UpTo
  <2>6. ASSUME NEW k \in 1..(s + 1) PROVE Append(UpTo(s - 1), s)[k] = UpTo(s)[k]
    <3>1. CASE k \in 1..s
      <4>1. UpTo(s - 1)[k] = k - 1 /\ UpTo(s)[k] = k - 1
        BY <3>1 DEF UpTo
      <4>2. QED
        BY <2>4, <3>1, <4>1
    <3>2. CASE k = s + 1
      <4>1. UpTo(s)[k] = s
        BY <3>2 DEF UpTo
      <4>2. QED
        BY <2>4, <3>2, <4>1
    <3>3. k \in 1..s \/ k = s + 1
      OBVIOUS
    <3>4. QED
      BY <3>1, <3>2, <3>3
  <2>7. Append(UpTo(s - 1), s) = UpTo(s)
    BY <2>4, <2>5, <2>6, SeqEqual
  <2>8. QED
    BY <1>1, <2>2, <2>7
<1>4. QED
  BY <1>2, <1>3

\* The run from its beginning, and from where it was.
LEMMA CuesAtFirst ==
  ASSUME RunFits, A!Begins, sound' = sound
  PROVE  CuesFit' /\ FullFits' /\ aStatus' = "running" /\ step' \in 0..LastStep /\ full' = sound
<1>0. LastStep \in Nat /\ 0 \in 0..LastStep /\ -1 \in -1..LastStep /\ -1 <= 0 /\ sound \in BOOLEAN
  BY RunsEndSomewhere DEF RunFits
<1>1. aStatus' = "running" /\ step' = 0 /\ A!Plays(0, -1, <<>>) /\ full' = sound
  BY DEF A!Begins
<1>2. last' \in -1..LastStep /\ last' <= 0 /\ Rising(aHeard, last)' /\ Rising(aHeard, LastStep)'
  <2>1. Rising(<<>>, -1)
    BY RisingAtFirst
  <2>2. QED
    BY <1>0, <1>1, <2>1, CuePlayed
<1>3. sound => last' = 0 /\ aHeard' = UpTo(0)
  <2>1. UpTo(0 - 1) = <<>> /\ -1 = 0 - 1
    BY DEF UpTo
  <2>2. QED
    BY <1>1, <2>1, AllPlayed
<1>4. QED
  BY <1>0, <1>1, <1>2, <1>3 DEF CuesFit, FullFits

\* A cue of a run that goes on: at its step, or at the next.
LEMMA CuesGoOn ==
  ASSUME RunFits, CuesFit, FullFits, aStatus \in {"running", "paused"}, aStatus' \in {"running", "paused"},
         step' = step \/ step' = step + 1, step' \in 0..LastStep, A!Plays(step', last, aHeard),
         full' = full
  PROVE  CuesFit' /\ FullFits'
<1>0. /\ LastStep \in Nat /\ step \in 0..LastStep /\ last \in -1..LastStep /\ sound \in BOOLEAN
      /\ last <= step /\ Rising(aHeard, last) /\ (full => sound)
  BY RunsEndSomewhere DEF RunFits, CuesFit
<1>1. last' \in -1..LastStep /\ last' <= step' /\ Rising(aHeard, last)' /\ Rising(aHeard, LastStep)'
  <2>1. last <= step'
    BY <1>0
  <2>2. QED
    BY <1>0, <2>1, CuePlayed
<1>2. ASSUME full PROVE last' = step' /\ aHeard' = UpTo(step')
  <2>1. last = step /\ aHeard = UpTo(step) /\ sound
    BY <1>0, <1>2 DEF FullFits
  <2>2. (last = step' /\ aHeard = UpTo(step')) \/ (last = step' - 1 /\ aHeard = UpTo(step' - 1))
    <3>1. step' = step + 1 => step' - 1 = step
      BY <1>0
    <3>2. QED
      BY <2>1, <3>1
  <2>3. step' \in Nat
    OBVIOUS
  <2>4. QED
    BY <2>1, <2>2, <2>3, AllPlayed
<1>3. QED
  BY <1>1, <1>2 DEF CuesFit, FullFits

\* A run that does not go on, whose cues are as they were, or none.
LEMMA CuesKept ==
  ASSUME CuesFit, FullFits, UNCHANGED <<last, aHeard>>,
         \/ aStatus' \notin {"running", "paused"}
         \/ /\ step' = step /\ aStatus \in {"running", "paused"}
            /\ full' = full \/ ~full'
  PROVE  CuesFit' /\ FullFits'
BY DEF CuesFit, FullFits, Rising

LEMMA CuesForgotten ==
  ASSUME aHeard' = <<>>, last' \in -1..LastStep, aStatus' \notin {"running", "paused"}
  PROVE  CuesFit' /\ FullFits'
<1>1. Rising(aHeard, LastStep)'
  BY RisingAtFirst
<1>2. QED
  BY <1>1 DEF CuesFit, FullFits

(* The steps. *)

LEMMA StartStep ==
  ASSUME A!AudioInvariant, A!Start
  PROVE  SoundFits' /\ RunFits' /\ CuesFit' /\ FullFits'
<1>0. SoundFits /\ RunFits /\ CuesFit /\ FullFits
  BY AudioParts
<1>1. /\ A!Primes /\ hurried' = FALSE /\ UNCHANGED <<sound, chart, aAsked>>
      /\ IF aStatus = "paused"
         THEN aStatus' = "running" /\ A!Plays(step, last, aHeard) /\ UNCHANGED <<step, full>>
         ELSE A!Begins
  BY DEF A!Start
<1>2. aStatus' = "running"
  BY <1>1 DEF A!Begins
<1>3. SoundFits'
  <2>1. /\ control' = A!Primed /\ context' = (IF context = None THEN "suspended" ELSE context)
        /\ aMissed' = (context = "running")
    BY <1>1 DEF A!Primes
  <2>2. QED
    BY <1>0, <1>1, <1>2, <2>1, SoundStarts
<1>4. CASE aStatus = "paused"
  <2>1. /\ A!Plays(step', last, aHeard) /\ step' = step /\ full' = full /\ step \in 0..LastStep
    BY <1>0, <1>1, <1>4 DEF RunFits
  <2>2. CuesFit' /\ FullFits'
    BY <1>0, <1>2, <1>4, <2>1, CuesGoOn
  <2>3. RunFits'
    BY <1>0, <1>1, <1>2, <2>1 DEF RunFits
  <2>4. QED
    BY <1>3, <2>2, <2>3
<1>5. CASE aStatus # "paused"
  <2>1. CuesFit' /\ FullFits' /\ step' \in 0..LastStep /\ full' = sound
    BY <1>0, <1>1, <1>5, CuesAtFirst
  <2>2. full' \in BOOLEAN /\ (full' => sound')
    BY <1>0, <1>1, <2>1 DEF RunFits
  <2>3. RunFits'
    BY <1>0, <1>1, <1>2, <2>1, <2>2 DEF RunFits
  <2>4. QED
    BY <1>3, <2>1, <2>3
<1>6. QED
  BY <1>4, <1>5

LEMMA AudioStopStep ==
  ASSUME A!AudioInvariant, A!Pause \/ A!Reset \/ A!ChartRendered
  PROVE  SoundFits' /\ RunFits' /\ CuesFit' /\ FullFits'
<1>0. SoundFits /\ RunFits /\ CuesFit /\ FullFits
  BY AudioParts
<1>1. A!Stops /\ aStatus' \in {"idle", "paused"} /\ UNCHANGED <<sound, full, aAsked>>
  BY DEF A!Pause, A!Reset, A!ChartRendered
<1>2. SoundFits'
  BY <1>0, <1>1, SoundStops
<1>3. step' \in 0..LastStep /\ chart' \in {None, "load", "autoplay"}
  <2>1. step' \in {step, 0} /\ chart' \in {chart, None}
    BY DEF A!Pause, A!Reset, A!ChartRendered
  <2>2. QED
    BY <1>0, <2>1, RunsEndSomewhere DEF RunFits
<1>4. RunFits'
  BY <1>0, <1>1, <1>3 DEF RunFits
<1>5. CuesFit' /\ FullFits'
  <2>1. CASE A!Pause
    <3>1. UNCHANGED <<last, aHeard, step, full>> /\ aStatus = "running"
      BY <2>1 DEF A!Pause
    <3>2. QED
      BY <1>0, <3>1, CuesKept
  <2>2. CASE A!Reset \/ A!ChartRendered
    <3>1. aHeard' = <<>> /\ aStatus' = "idle" /\ last' \in {-1, step}
      BY <2>2 DEF A!Reset, A!ChartRendered
    <3>2. last' \in -1..LastStep
      BY <1>0, <3>1, RunsEndSomewhere DEF RunFits
    <3>3. QED
      BY <3>1, <3>2, CuesForgotten
  <2>3. QED
    BY <2>1, <2>2
<1>6. QED
  BY <1>2, <1>4, <1>5

LEMMA TickStep ==
  ASSUME A!AudioInvariant, A!Tick
  PROVE  SoundFits' /\ RunFits' /\ CuesFit' /\ FullFits'
<1>0. SoundFits /\ RunFits /\ CuesFit /\ FullFits
  BY AudioParts
<1>1. /\ aStatus = "running" /\ step < LastStep /\ step' = step + 1 /\ UNCHANGED <<sound, full, chart, aAsked>>
      /\ \/ /\ A!Plays(step + 1, last, aHeard)
            /\ UNCHANGED <<aStatus, context, control, aMissed, hurried>>
         \/ /\ aStatus' = "complete" /\ A!Stops /\ UNCHANGED <<last, aHeard>>
  BY DEF A!Tick
<1>2. step' \in 0..LastStep
  BY <1>0, <1>1, RunsEndSomewhere DEF RunFits
<1>3. CASE A!Plays(step + 1, last, aHeard) /\ UNCHANGED <<aStatus, context, control, aMissed, hurried>>
  <2>1. SoundFits'
    BY <1>0, <1>3, SoundStays
  <2>2. RunFits'
    BY <1>0, <1>1, <1>2, <1>3 DEF RunFits
  <2>3. A!Plays(step', last, aHeard) /\ full' = full /\ aStatus' = "running"
    BY <1>1, <1>3
  <2>4. CuesFit' /\ FullFits'
    BY <1>0, <1>1, <1>2, <2>3, CuesGoOn
  <2>5. QED
    BY <2>1, <2>2, <2>4
<1>4. CASE aStatus' = "complete" /\ A!Stops /\ UNCHANGED <<last, aHeard>>
  <2>1. SoundFits'
    BY <1>0, <1>4, SoundStops
  <2>2. RunFits'
    BY <1>0, <1>1, <1>2, <1>4 DEF RunFits
  <2>3. CuesFit' /\ FullFits'
    BY <1>0, <1>4, CuesKept
  <2>4. QED
    BY <2>1, <2>2, <2>3
<1>5. QED
  BY <1>1, <1>3, <1>4

LEMMA ToggleStep ==
  ASSUME A!AudioInvariant, A!Toggle
  PROVE  SoundFits' /\ RunFits' /\ CuesFit' /\ FullFits'
<1>0. SoundFits /\ RunFits /\ CuesFit /\ FullFits
  BY AudioParts
<1>1. sound' = ~sound /\ full' = FALSE /\ UNCHANGED <<aStatus, step, chart, aAsked>>
  BY DEF A!Toggle
<1>2. RunFits'
  <2>1. sound' \in BOOLEAN /\ full' \in BOOLEAN /\ (full' => sound')
    BY <1>1
  <2>2. QED
    BY <1>0, <1>1, <2>1 DEF RunFits
<1>3. FullFits'
  BY <1>1 DEF FullFits
<1>4. CASE aStatus = "running"
  <2>1. /\ UNCHANGED <<context, control, aMissed, hurried>>
        /\ IF sound THEN UNCHANGED <<last, aHeard>>
           ELSE last' = step /\ aHeard' = IF step # last THEN Append(aHeard, step) ELSE aHeard
    BY <1>4 DEF A!Toggle
  <2>2. SoundFits'
    BY <1>0, <1>1, <2>1, SoundStays
  <2>3. CASE sound
    <3>1. UNCHANGED <<last, aHeard>>
      BY <2>1, <2>3
    <3>2. QED
      BY <1>0, <1>1, <1>2, <1>4, <2>2, <3>1, CuesKept
  <2>4. CASE ~sound
    <3>1. last' = step /\ aHeard' = IF step # last THEN Append(aHeard, step) ELSE aHeard
      BY <2>1, <2>4
    <3>2. CuesFit'
      <4>1. step \in 0..LastStep /\ last \in -1..LastStep /\ last <= step /\ Rising(aHeard, last)
        BY <1>0, <1>4 DEF RunFits, CuesFit
      <4>2. Rising(aHeard', step) /\ Rising(aHeard', LastStep)
        BY <3>1, <4>1, CueAdded
      <4>3. step \in -1..LastStep /\ step <= step
        BY <4>1, RunsEndSomewhere
      <4>4. QED
        BY <1>1, <3>1, <4>2, <4>3 DEF CuesFit, Rising
    <3>3. QED
      BY <1>2, <1>3, <2>2, <3>2
  <2>5. QED
    BY <2>3, <2>4
<1>5. CASE aStatus # "running"
  <2>1. A!Stops /\ UNCHANGED <<last, aHeard>>
    BY <1>5 DEF A!Toggle
  <2>2. SoundFits'
    BY <1>0, <1>1, <1>5, <2>1, SoundStops
  <2>3. CuesFit'
    BY <1>0, <1>1, <2>1 DEF CuesFit, Rising
  <2>4. QED
    BY <1>2, <1>3, <2>2, <2>3
<1>6. QED
  BY <1>4, <1>5

LEMMA AutoplayStep ==
  ASSUME A!AudioInvariant, A!AutoplayRendered
  PROVE  SoundFits' /\ RunFits' /\ CuesFit' /\ FullFits'
<1>0. SoundFits /\ RunFits /\ CuesFit /\ FullFits
  BY AudioParts
<1>1. /\ chart' = None /\ A!Begins /\ UNCHANGED <<sound, aAsked>>
      /\ context' = (IF context = None THEN "suspended" ELSE context)
      /\ control' = A!Stopped(A!Primed)
      /\ aMissed' = (context = "running") /\ hurried' = FALSE
  BY DEF A!AutoplayRendered
<1>2. CuesFit' /\ FullFits' /\ aStatus' = "running" /\ step' \in 0..LastStep /\ full' = sound
  BY <1>0, <1>1, CuesAtFirst
<1>3. SoundFits'
  BY <1>0, <1>1, <1>2, SoundStarts
<1>4. full' \in BOOLEAN /\ (full' => sound')
  BY <1>0, <1>1, <1>2 DEF RunFits
<1>5. RunFits'
  BY <1>0, <1>1, <1>2, <1>4 DEF RunFits
<1>6. QED
  BY <1>2, <1>3, <1>5

LEMMA AudioStays ==
  ASSUME A!AudioInvariant, [A!Next]_aVars
  PROVE  A!AudioInvariant'
<1>0. SoundFits /\ RunFits /\ CuesFit /\ FullFits
  BY AudioParts
<1>1. CASE A!Start
  BY <1>1, StartStep, AudioPartsNext
<1>2. CASE A!Pause \/ A!Reset \/ A!ChartRendered
  BY <1>2, AudioStopStep, AudioPartsNext
<1>3. CASE A!Tick
  BY <1>3, TickStep, AudioPartsNext
<1>4. CASE A!Toggle
  BY <1>4, ToggleStep, AudioPartsNext
<1>5. CASE A!AutoplayRendered
  BY <1>5, AutoplayStep, AudioPartsNext
<1>6. CASE A!Controlled
  <2>1. UNCHANGED <<aStatus, step, sound, last, aHeard, full, chart, aAsked>>
    BY <1>6 DEF A!Controlled
  <2>2. RunFits' /\ CuesFit' /\ FullFits'
    BY <1>0, <2>1 DEF RunFits, CuesFit, FullFits, Rising
  <2>3. SoundFits'
    BY <1>0, <1>6, SoundObeys
  <2>4. QED
    BY <2>2, <2>3, AudioPartsNext
<1>7. ASSUME NEW kind \in {"load", "autoplay"}, A!Loads(kind) PROVE A!AudioInvariant'
  <2>1. /\ aAsked < MaxAutoplays /\ aAsked' = aAsked + 1 /\ chart' = kind
        /\ UNCHANGED <<context, control, aStatus, step, sound, last, aHeard, full, aMissed, hurried>>
    BY <1>7 DEF A!Loads
  <2>2. aAsked' \in 0..MaxAutoplays
    BY <1>0, <2>1, RunsEndSomewhere DEF RunFits
  <2>3. RunFits'
    BY <1>0, <2>1, <2>2 DEF RunFits
  <2>4. CuesFit' /\ FullFits'
    BY <1>0, <2>1 DEF CuesFit, FullFits, Rising
  <2>5. SoundFits'
    BY <1>0, <2>1, SoundStays
  <2>6. QED
    BY <2>3, <2>4, <2>5, AudioPartsNext
<1>8. CASE UNCHANGED aVars
  <2>1. UNCHANGED <<context, control, aStatus, step, sound, last, aHeard, full, chart, aMissed, hurried, aAsked>>
    BY <1>8 DEF aVars
  <2>2. RunFits' /\ CuesFit' /\ FullFits'
    BY <1>0, <2>1 DEF RunFits, CuesFit, FullFits, Rising
  <2>3. SoundFits'
    BY <1>0, <2>1, SoundStays
  <2>4. QED
    BY <2>2, <2>3, AudioPartsNext
<1>9. QED
  BY <1>1, <1>2, <1>3, <1>4, <1>5, <1>6, <1>7, <1>8 DEF A!Next

LEMMA AudioSuffices ==
  ASSUME A!AudioInvariant PROVE A!SoundFollowsRun /\ A!CuesOnce
<1>1. A!SoundFollowsRun
  <2>1. control = <<>> => A!Final = context
    BY DEF A!Final
  <2>2. QED
    BY <2>1 DEF A!AudioInvariant, A!SoundFollowsRun
<1>2. A!CuesOnce
  BY DEF A!AudioInvariant, A!CuesOnce
<1>3. QED
  BY <1>1, <1>2

-----------------------------------------------------------------------------
(* A commit of a local repository (localRepoBridge.js and its neighbours). *)

\* A sum over a set, as FoldSet takes it: one member after the other, whichever CHOOSE takes.
OneOf(s) == CHOOSE x \in s : TRUE
Sums(f, S, g) == f = [s \in SUBSET S |-> IF s = {} THEN 0 ELSE f[s \ {OneOf(s)}] + g[OneOf(s)]]
SumsOfSome(k, S, g) ==
  \E f : f = [s \in {t \in SUBSET S : Cardinality(t) < k} |->
                IF s = {} THEN 0 ELSE f[s \ {OneOf(s)}] + g[OneOf(s)]]
OneByOne(f, S, g) ==
  /\ f[{}] = 0
  /\ \A s \in SUBSET S : s # {} => OneOf(s) \in s /\ f[s] = f[s \ {OneOf(s)}] + g[OneOf(s)]
InAnyOrder(f, S, g) == \A s \in SUBSET S : \A x \in s : f[s] = f[s \ {x}] + g[x]
Numbers(g, S) == \A x \in S : g[x] \in Nat

LEMMA OneIsIn ==
  ASSUME NEW s, s # {} PROVE OneOf(s) \in s
BY DEF OneOf

LEMMA SmallerWithout ==
  ASSUME NEW s, IsFiniteSet(s), NEW x \in s
  PROVE  /\ IsFiniteSet(s \ {x}) /\ Cardinality(s) \in Nat /\ Cardinality(s \ {x}) \in Nat
         /\ Cardinality(s) = Cardinality(s \ {x}) + 1
<1>1. /\ IsFiniteSet(s \ {x}) /\ Cardinality(s \ {x}) = Cardinality(s) - 1
  BY FS_RemoveElement
<1>2. Cardinality(s) \in Nat /\ Cardinality(s \ {x}) \in Nat
  BY <1>1, FS_CardinalityType
<1>3. QED
  BY <1>1, <1>2

\* What holds of the empty set and of each set when it holds of the smaller ones, holds of all: a
\* smallest one that lacks it there is not.
LEMMA EachFiniteSet ==
  ASSUME NEW S, IsFiniteSet(S), NEW Good \in SUBSET SUBSET S,
         \A s \in SUBSET S : (\A t \in SUBSET S : Cardinality(t) < Cardinality(s) => t \in Good) => s \in Good
  PROVE  \A s \in SUBSET S : s \in Good
<1> DEFINE Sizes == {n \in Nat : \E s \in SUBSET S : s \notin Good /\ n = Cardinality(s)}
<1>1. SUFFICES ASSUME NEW s \in SUBSET S, s \notin Good PROVE FALSE
  OBVIOUS
<1>2. \A t \in SUBSET S : IsFiniteSet(t) /\ Cardinality(t) \in Nat
  BY FS_Subset, FS_CardinalityType
<1>3. Cardinality(s) \in Sizes
  BY <1>1, <1>2
<1>4. PICK n \in Sizes : \A m \in Sizes : n <= m
  <2>1. Sizes \in SUBSET Nat /\ Sizes # {}
    BY <1>3
  <2> HIDE DEF Sizes
  <2>2. QED
    BY <2>1, FirstNumber
<1>5. PICK b \in SUBSET S : b \notin Good /\ n = Cardinality(b)
  BY <1>4
<1>6. ASSUME NEW t \in SUBSET S, Cardinality(t) < Cardinality(b), t \notin Good PROVE FALSE
  <2>1. Cardinality(t) \in Sizes
    BY <1>2, <1>6
  <2> HIDE DEF Sizes
  <2>2. n <= Cardinality(t)
    BY <1>4, <2>1
  <2>3. QED
    BY <1>2, <1>5, <1>6, <2>2
<1>7. QED
  BY <1>5, <1>6

\* The sums up to some size, which those up to the next size continue.
LEMMA SumsUpTo ==
  ASSUME NEW S, IsFiniteSet(S), NEW g, NEW n \in Nat
  PROVE  \A k \in 1..n : SumsOfSome(k, S, g)
<1> DEFINE Small(k) == {t \in SUBSET S : Cardinality(t) < k}
           Next1(f, s) == IF s = {} THEN 0 ELSE f[s \ {OneOf(s)}] + g[OneOf(s)]
           J(k) == \E f : f = [s \in Small(k) |-> Next1(f, s)]
           Ks == {k \in Nat : J(k)}
<1>1. \A t \in SUBSET S : IsFiniteSet(t) /\ Cardinality(t) \in Nat
  BY FS_Subset, FS_CardinalityType
<1>2. J(1)
  <2> DEFINE h == [s \in Small(1) |-> 0]
  <2>1. \A s \in Small(1) : s = {}
    <3>1. \A s \in Small(1) : IsFiniteSet(s) /\ Cardinality(s) = 0
      BY <1>1
    <3>2. QED
      BY <3>1, FS_EmptySet
  <2>2. h = [s \in Small(1) |-> Next1(h, s)]
    <3> HIDE DEF Small
    <3>1. QED
      BY <2>1
  <2> HIDE DEF h, Next1, Small
  <2>3. QED
    BY <2>2
<1>3. ASSUME NEW k \in 2..n, J(k - 1) PROVE J(k)
  <2> HIDE DEF Next1
  <2>1. PICK f : f = [s \in Small(k - 1) |-> Next1(f, s)]
    BY <1>3
  <2> DEFINE h == [s \in Small(k) |-> Next1(f, s)]
  <2>2. \A s \in Small(k - 1) : s \in Small(k) /\ h[s] = f[s]
    <3>1. \A s \in Small(k - 1) : s \in Small(k)
      BY <1>1
    <3> HIDE DEF Small
    <3>2. \A s \in Small(k - 1) : h[s] = Next1(f, s)
      BY <3>1
    <3> HIDE DEF h
    <3>3. \A s \in Small(k - 1) : f[s] = Next1(f, s)
      BY <2>1, Zenon
    <3>4. QED
      BY <3>1, <3>2, <3>3
  <2>3. ASSUME NEW s \in Small(k) PROVE Next1(f, s) = Next1(h, s)
    <3>1. CASE s = {}
      BY <3>1 DEF Next1
    <3>2. CASE s # {}
      <4>1. OneOf(s) \in s /\ IsFiniteSet(s) /\ s \ {OneOf(s)} \in SUBSET S
        BY <1>1, <3>2, OneIsIn
      <4>2. Cardinality(s) = Cardinality(s \ {OneOf(s)}) + 1 /\ Cardinality(s \ {OneOf(s)}) \in Nat
        BY <4>1, SmallerWithout
      <4>3. s \ {OneOf(s)} \in Small(k - 1)
        BY <4>1, <4>2
      <4> HIDE DEF h, Small
      <4>4. h[s \ {OneOf(s)}] = f[s \ {OneOf(s)}]
        BY <2>2, <4>3
      <4>5. QED
        BY <4>4 DEF Next1
    <3>3. QED
      BY <3>1, <3>2
  <2>4. h = [s \in Small(k) |-> Next1(h, s)]
    <3> HIDE DEF Small, Next1
    <3>1. \A s \in Small(k) : Next1(f, s) = Next1(h, s)
      BY <2>3
    <3>2. h = [s \in Small(k) |-> Next1(f, s)]
      OBVIOUS
    <3> HIDE DEF h
    <3>3. QED
      BY <3>1, <3>2
  <2> HIDE DEF h, Small
  <2>5. QED
    BY <2>4
<1> HIDE DEF J
<1>4. 1 \in Ks /\ \A k \in 2..n : k - 1 \in Ks => k \in Ks
  <2>1. \A k \in 2..n : k \in Nat /\ k - 1 \in Nat
    OBVIOUS
  <2>2. QED
    BY <1>2, <1>3, <2>1
<1> HIDE DEF Ks
<1>5. 1..n \subseteq Ks
  BY <1>4, EachAfterTheOther
<1>6. \A k \in 1..n : J(k)
  BY <1>5 DEF Ks
<1>7. QED
  BY <1>6 DEF J, Next1, Small, SumsOfSome

LEMMA SumsExist ==
  ASSUME NEW S, IsFiniteSet(S), NEW g
  PROVE  \E f : Sums(f, S, g)
<1> DEFINE n == Cardinality(S) + 1
<1>1. n \in Nat /\ n \in 1..n
  BY FS_CardinalityType
<1>2. {t \in SUBSET S : Cardinality(t) < n} = SUBSET S
  <2>1. \A t \in SUBSET S : Cardinality(t) \in Nat /\ Cardinality(t) <= Cardinality(S) /\ Cardinality(S) \in Nat
    BY FS_Subset, FS_CardinalityType
  <2>2. QED
    BY <2>1
<1> HIDE DEF n
<1>3. SumsOfSome(n, S, g)
  <2>1. \A k \in 1..n : SumsOfSome(k, S, g)
    BY <1>1, SumsUpTo
  <2>2. QED
    BY <1>1, <2>1
<1>4. QED
  BY <1>2, <1>3 DEF Sums, SumsOfSome

LEMMA SumOfOneMore ==
  ASSUME NEW S, IsFiniteSet(S), NEW g, NEW f, Sums(f, S, g)
  PROVE  OneByOne(f, S, g)
<1>1. \A s \in SUBSET S : f[s] = IF s = {} THEN 0 ELSE f[s \ {OneOf(s)}] + g[OneOf(s)]
  BY Zenon DEF Sums
<1>2. QED
  BY <1>1, OneIsIn DEF OneByOne

LEMMA SumIsNumber ==
  ASSUME NEW S, IsFiniteSet(S), NEW g, Numbers(g, S), NEW f, Sums(f, S, g)
  PROVE  Numbers(f, SUBSET S)
<1> DEFINE Good == {s \in SUBSET S : f[s] \in Nat}
<1>0. f[{}] = 0 /\ \A s \in SUBSET S : s # {} => OneOf(s) \in s /\ f[s] = f[s \ {OneOf(s)}] + g[OneOf(s)]
  BY SumOfOneMore DEF OneByOne
<1>1. ASSUME NEW s \in SUBSET S, \A t \in SUBSET S : Cardinality(t) < Cardinality(s) => t \in Good
      PROVE  s \in Good
  <2>1. CASE s = {}
    BY <1>0, <2>1
  <2>2. CASE s # {}
    <3>1. OneOf(s) \in s /\ f[s] = f[s \ {OneOf(s)}] + g[OneOf(s)] /\ s \ {OneOf(s)} \in SUBSET S
      BY <1>0, <2>2
    <3>2. Cardinality(s \ {OneOf(s)}) < Cardinality(s)
      BY <3>1, SmallerWithout, FS_Subset
    <3>3. s \ {OneOf(s)} \in Good
      BY <1>1, <3>1, <3>2
    <3>4. f[s \ {OneOf(s)}] \in Nat /\ g[OneOf(s)] \in Nat
      BY <3>1, <3>3 DEF Numbers
    <3>5. QED
      BY <3>1, <3>4
  <2>3. QED
    BY <2>1, <2>2
<1>2. Good \in SUBSET SUBSET S
  OBVIOUS
<1> HIDE DEF Good
<1>3. \A s \in SUBSET S : s \in Good
  BY <1>1, <1>2, EachFiniteSet
<1>4. QED
  BY <1>3 DEF Good, Numbers

\* Whichever member is taken first, the sum is the same.
LEMMA SumWithout ==
  ASSUME NEW S, IsFiniteSet(S), NEW g, Numbers(g, S), NEW f, Sums(f, S, g)
  PROVE  InAnyOrder(f, S, g)
<1>0. \A s \in SUBSET S : s # {} => OneOf(s) \in s /\ f[s] = f[s \ {OneOf(s)}] + g[OneOf(s)]
  BY SumOfOneMore DEF OneByOne
<1>n. \A s \in SUBSET S : f[s] \in Nat
  BY SumIsNumber DEF Numbers
<1>f. \A s \in SUBSET S : IsFiniteSet(s)
  BY FS_Subset
<1> DEFINE Good == {s \in SUBSET S : \A x \in s : f[s] = f[s \ {x}] + g[x]}
<1>1. ASSUME NEW s \in SUBSET S, \A t \in SUBSET S : Cardinality(t) < Cardinality(s) => t \in Good
      PROVE  s \in Good
  <2>1. SUFFICES ASSUME NEW x \in s PROVE f[s] = f[s \ {x}] + g[x]
    OBVIOUS
  <2> DEFINE y == OneOf(s)
  <2>2. y \in s /\ f[s] = f[s \ {y}] + g[y]
    BY <1>0, <2>1
  <2> HIDE DEF y
  <2>3. CASE x = y
    BY <2>2, <2>3
  <2>4. CASE x # y
    <3>1. s \ {x} \in SUBSET S /\ s \ {y} \in SUBSET S /\ x \in s \ {y} /\ y \in s \ {x}
      BY <2>1, <2>2, <2>4
    <3>2. Cardinality(s \ {x}) < Cardinality(s) /\ Cardinality(s \ {y}) < Cardinality(s)
      BY <1>f, <2>1, <2>2, SmallerWithout
    <3>3. s \ {x} \in Good /\ s \ {y} \in Good
      BY <1>1, <3>1, <3>2
    <3>4. f[s \ {x}] = f[(s \ {x}) \ {y}] + g[y] /\ f[s \ {y}] = f[(s \ {y}) \ {x}] + g[x]
      BY <3>1, <3>3
    <3>5. (s \ {x}) \ {y} = (s \ {y}) \ {x} /\ (s \ {x}) \ {y} \in SUBSET S
      BY <3>1
    <3>6. g[x] \in Nat /\ g[y] \in Nat /\ f[(s \ {x}) \ {y}] \in Nat
      BY <1>n, <2>1, <2>2, <3>5 DEF Numbers
    <3>7. f[s \ {y}] = f[(s \ {x}) \ {y}] + g[x]
      BY <3>4, <3>5
    <3> DEFINE a == f[(s \ {x}) \ {y}]
    <3>8. a \in Nat /\ f[s \ {x}] = a + g[y] /\ f[s] = (a + g[x]) + g[y]
      BY <2>2, <3>4, <3>6, <3>7
    <3> HIDE DEF a
    <3>9. QED
      BY <3>6, <3>8
  <2>5. QED
    BY <2>3, <2>4
<1>2. Good \in SUBSET SUBSET S
  OBVIOUS
<1> HIDE DEF Good
<1>3. \A s \in SUBSET S : s \in Good
  BY <1>1, <1>2, EachFiniteSet
<1>4. QED
  BY <1>3 DEF Good, InAnyOrder

\* The sum over what the members of a set are written as, each in a way of its own.
LEMMA SumOfWritten ==
  ASSUME NEW S, IsFiniteSet(S), NEW g, Numbers(g, S), NEW f, Sums(f, S, g),
         NEW T, IsFiniteSet(T), NEW h, Numbers(h, T), NEW k, Sums(k, T, h),
         NEW w, \A x \in S : w[x] \in T /\ h[w[x]] = g[x],
         \A x, y \in S : w[x] = w[y] => x = y
  PROVE  \A s \in SUBSET S : f[s] = k[{w[x] : x \in s}]
<1>0. f[{}] = 0 /\ \A s \in SUBSET S : s # {} => OneOf(s) \in s /\ f[s] = f[s \ {OneOf(s)}] + g[OneOf(s)]
  BY SumOfOneMore DEF OneByOne
<1>1. k[{}] = 0
  BY SumOfOneMore DEF OneByOne
<1>2. \A t \in SUBSET T : \A y \in t : k[t] = k[t \ {y}] + h[y]
  <2>1. InAnyOrder(k, T, h)
    BY SumWithout
  <2>2. QED
    BY <2>1 DEF InAnyOrder
<1> DEFINE Image(s) == {w[x] : x \in s}
           Good == {s \in SUBSET S : f[s] = k[Image(s)]}
<1>3. ASSUME NEW s \in SUBSET S, \A t \in SUBSET S : Cardinality(t) < Cardinality(s) => t \in Good
      PROVE  s \in Good
  <2>1. CASE s = {}
    <3>1. Image(s) = {}
      BY <2>1
    <3>2. QED
      BY <1>0, <1>1, <2>1, <3>1
  <2>2. CASE s # {}
    <3> DEFINE x == OneOf(s)
    <3>1. x \in s /\ f[s] = f[s \ {x}] + g[x] /\ s \ {x} \in SUBSET S
      BY <1>0, <2>2
    <3> HIDE DEF x
    <3>2. Cardinality(s \ {x}) < Cardinality(s)
      BY <3>1, SmallerWithout, FS_Subset
    <3>3. f[s \ {x}] = k[Image(s \ {x})]
      BY <1>3, <3>1, <3>2
    <3>4. Image(s) \in SUBSET T /\ w[x] \in Image(s) /\ h[w[x]] = g[x]
      BY <3>1
    <3>5. Image(s \ {x}) = Image(s) \ {w[x]}
      BY <3>1
    <3> HIDE DEF Image
    <3>6. k[Image(s)] = k[Image(s) \ {w[x]}] + h[w[x]]
      BY <1>2, <3>4
    <3>7. f[s] = k[Image(s)]
      BY <3>1, <3>3, <3>4, <3>5, <3>6
    <3>8. QED
      BY <3>7
  <2>3. QED
    BY <2>1, <2>2
<1>4. Good \in SUBSET SUBSET S
  OBVIOUS
<1> HIDE DEF Good
<1>5. \A s \in SUBSET S : s \in Good
  BY <1>3, <1>4, EachFiniteSet
<1>6. QED
  BY <1>5 DEF Good

(* What is read of a commit. *)

CommitsOfFiles(c) ==
  /\ IsFiniteSet(DOMAIN c.files) /\ c.parents \in 1..2
  /\ c.says \in {"something", "Merge", "Revert"}
  /\ \A f \in DOMAIN c.files :
       /\ c.files[f].added \in Nat /\ c.files[f].deleted \in Nat /\ c.files[f].binary \in BOOLEAN
       /\ c.files[f].binary => c.files[f].added = 0 /\ c.files[f].deleted = 0

LEMMA CommitsHaveFiles ==
  ASSUME NEW c \in G!LocalCommits
  PROVE  CommitsOfFiles(c)
<1>1. /\ c.files \in UNION {[F -> G!Change] : F \in SUBSET Printed} /\ c.parents \in 1..2
      /\ c.says \in {"something", "Merge", "Revert"}
  BY DEF G!LocalCommits
<1>2. PICK F \in SUBSET Printed : c.files \in [F -> G!Change]
  BY <1>1
<1>3. DOMAIN c.files = F /\ IsFiniteSet(F) /\ \A f \in F : c.files[f] \in G!Change
  BY <1>2, CommitsAreFinite, FS_Subset
<1>4. \A d \in G!Change :
        /\ d.added \in Nat /\ d.deleted \in Nat /\ d.binary \in BOOLEAN
        /\ d.binary => d.added = 0 /\ d.deleted = 0
  BY CommitsAreFinite DEF G!Change
<1>5. QED
  BY <1>1, <1>3, <1>4 DEF CommitsOfFiles

LEMMA ShownAreFinite ==
  ASSUME NEW c, CommitsOfFiles(c)
  PROVE  IsFiniteSet(G!Shown(c)) /\ G!Shown(c) \subseteq DOMAIN c.files
<1>1. G!Shown(c) \subseteq DOMAIN c.files
  BY DEF G!Shown
<1>2. QED
  BY <1>1, FS_Subset DEF CommitsOfFiles

\* The line of numstat about a file.
Printout(c, f) ==
  [path |-> f, added |-> IF c.files[f].binary THEN None ELSE c.files[f].added,
   deleted |-> IF c.files[f].binary THEN None ELSE c.files[f].deleted]

LEMMA PrintoutCounts ==
  ASSUME NEW c, CommitsOfFiles(c), NEW f \in DOMAIN c.files
  PROVE  /\ Printout(c, f).path = f
         /\ G!Counted(Printout(c, f).added) = c.files[f].added
         /\ G!Counted(Printout(c, f).deleted) = c.files[f].deleted
<1>1. /\ c.files[f].added \in Nat /\ c.files[f].deleted \in Nat /\ c.files[f].binary \in BOOLEAN
      /\ c.files[f].binary => c.files[f].added = 0 /\ c.files[f].deleted = 0
  BY DEF CommitsOfFiles
<1>2. None \notin Nat
  BY NoneIsNowhere
<1>3. CASE c.files[f].binary
  BY <1>1, <1>3 DEF Printout, G!Counted
<1>4. CASE ~c.files[f].binary
  BY <1>1, <1>2, <1>4 DEF Printout, G!Counted
<1>5. QED
  BY <1>1, <1>3, <1>4

LEMMA NumstatIsPrinted ==
  ASSUME NEW c, CommitsOfFiles(c)
  PROVE  /\ G!Numstat(c) = {Printout(c, f) : f \in G!Shown(c)} /\ IsFiniteSet(G!Numstat(c))
         /\ {l.path : l \in G!Numstat(c)} = G!Shown(c)
<1>1. G!Numstat(c) = {Printout(c, f) : f \in G!Shown(c)}
  BY DEF G!Numstat, Printout
<1>2. IsFiniteSet({Printout(c, f) : f \in G!Shown(c)})
  <2>1. IsFiniteSet(G!Shown(c))
    BY ShownAreFinite
  <2> DEFINE S == G!Shown(c)
             w == [f \in S |-> Printout(c, f)]
  <2>2. w \in Surjection(S, {Printout(c, f) : f \in S})
    BY DEF Surjection
  <2> HIDE DEF w
  <2>3. QED
    BY <2>1, <2>2, FS_Surjection
<1>3. \A f \in G!Shown(c) : Printout(c, f).path = f
  BY DEF Printout
<1>4. QED
  BY <1>1, <1>2, <1>3

AddedPrinted(c) == G!SumOver(G!Numstat(c), LAMBDA l : G!Counted(l.added))
DeletedPrinted(c) == G!SumOver(G!Numstat(c), LAMBDA l : G!Counted(l.deleted))
AddedShown(c) == G!SumOver(G!Shown(c), LAMBDA f : c.files[f].added)
DeletedShown(c) == G!SumOver(G!Shown(c), LAMBDA f : c.files[f].deleted)

\* The sum of what is printed is the sum over the files.
LEMMA SumsAgree ==
  ASSUME NEW c, CommitsOfFiles(c), NEW g, NEW h,
         \A f \in G!Shown(c) : g[f] \in Nat /\ h[Printout(c, f)] = g[f],
         NEW sums, Sums(sums, G!Shown(c), g), NEW sumt, Sums(sumt, G!Numstat(c), h)
  PROVE  sums[G!Shown(c)] = sumt[G!Numstat(c)] /\ sums[G!Shown(c)] \in Nat
<1> DEFINE S == G!Shown(c)
           T == G!Numstat(c)
           w == [f \in S |-> Printout(c, f)]
<1>1. IsFiniteSet(S) /\ IsFiniteSet(T) /\ T = {Printout(c, f) : f \in S}
  BY ShownAreFinite, NumstatIsPrinted
<1>2. Numbers(g, S) /\ Numbers(h, T)
  BY <1>1 DEF Numbers
<1>3. \A f \in S : w[f] \in T /\ h[w[f]] = g[f]
  BY <1>1
<1>4. \A e, f \in S : w[e] = w[f] => e = f
  BY DEF Printout
<1>5. {w[f] : f \in S} = T
  BY <1>1
<1>6. Sums(sums, S, g) /\ Sums(sumt, T, h)
  OBVIOUS
<1> HIDE DEF S, T, w
<1>7. \A s \in SUBSET S : sums[s] = sumt[{w[f] : f \in s}]
  BY <1>1, <1>2, <1>3, <1>4, <1>6, SumOfWritten
<1>8. sums[S] = sumt[T]
  <2>1. S \in SUBSET S
    OBVIOUS
  <2>2. QED
    BY <1>5, <1>7, <2>1
<1>9. sums[S] \in Nat
  <2>1. Numbers(sums, SUBSET S)
    BY <1>1, <1>2, <1>6, SumIsNumber
  <2>2. QED
    BY <2>1 DEF Numbers
<1>10. QED
  BY <1>8, <1>9 DEF S, T

\* What FoldSet takes, the term being written as a function.
LEMMA AddedShownSums ==
  ASSUME NEW c, CommitsOfFiles(c)
  PROVE  \E sums : Sums(sums, G!Shown(c), [x \in G!Shown(c) |-> c.files[x].added]) /\ AddedShown(c) = sums[G!Shown(c)]
<1> DEFINE S == G!Shown(c)
           g == [x \in S |-> c.files[x].added]
           Taken(f) == [s \in SUBSET S |-> IF s = {} THEN 0 ELSE f[s \ {OneOf(s)}] + c.files[OneOf(s)].added]
           sums == CHOOSE f : f = Taken(f)
<1>1. AddedShown(c) = sums[S]
  BY DEF AddedShown, G!SumOver, G!FoldSet, G!MapThenFoldSet, OneOf
<1>2. ASSUME NEW f PROVE f = Taken(f) <=> Sums(f, S, g)
  <2>1. \A s \in SUBSET S : s # {} => g[OneOf(s)] = c.files[OneOf(s)].added
    BY OneIsIn
  <2> HIDE DEF g, S
  <2>2. Taken(f) = [s \in SUBSET S |-> IF s = {} THEN 0 ELSE f[s \ {OneOf(s)}] + g[OneOf(s)]]
    BY <2>1
  <2>3. QED
    BY <2>2 DEF Sums
<1>3. IsFiniteSet(S)
  BY ShownAreFinite, NumstatIsPrinted
<1> HIDE DEF Taken, S, g
<1>4. \E f : f = Taken(f)
  BY <1>2, <1>3, SumsExist
<1>5. sums = Taken(sums)
  BY <1>4
<1>6. Sums(sums, S, g)
  BY <1>2, <1>5
<1>7. QED
  BY <1>1, <1>6 DEF S, g

LEMMA DeletedShownSums ==
  ASSUME NEW c, CommitsOfFiles(c)
  PROVE  \E sums : Sums(sums, G!Shown(c), [x \in G!Shown(c) |-> c.files[x].deleted]) /\ DeletedShown(c) = sums[G!Shown(c)]
<1> DEFINE S == G!Shown(c)
           g == [x \in S |-> c.files[x].deleted]
           Taken(f) == [s \in SUBSET S |-> IF s = {} THEN 0 ELSE f[s \ {OneOf(s)}] + c.files[OneOf(s)].deleted]
           sums == CHOOSE f : f = Taken(f)
<1>1. DeletedShown(c) = sums[S]
  BY DEF DeletedShown, G!SumOver, G!FoldSet, G!MapThenFoldSet, OneOf
<1>2. ASSUME NEW f PROVE f = Taken(f) <=> Sums(f, S, g)
  <2>1. \A s \in SUBSET S : s # {} => g[OneOf(s)] = c.files[OneOf(s)].deleted
    BY OneIsIn
  <2> HIDE DEF g, S
  <2>2. Taken(f) = [s \in SUBSET S |-> IF s = {} THEN 0 ELSE f[s \ {OneOf(s)}] + g[OneOf(s)]]
    BY <2>1
  <2>3. QED
    BY <2>2 DEF Sums
<1>3. IsFiniteSet(S)
  BY ShownAreFinite, NumstatIsPrinted
<1> HIDE DEF Taken, S, g
<1>4. \E f : f = Taken(f)
  BY <1>2, <1>3, SumsExist
<1>5. sums = Taken(sums)
  BY <1>4
<1>6. Sums(sums, S, g)
  BY <1>2, <1>5
<1>7. QED
  BY <1>1, <1>6 DEF S, g

LEMMA AddedPrintedSums ==
  ASSUME NEW c, CommitsOfFiles(c)
  PROVE  \E sums : Sums(sums, G!Numstat(c), [x \in G!Numstat(c) |-> G!Counted(x.added)]) /\ AddedPrinted(c) = sums[G!Numstat(c)]
<1> DEFINE S == G!Numstat(c)
           g == [x \in S |-> G!Counted(x.added)]
           Taken(f) == [s \in SUBSET S |-> IF s = {} THEN 0 ELSE f[s \ {OneOf(s)}] + G!Counted(OneOf(s).added)]
           sums == CHOOSE f : f = Taken(f)
<1>1. AddedPrinted(c) = sums[S]
  BY DEF AddedPrinted, G!SumOver, G!FoldSet, G!MapThenFoldSet, OneOf
<1>2. ASSUME NEW f PROVE f = Taken(f) <=> Sums(f, S, g)
  <2>1. \A s \in SUBSET S : s # {} => g[OneOf(s)] = G!Counted(OneOf(s).added)
    BY OneIsIn
  <2> HIDE DEF g, S
  <2>2. Taken(f) = [s \in SUBSET S |-> IF s = {} THEN 0 ELSE f[s \ {OneOf(s)}] + g[OneOf(s)]]
    BY <2>1
  <2>3. QED
    BY <2>2 DEF Sums
<1>3. IsFiniteSet(S)
  BY ShownAreFinite, NumstatIsPrinted
<1> HIDE DEF Taken, S, g
<1>4. \E f : f = Taken(f)
  BY <1>2, <1>3, SumsExist
<1>5. sums = Taken(sums)
  BY <1>4
<1>6. Sums(sums, S, g)
  BY <1>2, <1>5
<1>7. QED
  BY <1>1, <1>6 DEF S, g

LEMMA DeletedPrintedSums ==
  ASSUME NEW c, CommitsOfFiles(c)
  PROVE  \E sums : Sums(sums, G!Numstat(c), [x \in G!Numstat(c) |-> G!Counted(x.deleted)]) /\ DeletedPrinted(c) = sums[G!Numstat(c)]
<1> DEFINE S == G!Numstat(c)
           g == [x \in S |-> G!Counted(x.deleted)]
           Taken(f) == [s \in SUBSET S |-> IF s = {} THEN 0 ELSE f[s \ {OneOf(s)}] + G!Counted(OneOf(s).deleted)]
           sums == CHOOSE f : f = Taken(f)
<1>1. DeletedPrinted(c) = sums[S]
  BY DEF DeletedPrinted, G!SumOver, G!FoldSet, G!MapThenFoldSet, OneOf
<1>2. ASSUME NEW f PROVE f = Taken(f) <=> Sums(f, S, g)
  <2>1. \A s \in SUBSET S : s # {} => g[OneOf(s)] = G!Counted(OneOf(s).deleted)
    BY OneIsIn
  <2> HIDE DEF g, S
  <2>2. Taken(f) = [s \in SUBSET S |-> IF s = {} THEN 0 ELSE f[s \ {OneOf(s)}] + g[OneOf(s)]]
    BY <2>1
  <2>3. QED
    BY <2>2 DEF Sums
<1>3. IsFiniteSet(S)
  BY ShownAreFinite, NumstatIsPrinted
<1> HIDE DEF Taken, S, g
<1>4. \E f : f = Taken(f)
  BY <1>2, <1>3, SumsExist
<1>5. sums = Taken(sums)
  BY <1>4
<1>6. Sums(sums, S, g)
  BY <1>2, <1>5
<1>7. QED
  BY <1>1, <1>6 DEF S, g

LEMMA LinesAgree ==
  ASSUME NEW c, CommitsOfFiles(c)
  PROVE  /\ AddedPrinted(c) = AddedShown(c) /\ AddedShown(c) \in Nat
         /\ DeletedPrinted(c) = DeletedShown(c) /\ DeletedShown(c) \in Nat
<1> DEFINE S == G!Shown(c)
           T == G!Numstat(c)
           added == [x \in S |-> c.files[x].added]
           deleted == [x \in S |-> c.files[x].deleted]
           addedLine == [x \in T |-> G!Counted(x.added)]
           deletedLine == [x \in T |-> G!Counted(x.deleted)]
<1>1. \A f \in S : f \in DOMAIN c.files /\ Printout(c, f) \in T
  BY ShownAreFinite, NumstatIsPrinted
<1>2. \A f \in S : /\ c.files[f].added \in Nat /\ G!Counted(Printout(c, f).added) = c.files[f].added
                   /\ c.files[f].deleted \in Nat /\ G!Counted(Printout(c, f).deleted) = c.files[f].deleted
  BY <1>1, PrintoutCounts DEF CommitsOfFiles
<1>3. /\ \A f \in S : added[f] \in Nat /\ addedLine[Printout(c, f)] = added[f]
      /\ \A f \in S : deleted[f] \in Nat /\ deletedLine[Printout(c, f)] = deleted[f]
  BY <1>1, <1>2
<1>4. PICK sums : Sums(sums, S, added) /\ AddedShown(c) = sums[S]
  BY AddedShownSums
<1>5. PICK sumt : Sums(sumt, T, addedLine) /\ AddedPrinted(c) = sumt[T]
  BY AddedPrintedSums
<1>6. PICK dels : Sums(dels, S, deleted) /\ DeletedShown(c) = dels[S]
  BY DeletedShownSums
<1>7. PICK delt : Sums(delt, T, deletedLine) /\ DeletedPrinted(c) = delt[T]
  BY DeletedPrintedSums
<1> HIDE DEF added, deleted, addedLine, deletedLine
<1>8. sums[S] = sumt[T] /\ sums[S] \in Nat
  BY <1>3, <1>4, <1>5, SumsAgree
<1>9. dels[S] = delt[T] /\ dels[S] \in Nat
  BY <1>3, <1>6, <1>7, SumsAgree
<1>10. QED
  BY <1>4, <1>5, <1>6, <1>7, <1>8, <1>9

LEMMA CommitCounts ==
  ASSUME NEW S PROVE G!Cardinality(S) = Cardinality(S)
BY DEF G!Cardinality, Cardinality

LEMMA NoFolders ==
  G!Folders({}) = 0 /\ Cardinality({}) = 0
<1>1. {Folder[f] : f \in {}} = {}
  OBVIOUS
<1>2. QED
  BY <1>1, FS_EmptySet, CommitCounts DEF G!Folders

\* What the server reads of a commit.
ReadOf(c) ==
  [type |-> G!Type(c), branch |-> G!Branch(c), source |-> "git",
   changedFiles |-> {[path |-> f, new |-> FALSE] : f \in G!Shown(c)},
   filesChanged |-> Cardinality(G!Shown(c)), linesAdded |-> AddedShown(c),
   linesDeleted |-> DeletedShown(c), newFileCount |-> 0, newDirectoryCount |-> 0,
   weight |-> G!Weight(AddedShown(c), DeletedShown(c), Cardinality(G!Shown(c)))]

LEMMA CommitRead ==
  ASSUME NEW c, CommitsOfFiles(c)
  PROVE  G!Parsed(c) = ReadOf(c)
<1>1. G!NewFiles(c) = {}
  BY DEF G!NewFiles, G!Summary
<1>2. {l.path : l \in G!Numstat(c)} \cup G!NewFiles(c) = G!Shown(c)
  BY <1>1, NumstatIsPrinted
<1>3. AddedPrinted(c) = AddedShown(c) /\ DeletedPrinted(c) = DeletedShown(c)
  BY LinesAgree
<1>4. {[path |-> f, new |-> f \in G!NewFiles(c)] : f \in G!Shown(c)}
        = {[path |-> f, new |-> FALSE] : f \in G!Shown(c)}
  <2>1. \A f \in G!Shown(c) : [path |-> f, new |-> f \in G!NewFiles(c)] = [path |-> f, new |-> FALSE]
    <3>1. \A f \in G!Shown(c) : (f \in {}) = FALSE
      OBVIOUS
    <3>2. QED
      BY <1>1, <3>1, Zenon
  <2>2. QED
    BY <2>1
<1>5. G!Parsed(c) =
        [type |-> G!Type(c), branch |-> G!Branch(c), source |-> "git",
         changedFiles |-> {[path |-> f, new |-> f \in G!NewFiles(c)] : f \in {l.path : l \in G!Numstat(c)} \cup G!NewFiles(c)},
         filesChanged |-> G!Cardinality({l.path : l \in G!Numstat(c)} \cup G!NewFiles(c)),
         linesAdded |-> AddedPrinted(c), linesDeleted |-> DeletedPrinted(c),
         newFileCount |-> G!Cardinality(G!NewFiles(c)), newDirectoryCount |-> G!Folders(G!NewFiles(c)),
         weight |-> G!Weight(AddedPrinted(c), DeletedPrinted(c),
                             G!Cardinality({l.path : l \in G!Numstat(c)} \cup G!NewFiles(c)))]
  BY Zenon DEF G!Parsed, AddedPrinted, DeletedPrinted
<1>6. G!Cardinality(G!Shown(c)) = Cardinality(G!Shown(c)) /\ G!Cardinality({}) = 0 /\ G!Folders({}) = 0
  BY CommitCounts, NoFolders
<1>7. QED
  BY <1>1, <1>2, <1>3, <1>4, <1>5, <1>6 DEF ReadOf

LEMMA WeightsCount ==
  ASSUME NEW a \in Nat, NEW d \in Nat, NEW n \in Nat
  PROVE  G!Weight(a, d, n) \in Nat \ {0}
BY DEF G!Weight

\* What the page makes of it.
LEMMA CommitShown ==
  ASSUME NEW c, CommitsOfFiles(c)
  PROVE  G!Normalized(ReadOf(c)) = [ReadOf(c) EXCEPT !.source = "git-local"]
<1> DEFINE e == ReadOf(c)
           new == {f \in e.changedFiles : f.new}
           n == Cardinality(G!Shown(c))
<1>1. e.changedFiles = {[path |-> f, new |-> FALSE] : f \in G!Shown(c)}
  BY DEF ReadOf
<1>2. new = {} /\ {f.path : f \in new} = {}
  BY <1>1
<1>3. n \in Nat /\ G!Cardinality(e.changedFiles) = n
  <2>1. IsFiniteSet(G!Shown(c)) /\ n \in Nat
    BY ShownAreFinite, FS_CardinalityType
  <2> DEFINE S == G!Shown(c)
             w == [f \in S |-> [path |-> f, new |-> FALSE]]
  <2>2. w \in Bijection(S, e.changedFiles)
    <3>1. w \in Surjection(S, e.changedFiles)
      BY <1>1 DEF Surjection
    <3>2. w \in Injection(S, e.changedFiles)
      BY <1>1 DEF Injection, IsInjective
    <3>3. QED
      BY <3>1, <3>2 DEF Bijection
  <2> HIDE DEF w, e
  <2>3. IsFiniteSet(S)
    BY <2>1
  <2> HIDE DEF S
  <2>4. Cardinality(S) = Cardinality(e.changedFiles)
    BY <2>2, <2>3, FS_Bijection DEF ExistsBijection
  <2>5. QED
    BY <2>1, <2>4, CommitCounts DEF S
<1>4. G!Or(0, 0) = 0 /\ G!Or(n, n) = n
  BY DEF G!Or
<1>5. G!Cardinality(new) = 0 /\ G!Folders({f.path : f \in new}) = 0
  BY <1>2, CommitCounts, NoFolders
<1>6. G!Type(c) # "rollback" /\ G!Weight(AddedShown(c), DeletedShown(c), n) > 0
  <2>1. AddedShown(c) \in Nat /\ DeletedShown(c) \in Nat
    BY LinesAgree
  <2> HIDE DEF n
  <2>2. G!Weight(AddedShown(c), DeletedShown(c), n) \in Nat \ {0}
    BY <1>3, <2>1, WeightsCount
  <2>3. QED
    BY <2>2 DEF G!Type
<1> DEFINE kept == G!Weight(AddedShown(c), DeletedShown(c), n)
<1>7. /\ e.type = G!Type(c) /\ e.filesChanged = n /\ e.newFileCount = 0 /\ e.newDirectoryCount = 0
      /\ e.weight = kept /\ DOMAIN e = {"type", "branch", "source", "changedFiles", "filesChanged",
           "linesAdded", "linesDeleted", "newFileCount", "newDirectoryCount", "weight"}
  BY DEF ReadOf
<1>8. G!Normalized(e) =
        [e EXCEPT !.source = "git-local",
          !.type = IF e.type = "rollback" THEN "revert" ELSE e.type,
          !.filesChanged = G!Or(G!Cardinality(e.changedFiles), e.filesChanged),
          !.newFileCount = G!Or(G!Cardinality(new), e.newFileCount),
          !.newDirectoryCount = G!Or(G!Folders({f.path : f \in new}), e.newDirectoryCount),
          !.weight = IF e.weight > 0 THEN e.weight
                     ELSE G!Weight(e.linesAdded, e.linesDeleted, G!Cardinality(e.changedFiles))]
  BY <1>7 DEF G!Normalized, ReadOf
<1>9. kept > 0
  BY <1>6
<1> HIDE DEF new, n, kept
<1>10. G!Normalized(e) =
        [e EXCEPT !.source = "git-local", !.type = e.type, !.filesChanged = e.filesChanged,
          !.newFileCount = e.newFileCount, !.newDirectoryCount = e.newDirectoryCount, !.weight = e.weight]
  <2>1. e.type # "rollback" /\ e.weight > 0
    BY <1>6, <1>7, <1>9
  <2>2. G!Or(G!Cardinality(e.changedFiles), e.filesChanged) = e.filesChanged
    BY <1>3, <1>4, <1>7
  <2>3. /\ G!Or(G!Cardinality(new), e.newFileCount) = e.newFileCount
        /\ G!Or(G!Folders({f.path : f \in new}), e.newDirectoryCount) = e.newDirectoryCount
    BY <1>4, <1>5, <1>7
  <2> HIDE DEF e
  <2>4. QED
    BY <1>8, <2>1, <2>2, <2>3
<1>11. QED
  BY <1>7, <1>10 DEF ReadOf

\* On the server an event is what has been read, and on the page what has been made of that.
LocalInvariant ==
  /\ commit \in G!LocalCommits /\ at \in {"git", "server", "page"}
  /\ at = "server" => event = ReadOf(commit)
  /\ at = "page" => event = [ReadOf(commit) EXCEPT !.source = "git-local"]

LEMMA LocalBegins ==
  G!Init => LocalInvariant
BY DEF G!Init, LocalInvariant

LEMMA LocalStays ==
  ASSUME LocalInvariant, [G!Next]_gVars PROVE LocalInvariant'
<1>1. commit \in G!LocalCommits
  BY DEF LocalInvariant
<1>2. CommitsOfFiles(commit)
  BY <1>1, CommitsHaveFiles
<1>3. CASE G!Reads
  BY <1>1, <1>2, <1>3, CommitRead DEF G!Reads, LocalInvariant
<1>4. CASE G!Shows
  BY <1>1, <1>2, <1>4, CommitShown DEF G!Shows, LocalInvariant
<1>5. CASE UNCHANGED gVars
  BY <1>5 DEF gVars, LocalInvariant
<1>6. QED
  BY <1>3, <1>4, <1>5 DEF G!Next

LEMMA LocalSuffices ==
  ASSUME LocalInvariant PROVE G!TypeOK /\ G!EventIsTheCommits
<1> DEFINE n == Cardinality(G!Shown(commit))
<1>1. /\ commit \in G!LocalCommits /\ at \in {"git", "server", "page"}
      /\ at = "server" => event = ReadOf(commit)
      /\ at = "page" => event = [ReadOf(commit) EXCEPT !.source = "git-local"]
  BY DEF LocalInvariant
<1>2. CommitsOfFiles(commit)
  BY <1>1, CommitsHaveFiles
<1>3. SUFFICES ASSUME at # "git" PROVE G!TypeOK /\ G!EventIsTheCommits
  BY <1>1 DEF G!TypeOK, G!EventIsTheCommits
<1>4. /\ event.type = G!Type(commit) /\ event.changedFiles = {[path |-> f, new |-> FALSE] : f \in G!Shown(commit)}
      /\ event.filesChanged = n /\ event.linesAdded = AddedShown(commit)
      /\ event.linesDeleted = DeletedShown(commit) /\ event.newFileCount = 0
      /\ event.newDirectoryCount = 0 /\ event.weight = G!Weight(AddedShown(commit), DeletedShown(commit), n)
      /\ event.source = IF at = "page" THEN "git-local" ELSE "git"
  <2>1. CASE at = "server"
    <3>1. event = ReadOf(commit)
      BY <1>1, <2>1
    <3>2. QED
      BY <2>1, <3>1 DEF ReadOf
  <2>2. CASE at = "page"
    <3>1. event = [ReadOf(commit) EXCEPT !.source = "git-local"]
      BY <1>1, <2>2
    <3>2. QED
      BY <2>2, <3>1 DEF ReadOf
  <2>3. QED
    BY <1>1, <1>3, <2>1, <2>2
<1>5. n \in Nat /\ AddedShown(commit) \in Nat /\ DeletedShown(commit) \in Nat
  BY <1>2, LinesAgree, ShownAreFinite, FS_CardinalityType
<1>6. event.weight \in Nat \ {0}
  <2> HIDE DEF n
  <2>1. QED
    BY <1>4, <1>5, WeightsCount
<1>7. event.type \in {"commit", "merge", "revert"} /\ (commit.parents > 1 => event.type = "merge")
  BY <1>4 DEF G!Type
<1>8. {f.path : f \in event.changedFiles} = G!Shown(commit) /\ \A f \in event.changedFiles : ~f.new
  <2> DEFINE S == G!Shown(commit)
             kept(f) == [path |-> f, new |-> FALSE]
  <2>1. \A f \in S : kept(f).path = f /\ ~kept(f).new
    OBVIOUS
  <2>2. event.changedFiles = {kept(f) : f \in S}
    BY <1>4
  <2> HIDE DEF S, kept
  <2>3. {f.path : f \in event.changedFiles} = S /\ \A f \in event.changedFiles : ~f.new
    BY <2>1, <2>2
  <2>4. QED
    BY <2>3 DEF S
<1>9. /\ event.linesAdded = G!SumOver(G!Shown(commit), LAMBDA f : commit.files[f].added)
      /\ event.linesDeleted = G!SumOver(G!Shown(commit), LAMBDA f : commit.files[f].deleted)
  BY <1>4 DEF AddedShown, DeletedShown
<1>10. event.filesChanged = G!Cardinality(G!Shown(commit))
  BY <1>4, CommitCounts
<1>11. event.weight = G!Weight(event.linesAdded, event.linesDeleted, event.filesChanged)
  BY <1>4
<1>12. /\ event.newFileCount = G!Cardinality({f \in event.changedFiles : f.new})
       /\ event.newDirectoryCount = G!Folders({f.path : f \in {g \in event.changedFiles : g.new}})
       /\ \A f \in event.changedFiles : f.new => commit.files[f.path].new
  <2>1. {g \in event.changedFiles : g.new} = {}
    BY <1>8
  <2>2. {f.path : f \in {g \in event.changedFiles : g.new}} = {}
    BY <2>1
  <2>3. event.newFileCount = 0 /\ event.newDirectoryCount = 0
    BY <1>4
  <2>4. QED
    BY <1>8, <2>1, <2>2, <2>3, NoFolders, CommitCounts
<1>13. G!TypeOK
  BY <1>1, <1>3, <1>4, <1>6, <1>7 DEF G!TypeOK
<1>14. G!EventIsTheCommits
  BY <1>4, <1>7, <1>8, <1>9, <1>10, <1>11, <1>12 DEF G!EventIsTheCommits
<1>15. QED
  BY <1>13, <1>14

-----------------------------------------------------------------------------
(* Charts (chartMapper.js). *)

Patterns == {"hold", "fill", "syncopated", "staccato", "steady"}

\* What a chart needs of an intent.
Fits(i) == i.pattern \in Patterns /\ i.bias \in Int /\ i.energy \in Nat /\ i.density \in Nat /\ i.accent \in Nat

LEMMA IntentsFit ==
  ASSUME NEW i \in Intents PROVE Fits(i)
<1>1. PICK t \in Types : i \in {Intent(t, class, group, m, seed) :
        class \in ClassesOf(t), group \in Groups, m \in Metrics(t), seed \in Seeds}
  BY DEF Intents
<1>2. PICK class \in ClassesOf(t), group \in Groups, m \in Metrics(t), seed \in Seeds :
        i = Intent(t, class, group, m, seed)
  BY <1>1
<1>3. \A holds \in BOOLEAN : \A n \in Nat : Percent(holds, n) \in Nat
  BY DEF Percent
<1>4. \A a, b \in Int : Lowest(a, b) \in Int /\ Highest(a, b) \in Int
  BY DEF Lowest, Highest
<1>5. m.size \in Nat /\ m.activity \in Nat /\ m.resolution \in Nat /\ m.tension \in Nat
  <2>1. PICK size \in Scores, activity \in Scores, checks \in Scores, strain \in Scores :
          m = [size |-> size, activity |-> activity,
               resolution |-> Lowest(100, Percent(t \in {"review-approve", "history-approved"}, 45)
                     + Percent(t = "review-resolve", 28) + Percent(t = "merge", 80)
                     + (15 * checks) \div 100),
               tension |-> Lowest(100, Percent(t = "review-request-changes", 45)
                  + Percent(t \in {"review-reopen", "revert"}, 35) + (45 * strain) \div 100)]
    BY DEF Metrics
  <2>2. size \in Nat /\ activity \in Nat /\ checks \in Nat /\ strain \in Nat
    BY ScoresArePercents
  <2>3. \A n \in Nat : Lowest(100, n) \in Nat
    BY DEF Lowest
  <2>4. /\ Percent(t \in {"review-approve", "history-approved"}, 45) \in Nat /\ Percent(t = "review-resolve", 28) \in Nat
        /\ Percent(t = "merge", 80) \in Nat /\ Percent(t = "review-request-changes", 45) \in Nat
        /\ Percent(t \in {"review-reopen", "revert"}, 35) \in Nat
    BY DEF Percent
  <2>5. (15 * checks) \div 100 \in Nat /\ (45 * strain) \div 100 \in Nat
    BY <2>2
  <2>6. QED
    BY <2>1, <2>2, <2>3, <2>4, <2>5
<1>6. i.pattern \in Patterns
  BY <1>2 DEF Intent, Pattern, Patterns
<1>7. i.bias \in Int
  BY <1>2 DEF Intent, LaneBias
<1>8. i.energy \in Nat
  <2>1. i.energy = Lowest(100, 18 + (38 * m.size + 28 * m.activity + 14 * m.resolution) \div 100
                + Percent(t = "review-resolve", 8) + Percent(t = "merge", 18))
    BY <1>2 DEF Intent
  <2>2. Percent(t = "review-resolve", 8) \in Nat /\ Percent(t = "merge", 18) \in Nat
    BY DEF Percent
  <2>3. (38 * m.size + 28 * m.activity + 14 * m.resolution) \div 100 \in Nat
    BY <1>5
  <2>4. QED
    BY <2>1, <2>2, <2>3 DEF Lowest
<1>9. i.density \in Nat
  <2>1. i.density = Highest(10, 18 + (35 * m.size + 32 * m.activity) \div 100
                 + Percent(t = "push", 12) - Percent(t = "merge", 12))
    BY <1>2 DEF Intent
  <2>2. Percent(t = "push", 12) \in Nat /\ Percent(t = "merge", 12) \in Nat
    BY DEF Percent
  <2>3. (35 * m.size + 32 * m.activity) \div 100 \in Nat
    BY <1>5
  <2>4. QED
    BY <2>1, <2>2, <2>3 DEF Highest
<1>10. i.accent \in Nat
  <2>1. i.accent = Lowest(100, 12 + (35 * m.resolution + 16 * m.tension) \div 100
                + Percent(t = "merge", 42) + Percent(t = "review-resolve", 10)
                + Percent(t = "review-approve", 16))
    BY <1>2 DEF Intent
  <2>2. Percent(t = "merge", 42) \in Nat /\ Percent(t = "review-resolve", 10) \in Nat /\ Percent(t = "review-approve", 16) \in Nat
    BY DEF Percent
  <2>3. (35 * m.resolution + 16 * m.tension) \div 100 \in Nat
    BY <1>5
  <2>4. QED
    BY <2>1, <2>2, <2>3 DEF Lowest
<1>11. QED
  BY <1>6, <1>7, <1>8, <1>9, <1>10 DEF Fits

ChartNotes ==
  {n \in [event : Nat, index : Nat, type : {"accent", "hold", "tap"}, length : Nat, beat : Nat, lane : 1..LaneCount] :
     n.length >= 50 /\ n.beat % 25 = 0}

LEMMA LanesFit ==
  ASSUME NEW n \in Int PROVE C!Clamp(n) \in 1..LaneCount
BY ThereIsALane DEF C!Clamp

\* How many notes an intent becomes, how long they are, and how long it lasts.
LEMMA BudgetFits ==
  ASSUME NEW i, Fits(i)
  PROVE  /\ C!Budget(i) \in 1..3 /\ (i.pattern = "hold" => C!Budget(i) = 1)
         /\ i.pattern \in {"steady", "staccato"} => C!Budget(i) \in 1..2
         /\ C!PhraseLength(i) \in Nat /\ C!PhraseLength(i) % 50 = 0
         /\ C!PhraseLength(i) >= IF i.pattern = "fill" THEN 150 ELSE 200
         /\ C!Duration(i) \in Nat /\ C!Duration(i) >= 50
<1>1. \A n \in Nat : C!Rounded(n) \in Nat
  BY DEF C!Rounded
<1>2. /\ 2 * i.energy \in Nat /\ 3 * i.density \in Nat /\ 2 * i.density \in Nat /\ 2 * i.accent \in Nat
      /\ i.density \in Nat /\ i.pattern \in Patterns
  BY DEF Fits
<1>3. /\ C!Rounded(2 * i.energy) \in Nat /\ C!Rounded(3 * i.density) \in Nat /\ C!Rounded(2 * i.density) \in Nat
      /\ C!Rounded(2 * i.accent) \in Nat /\ C!Rounded(i.density) \in Nat
  BY <1>1, <1>2
<1>4. /\ C!Budget(i) \in 1..3 /\ (i.pattern = "hold" => C!Budget(i) = 1)
      /\ i.pattern \in {"steady", "staccato"} => C!Budget(i) \in 1..2
  BY <1>2, <1>3, BeatsHoldNotes DEF C!Budget, C!Lowest, Patterns
<1>5. /\ C!PhraseLength(i) \in Nat /\ C!PhraseLength(i) % 50 = 0
      /\ C!PhraseLength(i) >= IF i.pattern = "fill" THEN 150 ELSE 200
  BY <1>2, <1>3 DEF C!PhraseLength, Patterns
<1>6. C!Duration(i) \in Nat /\ C!Duration(i) >= 50
  BY <1>2, <1>3 DEF C!Duration, Patterns
<1>7. QED
  BY <1>4, <1>5, <1>6

\* A phrase is over before the next one may begin, by beats that are whole.
Later(i, k) == C!Offsets[i.pattern][k]

LEMMA OffsetsFit ==
  ASSUME NEW i, Fits(i), NEW k \in 1..C!Budget(i), NEW b \in Nat, b % 50 = 0
  PROVE  /\ Later(i, k) \in Nat /\ (b + Later(i, k)) % 25 = 0
         /\ (b + Later(i, k)) \div 100 >= b \div 100
         /\ (b + Later(i, k)) \div 100 < (b + C!PhraseLength(i)) \div 100
<1> DEFINE o == Later(i, k)
           l == C!PhraseLength(i)
<1>1. /\ C!Budget(i) \in 1..3 /\ (i.pattern = "hold" => C!Budget(i) = 1)
      /\ i.pattern \in {"steady", "staccato"} => C!Budget(i) \in 1..2
      /\ l \in Nat /\ l >= IF i.pattern = "fill" THEN 150 ELSE 200
  BY BudgetFits
<1>2. i.pattern \in Patterns /\ k \in 1..3
  BY <1>1 DEF Fits
<1> HIDE DEF l
<1>3. o \in {0, 25, 50, 75, 125} /\ (o = 125 => i.pattern = "syncopated")
  <2>1. CASE i.pattern = "hold"
    BY <1>1, <1>2, <2>1 DEF C!Offsets, Later
  <2>2. CASE i.pattern = "fill"
    BY <1>1, <1>2, <2>2 DEF C!Offsets, Later
  <2>3. CASE i.pattern = "syncopated"
    BY <1>1, <1>2, <2>3 DEF C!Offsets, Later
  <2>4. CASE i.pattern \in {"steady", "staccato"}
    <3>1. k \in {1, 2}
      BY <1>1, <2>4
    <3>2. QED
      BY <2>4, <3>1 DEF C!Offsets, Later
  <2>5. QED
    BY <1>2, <2>1, <2>2, <2>3, <2>4 DEF Patterns
<1> HIDE DEF o
<1>4. PICK r \in Nat : b = 100 * r \/ b = 100 * r + 50
  <2>1. b \div 100 \in Nat /\ (b = 100 * (b \div 100) \/ b = 100 * (b \div 100) + 50)
    OBVIOUS
  <2>2. QED
    BY <2>1
<1>5. \A c \in 0..99 : (100 * r + c) \div 100 = r
  OBVIOUS
<1>6. \A c \in Nat : c >= 100 => (100 * r + c) \div 100 >= r + 1
  OBVIOUS
<1>7. \A c \in Nat : c >= 200 => (100 * r + c) \div 100 >= r + 2
  OBVIOUS
<1>8. \A c \in 100..199 : (100 * r + c) \div 100 = r + 1
  OBVIOUS
<1>9. CASE b = 100 * r
  <2>1. b \div 100 = r /\ (o = 125 => (b + o) \div 100 = r + 1) /\ (o # 125 => (b + o) \div 100 = r)
    BY <1>3, <1>5, <1>8, <1>9
  <2>2. (b + l) \div 100 >= r + 1 /\ (o = 125 => (b + l) \div 100 >= r + 2)
    BY <1>1, <1>3, <1>6, <1>7, <1>9
  <2>3. (b + o) % 25 = 0
    BY <1>3, <1>9
  <2>4. (b + l) \div 100 \in Int
    BY <1>1
  <2>5. QED
    BY <1>3, <2>1, <2>2, <2>3, <2>4 DEF o, l
<1>10. CASE b = 100 * r + 50
  <2>1. /\ b \div 100 = r /\ (o < 50 => (b + o) \div 100 = r)
        /\ o >= 50 => (b + o) \div 100 = r + 1
    <3>1. o < 50 => o + 50 \in 0..99
      BY <1>3
    <3>2. o >= 50 => o + 50 \in 100..199
      BY <1>3
    <3>3. b + o = 100 * r + (o + 50)
      BY <1>3, <1>10
    <3>4. 50 \in 0..99
      OBVIOUS
    <3>5. QED
      BY <1>3, <1>5, <1>8, <1>10, <3>1, <3>2, <3>3, <3>4
  <2>2. (b + l) \div 100 >= r + 2
    <3>1. l + 50 \in Nat /\ l + 50 >= 200 /\ b + l = 100 * r + (l + 50)
      BY <1>1, <1>10
    <3>2. QED
      BY <1>7, <3>1
  <2>3. (b + o) % 25 = 0
    BY <1>3, <1>10
  <2>4. (b + l) \div 100 \in Int
    BY <1>1
  <2>5. QED
    BY <1>3, <2>1, <2>2, <2>3, <2>4 DEF o, l
<1>11. QED
  BY <1>4, <1>9, <1>10 DEF o, l

\* Of the n-th event's notes, from beat b to where the next phrase begins.
NotesOfEvent(s, e, b, next1) ==
  /\ s \in Seq(ChartNotes) /\ Len(s) \in Nat \ {0}
  /\ \A k \in DOMAIN s : s[k].event = e /\ s[k].index = k
  /\ \A k \in DOMAIN s : s[k].beat \div 100 >= b \div 100 /\ s[k].beat \div 100 < next1 \div 100

LEMMA ComposedFit ==
  ASSUME NEW i \in Intents, NEW e \in Nat, NEW b \in Nat, b % 50 = 0
  PROVE  /\ NotesOfEvent(C!Composed(i, e, b), e, b, b + C!PhraseLength(i))
         /\ C!PhraseLength(i) \in Nat /\ C!PhraseLength(i) % 50 = 0
         /\ (b + C!PhraseLength(i)) \div 100 > b \div 100
<1> DEFINE s == C!Composed(i, e, b)
           l == C!PhraseLength(i)
           o(k) == Later(i, k)
<1>1. Fits(i)
  BY IntentsFit
<1>2. C!Budget(i) \in 1..3 /\ C!Duration(i) \in Nat /\ C!Duration(i) >= 50
      /\ l \in Nat /\ l % 50 = 0
  BY <1>1, BudgetFits
<1>3. \A k \in 1..C!Budget(i) : /\ o(k) \in Nat /\ (b + o(k)) % 25 = 0
        /\ (b + o(k)) \div 100 >= b \div 100 /\ (b + o(k)) \div 100 < (b + l) \div 100
  BY <1>1, OffsetsFit
<1> HIDE DEF l, o
<1>4. \A k \in 1..C!Budget(i) : C!Clamp(C!Lane(i) + C!LaneOffset(i, k - 1)) \in 1..LaneCount
  <2>1. C!Lane(i) \in Int
    <3>1. i.bias \in Int
      BY <1>1 DEF Fits
    <3>2. C!Clamp(i.bias) \in Int
      BY <3>1, LanesFit, ThereIsALane
    <3>3. QED
      BY <3>2, ThereIsALane DEF C!Lane
  <2>2. \A k \in 1..C!Budget(i) : C!LaneOffset(i, k - 1) \in Int
    BY <1>2 DEF C!LaneOffset
  <2>3. QED
    BY <2>1, <2>2, LanesFit
<1>5. \A k \in 1..C!Budget(i) : C!NoteType(i, k - 1) \in {"accent", "hold", "tap"}
  BY DEF C!NoteType
<1>6. s = [k \in 1..C!Budget(i) |->
            [event |-> e, index |-> k, type |-> C!NoteType(i, k - 1), length |-> C!Duration(i),
             beat |-> b + o(k), lane |-> C!Clamp(C!Lane(i) + C!LaneOffset(i, k - 1))]]
  BY DEF C!Composed, o, Later
<1> HIDE DEF s
<1>7. ASSUME NEW k \in 1..C!Budget(i)
      PROVE  s[k] \in ChartNotes /\ s[k].event = e /\ s[k].index = k /\ s[k].beat = b + o(k)
  <2>1. s[k] = [event |-> e, index |-> k, type |-> C!NoteType(i, k - 1), length |-> C!Duration(i),
             beat |-> b + o(k), lane |-> C!Clamp(C!Lane(i) + C!LaneOffset(i, k - 1))]
    BY <1>6
  <2>2. k \in Nat /\ b + o(k) \in Nat
    BY <1>2, <1>3
  <2>3. QED
    BY <1>2, <1>3, <1>4, <1>5, <2>1, <2>2 DEF ChartNotes
<1>8. DOMAIN s = 1..C!Budget(i) /\ s \in Seq(ChartNotes) /\ Len(s) = C!Budget(i)
  <2>1. s = [k \in 1..C!Budget(i) |-> s[k]]
    BY <1>6
  <2>2. s \in [1..C!Budget(i) -> ChartNotes]
    BY <1>7, <2>1
  <2>3. C!Budget(i) \in Nat
    BY <1>2
  <2>4. QED
    BY <2>2, <2>3
<1>9. NotesOfEvent(s, e, b, b + l)
  <2>1. Len(s) \in Nat \ {0}
    BY <1>2, <1>8
  <2>2. \A k \in DOMAIN s : s[k].event = e /\ s[k].index = k
    BY <1>7, <1>8
  <2>3. \A k \in DOMAIN s : s[k].beat \div 100 >= b \div 100 /\ s[k].beat \div 100 < (b + l) \div 100
    BY <1>3, <1>7, <1>8
  <2>4. QED
    BY <1>8, <2>1, <2>2, <2>3 DEF NotesOfEvent
<1>10. (b + l) \div 100 > b \div 100
  <2>1. 1 \in 1..C!Budget(i)
    BY <1>2
  <2>2. (b + o(1)) \div 100 >= b \div 100 /\ (b + o(1)) \div 100 < (b + l) \div 100 /\ o(1) \in Nat
    BY <1>3, <2>1
  <2>3. QED
    BY <1>2, <2>2
<1>11. QED
  BY <1>2, <1>9, <1>10 DEF s, l

LEMMA NotesJoined ==
  ASSUME NEW s \in Seq(ChartNotes), NEW t \in Seq(ChartNotes)
  PROVE  s \o t \in Seq(ChartNotes) /\ C!ToSet(s \o t) = C!ToSet(s) \cup C!ToSet(t)
<1>1. /\ s \o t \in Seq(ChartNotes) /\ Len(s \o t) = Len(s) + Len(t)
      /\ \A i \in 1 .. Len(s) + Len(t) : (s \o t)[i] = IF i <= Len(s) THEN s[i] ELSE t[i - Len(s)]
  BY ConcatProperties
<1>2. /\ Len(s) \in Nat /\ Len(t) \in Nat /\ DOMAIN s = 1..Len(s) /\ DOMAIN t = 1..Len(t)
      /\ DOMAIN (s \o t) = 1..Len(s) + Len(t)
  BY <1>1, LenProperties
<1>3. \A k \in DOMAIN s : k \in DOMAIN (s \o t) /\ (s \o t)[k] = s[k]
  BY <1>1, <1>2
<1>4. \A k \in DOMAIN t : Len(s) + k \in DOMAIN (s \o t) /\ (s \o t)[Len(s) + k] = t[k]
  <2> TAKE k \in DOMAIN t
  <2>1. k \in Nat /\ k >= 1 /\ k <= Len(t) /\ Len(s) + k \in 1..Len(s) + Len(t)
    BY <1>2
  <2>2. ~ (Len(s) + k <= Len(s)) /\ (Len(s) + k) - Len(s) = k
    BY <1>2, <2>1
  <2>3. QED
    BY <1>1, <1>2, <2>1, <2>2
<1>5. \A k \in DOMAIN (s \o t) : (s \o t)[k] \in C!ToSet(s) \cup C!ToSet(t)
  <2> TAKE k \in DOMAIN (s \o t)
  <2>1. CASE k <= Len(s)
    <3>1. k \in DOMAIN s
      BY <1>2, <2>1
    <3>2. QED
      BY <1>3, <3>1 DEF C!ToSet
  <2>2. CASE ~ (k <= Len(s))
    <3>1. k - Len(s) \in DOMAIN t /\ (s \o t)[k] = t[k - Len(s)]
      BY <1>1, <1>2, <2>2
    <3>2. QED
      BY <3>1 DEF C!ToSet
  <2>3. QED
    BY <2>1, <2>2
<1>6. C!ToSet(s) \cup C!ToSet(t) \subseteq C!ToSet(s \o t)
  BY <1>3, <1>4 DEF C!ToSet
<1>7. C!ToSet(s \o t) \subseteq C!ToSet(s) \cup C!ToSet(t)
  BY <1>5 DEF C!ToSet
<1>8. QED
  BY <1>1, <1>6, <1>7

\* Every event has notes, those of an event are over, by whole beats, before those of the next one
\* begin, and the next phrase begins after them all.
Shown(S, n, next1) ==
  /\ \A m \in S : m \in ChartNotes /\ m.event \in 1..n /\ m.beat \div 100 < next1 \div 100
  /\ \A l, m \in S : l.event < m.event => l.beat \div 100 < m.beat \div 100
  /\ \A l, m \in S : l.event = m.event /\ l.index = m.index => l = m
  /\ \A e \in 1..n : \E m \in S : m.event = e

ChartInvariant ==
  /\ cursor \in Nat /\ cursor % 50 = 0 /\ events \in 0..MaxEvents
  /\ notes \in Seq(ChartNotes)
  /\ Shown(C!ToSet(notes), events, cursor)

LEMMA ChartBegins ==
  C!Init => ChartInvariant
<1>1. SUFFICES ASSUME C!Init PROVE ChartInvariant
  OBVIOUS
<1>2. cursor = 0 /\ notes = <<>> /\ events = 0
  BY <1>1 DEF C!Init
<1>3. <<>> \in Seq(ChartNotes) /\ DOMAIN <<>> = {}
  OBVIOUS
<1>4. C!ToSet(notes) = {}
  BY <1>2, <1>3 DEF C!ToSet
<1>5. Shown({}, 0, 0)
  BY DEF Shown
<1>6. QED
  BY <1>2, <1>3, <1>4, <1>5, BeatsHoldNotes DEF ChartInvariant

\* One event more.
LEMMA EventShown ==
  ASSUME NEW S, NEW n \in Nat, NEW c \in Nat, Shown(S, n, c), NEW b \in Nat, b >= c, NEW d \in Nat,
         NEW s, NotesOfEvent(s, n + 1, b, d), d \div 100 > b \div 100
  PROVE  Shown(S \cup C!ToSet(s), n + 1, d)
<1> DEFINE T1 == C!ToSet(s)
<1>1. s \in Seq(ChartNotes) /\ Len(s) \in Nat \ {0} /\ DOMAIN s = 1..Len(s)
  BY LenProperties DEF NotesOfEvent
<1>2. \A k \in DOMAIN s : s[k] \in ChartNotes
  BY <1>1
<1>3. \A m \in T1 : /\ m \in ChartNotes /\ m.event = n + 1
                    /\ m.beat \div 100 >= b \div 100 /\ m.beat \div 100 < d \div 100
  BY <1>2 DEF NotesOfEvent, C!ToSet
<1>4. \A l, m \in T1 : l.index = m.index => l = m
  BY DEF NotesOfEvent, C!ToSet
<1>5. \E m \in T1 : m.event = n + 1
  <2>1. 1 \in DOMAIN s
    BY <1>1
  <2>2. s[1] \in T1
    BY <2>1 DEF C!ToSet
  <2>3. QED
    BY <1>3, <2>2
<1> HIDE DEF T1
<1>6. \A m \in S : m \in ChartNotes /\ m.event \in 1..n /\ m.beat \div 100 < c \div 100
  BY DEF Shown
<1>7. c \div 100 \in Int /\ b \div 100 \in Int /\ d \div 100 \in Int /\ c \div 100 <= b \div 100
  OBVIOUS
<1>8. \A m \in ChartNotes : m.beat \div 100 \in Int /\ m.event \in Nat
  BY DEF ChartNotes
<1>9. \A m \in S \cup T1 : m \in ChartNotes /\ m.event \in 1..n + 1 /\ m.beat \div 100 < d \div 100
  <2> TAKE m \in S \cup T1
  <2>1. CASE m \in S
    <3>1. m \in ChartNotes /\ m.event \in 1..n /\ m.beat \div 100 < c \div 100 /\ m.beat \div 100 \in Int
      BY <1>6, <1>8, <2>1
    <3>2. QED
      BY <1>7, <3>1
  <2>2. CASE m \in T1
    BY <1>3, <2>2
  <2>3. QED
    BY <2>1, <2>2
<1>10. ASSUME NEW l \in S \cup T1, NEW m \in S \cup T1, l.event < m.event
       PROVE  l.beat \div 100 < m.beat \div 100
  <2>1. CASE l \in S /\ m \in S
    BY <1>10, <2>1 DEF Shown
  <2>2. CASE l \in S /\ m \in T1
    <3>1. l.beat \div 100 < c \div 100 /\ m.beat \div 100 >= b \div 100
      BY <1>3, <1>6, <2>2
    <3>2. l.beat \div 100 \in Int /\ m.beat \div 100 \in Int
      BY <1>8, <1>9
    <3>3. QED
      BY <1>7, <3>1, <3>2
  <2>3. CASE l \in T1
    <3>1. l.event = n + 1 /\ m.event \in 1..n + 1
      BY <1>3, <1>9, <2>3
    <3>2. QED
      BY <1>10, <3>1
  <2>4. QED
    BY <2>1, <2>2, <2>3
<1>11. ASSUME NEW l \in S \cup T1, NEW m \in S \cup T1, l.event = m.event, l.index = m.index
       PROVE  l = m
  <2>1. CASE l \in S /\ m \in S
    BY <1>11, <2>1 DEF Shown
  <2>2. CASE l \in T1 /\ m \in T1
    BY <1>4, <1>11, <2>2
  <2>3. ~ (l \in S /\ m \in T1) /\ ~ (l \in T1 /\ m \in S)
    BY <1>3, <1>6, <1>11
  <2>4. QED
    BY <2>1, <2>2, <2>3
<1>12. ASSUME NEW e \in 1..n + 1 PROVE \E m \in S \cup T1 : m.event = e
  <2>1. CASE e \in 1..n
    <3>1. \E m \in S : m.event = e
      BY <2>1 DEF Shown
    <3>2. QED
      BY <3>1
  <2>2. CASE e \notin 1..n
    <3>1. e = n + 1
      BY <2>2
    <3>2. QED
      BY <1>5, <3>1
  <2>3. QED
    BY <2>1, <2>2
<1>13. QED
  BY <1>9, <1>10, <1>11, <1>12 DEF Shown, T1

LEMMA ChartStays ==
  ASSUME ChartInvariant, [C!Next]_cVars PROVE ChartInvariant'
<1>1. CASE UNCHANGED cVars
  BY <1>1 DEF cVars, ChartInvariant, Shown, C!ToSet
<1>2. ASSUME NEW i \in Intents, NEW again \in BOOLEAN, C!Compose(i, again) PROVE ChartInvariant'
  <2> DEFINE b == cursor + C!SessionGap(again)
             d == b + C!PhraseLength(i)
             s == C!Composed(i, events + 1, b)
  <2>1. /\ cursor \in Nat /\ cursor % 50 = 0 /\ events \in 0..MaxEvents /\ notes \in Seq(ChartNotes)
        /\ Shown(C!ToSet(notes), events, cursor) /\ MaxEvents \in Nat
    BY BeatsHoldNotes DEF ChartInvariant
  <2>2. events < MaxEvents /\ events' = events + 1 /\ notes' = notes \o s /\ cursor' = d
    BY <1>2 DEF C!Compose
  <2>3. b \in Nat /\ b % 50 = 0 /\ b >= cursor
    <3>1. C!SessionGap(again) \in {0, 200}
      BY DEF C!SessionGap
    <3>2. QED
      BY <2>1, <3>1
  <2>4. events + 1 \in Nat /\ events \in Nat
    BY <2>1
  <2> HIDE DEF b
  <2>5. /\ NotesOfEvent(s, events + 1, b, d) /\ C!PhraseLength(i) \in Nat /\ C!PhraseLength(i) % 50 = 0
        /\ d \div 100 > b \div 100
    BY <2>3, <2>4, ComposedFit
  <2>6. d \in Nat /\ d % 50 = 0
    BY <2>3, <2>5
  <2> HIDE DEF s, d
  <2>7. s \in Seq(ChartNotes)
    BY <2>5 DEF NotesOfEvent
  <2>8. notes' \in Seq(ChartNotes) /\ C!ToSet(notes \o s) = C!ToSet(notes) \cup C!ToSet(s)
    BY <2>1, <2>2, <2>7, NotesJoined
  <2>9. Shown(C!ToSet(notes) \cup C!ToSet(s), events + 1, d)
    BY <2>1, <2>3, <2>4, <2>5, <2>6, EventShown
  <2>10. C!ToSet(notes)' = C!ToSet(notes \o s)
    BY <2>2 DEF C!ToSet
  <2>11. Shown(C!ToSet(notes), events, cursor)'
    BY <2>2, <2>8, <2>9, <2>10 DEF Shown
  <2>12. events' \in 0..MaxEvents
    BY <2>1, <2>2
  <2>13. cursor' \in Nat /\ cursor' % 50 = 0
    BY <2>2, <2>6
  <2>14. QED
    BY <2>8, <2>11, <2>12, <2>13 DEF ChartInvariant
<1>3. QED
  BY <1>1, <1>2 DEF C!Next

(* The first ones of finitely many. *)

Strict(S, less) ==
  /\ \A a \in S : <<a, a>> \notin less
  /\ \A a, b \in S : a = b \/ <<a, b>> \in less \/ <<b, a>> \in less
  /\ \A a, b, c \in S : <<a, b>> \in less /\ <<b, c>> \in less => <<a, c>> \in less

Ahead(S, less, m) == {b \in S : <<b, m>> \in less}

LEMMA AheadCounts ==
  ASSUME NEW S, NEW less, IsFiniteSet(S), Strict(S, less)
  PROVE  /\ \A m \in S : Cardinality(Ahead(S, less, m)) \in Nat
         /\ \A a, b \in S : <<a, b>> \in less => Cardinality(Ahead(S, less, a)) < Cardinality(Ahead(S, less, b))
<1>1. ASSUME NEW m \in S PROVE IsFiniteSet(Ahead(S, less, m)) /\ Cardinality(Ahead(S, less, m)) \in Nat
  <2>1. Ahead(S, less, m) \in SUBSET S
    BY DEF Ahead
  <2>2. QED
    BY <2>1, FS_Subset, FS_CardinalityType
<1>2. ASSUME NEW a \in S, NEW b \in S, <<a, b>> \in less
      PROVE  Cardinality(Ahead(S, less, a)) < Cardinality(Ahead(S, less, b))
  <2>1. Ahead(S, less, a) \in SUBSET Ahead(S, less, b) /\ a \in Ahead(S, less, b) /\ a \notin Ahead(S, less, a)
    BY <1>2 DEF Strict, Ahead
  <2>2. IsFiniteSet(Ahead(S, less, b))
    BY <1>1
  <2>3. Cardinality(Ahead(S, less, a)) <= Cardinality(Ahead(S, less, b))
        /\ (Cardinality(Ahead(S, less, b)) = Cardinality(Ahead(S, less, a)) => Ahead(S, less, b) = Ahead(S, less, a))
    BY <2>1, <2>2, FS_Subset
  <2>4. Cardinality(Ahead(S, less, a)) \in Nat /\ Cardinality(Ahead(S, less, b)) \in Nat
    BY <1>1
  <2>5. QED
    BY <2>1, <2>3, <2>4
<1>3. QED
  BY <1>1, <1>2

LEMMA SomeoneIsFirst ==
  ASSUME NEW S, NEW less, IsFiniteSet(S), Strict(S, less), S # {}
  PROVE  \E m \in S : Ahead(S, less, m) = {}
<1> DEFINE Counts1 == {Cardinality(Ahead(S, less, m)) : m \in S}
<1>1. Counts1 \in SUBSET Nat /\ Counts1 # {}
  BY AheadCounts
<1>2. PICK n \in Counts1 : \A k \in Counts1 : n <= k
  <2> HIDE DEF Counts1
  <2>1. QED
    BY <1>1, FirstNumber
<1>3. PICK m \in S : n = Cardinality(Ahead(S, less, m))
  BY <1>2
<1>4. ASSUME NEW b \in Ahead(S, less, m) PROVE FALSE
  <2>1. b \in S /\ <<b, m>> \in less
    BY <1>4 DEF Ahead
  <2>2. Cardinality(Ahead(S, less, b)) < Cardinality(Ahead(S, less, m))
    BY <2>1, AheadCounts
  <2>3. Cardinality(Ahead(S, less, b)) \in Nat /\ Cardinality(Ahead(S, less, m)) \in Nat
    BY <2>1, AheadCounts
  <2>4. n <= Cardinality(Ahead(S, less, b))
    BY <1>2, <2>1
  <2>5. QED
    BY <1>3, <2>2, <2>3, <2>4
<1>5. QED
  BY <1>4

LEMMA FewAreFirst ==
  ASSUME NEW S, NEW less, IsFiniteSet(S), Strict(S, less), NEW k \in Nat \ {0}
  PROVE  /\ IsFiniteSet({m \in S : Cardinality(Ahead(S, less, m)) < k})
         /\ Cardinality({m \in S : Cardinality(Ahead(S, less, m)) < k}) <= k
<1> DEFINE F == {m \in S : Cardinality(Ahead(S, less, m)) < k}
           place == [m \in F |-> Cardinality(Ahead(S, less, m))]
<1>1. \A m \in S : Cardinality(Ahead(S, less, m)) \in Nat
  BY AheadCounts
<1>2. \A a, b \in S : <<a, b>> \in less => Cardinality(Ahead(S, less, a)) < Cardinality(Ahead(S, less, b))
  BY AheadCounts
<1>3. place \in [F -> 0..k - 1]
  BY <1>1
<1>4. \A a, b \in F : place[a] = place[b] => a = b
  <2> TAKE a \in F, b \in F
  <2>1. a \in S /\ b \in S /\ place[a] = Cardinality(Ahead(S, less, a)) /\ place[b] = Cardinality(Ahead(S, less, b))
    OBVIOUS
  <2>2. a = b \/ <<a, b>> \in less \/ <<b, a>> \in less
    BY <2>1 DEF Strict
  <2>3. Cardinality(Ahead(S, less, a)) \in Nat /\ Cardinality(Ahead(S, less, b)) \in Nat
    BY <1>1, <2>1
  <2>4. QED
    BY <1>2, <2>1, <2>2, <2>3
<1>5. place \in Injection(F, 0..k - 1)
  BY <1>3, <1>4 DEF Injection, IsInjective
<1>6. IsFiniteSet(0..k - 1) /\ Cardinality(0..k - 1) = k
  <2>1. 0 \in Int /\ k - 1 \in Int
    OBVIOUS
  <2>2. IsFiniteSet(0..k - 1) /\ Cardinality(0..k - 1) = IF 0 > k - 1 THEN 0 ELSE k - 1 - 0 + 1
    BY <2>1, FS_Interval
  <2>3. QED
    BY <2>2
<1> HIDE DEF F, place
<1>7. IsFiniteSet(F) /\ Cardinality(F) <= Cardinality(0..k - 1)
  BY <1>5, <1>6, FS_Injection
<1>8. QED
  BY <1>6, <1>7 DEF F

\* Finitely many numbers have a greatest.
LEMMA GreatestNumber ==
  ASSUME NEW S \in SUBSET Nat, IsFiniteSet(S), S # {}
  PROVE  \E m \in S : \A n \in S : m >= n
<1> DEFINE more == {x \in S \X S : x[1] > x[2]}
<1>1. \A a, b \in S : a \in Nat /\ b \in Nat /\ (<<a, b>> \in more <=> a > b)
  OBVIOUS
<1> HIDE DEF more
<1>2. Strict(S, more)
  BY <1>1 DEF Strict
<1>3. PICK m \in S : Ahead(S, more, m) = {}
  BY <1>2, SomeoneIsFirst
<1>4. ASSUME NEW n \in S PROVE m >= n
  <2>1. ~ (<<n, m>> \in more)
    BY <1>3 DEF Ahead
  <2>2. m \in Nat /\ n \in Nat /\ ~ (n > m)
    BY <1>1, <2>1
  <2>3. QED
    BY <2>2
<1>5. QED
  BY <1>4

LEMMA ChartCounts ==
  ASSUME NEW S PROVE C!Cardinality(S) = Cardinality(S)
BY DEF C!Cardinality, Cardinality

\* The notes of a bucket in the order in which they stay.
Stays(n) == {x \in C!Bucket(n) \X C!Bucket(n) :
  C!Weight(x[1]) > C!Weight(x[2]) \/ (C!Weight(x[1]) = C!Weight(x[2]) /\ C!Earlier(x[1], x[2]))}

LEMMA BucketsOrdered ==
  ASSUME ChartInvariant, NEW n
  PROVE  /\ IsFiniteSet(C!ToSet(notes)) /\ IsFiniteSet(C!Bucket(n)) /\ Strict(C!Bucket(n), Stays(n))
         /\ C!Bucket(n) \subseteq C!ToSet(notes)
<1>1. notes \in Seq(ChartNotes) /\ Shown(C!ToSet(notes), events, cursor)
  BY DEF ChartInvariant
<1>2. IsFiniteSet(C!ToSet(notes))
  <2>1. Len(notes) \in Nat /\ DOMAIN notes = 1..Len(notes)
    BY <1>1, LenProperties
  <2>2. IsFiniteSet(DOMAIN notes)
    <3>1. 1 \in Int /\ Len(notes) \in Int
      BY <2>1
    <3>2. QED
      BY <2>1, <3>1, FS_Interval
  <2> DEFINE f == [k \in DOMAIN notes |-> notes[k]]
  <2>3. f \in Surjection(DOMAIN notes, C!ToSet(notes))
    BY DEF Surjection, C!ToSet
  <2> HIDE DEF f
  <2>4. QED
    BY <2>2, <2>3, FS_Surjection
<1>3. C!Bucket(n) \subseteq C!ToSet(notes) /\ IsFiniteSet(C!Bucket(n))
  <2>1. C!Bucket(n) \in SUBSET C!ToSet(notes)
    BY DEF C!Bucket
  <2>2. QED
    BY <1>2, <2>1, FS_Subset
<1>4. \A m \in C!Bucket(n) : m \in ChartNotes /\ C!Weight(m) \in Nat /\ m.event \in Nat /\ m.index \in Nat
  <2>1. \A m \in C!Bucket(n) : m \in ChartNotes
    BY <1>1, <1>3 DEF Shown
  <2>2. \A m \in ChartNotes : C!Weight(m) \in Nat /\ m.event \in Nat /\ m.index \in Nat
    BY DEF ChartNotes, C!Weight
  <2>3. QED
    BY <2>1, <2>2
<1>5. \A l, m \in C!Bucket(n) : l.event = m.event /\ l.index = m.index => l = m
  BY <1>1, <1>3 DEF Shown
<1>6. \A l, m \in C!Bucket(n) : <<l, m>> \in Stays(n) <=>
        C!Weight(l) > C!Weight(m) \/ (C!Weight(l) = C!Weight(m)
          /\ (l.event < m.event \/ (l.event = m.event /\ l.index < m.index)))
  BY DEF Stays, C!Earlier
<1> DEFINE B1 == C!Bucket(n)
<1> HIDE DEF B1
<1>7. \A m \in B1 : C!Weight(m) \in Nat /\ m.event \in Nat /\ m.index \in Nat
  BY <1>4 DEF B1
<1>8. \A l, m \in B1 : l.event = m.event /\ l.index = m.index => l = m
  BY <1>5 DEF B1
<1>9. \A l, m \in B1 : <<l, m>> \in Stays(n) <=>
        C!Weight(l) > C!Weight(m) \/ (C!Weight(l) = C!Weight(m)
          /\ (l.event < m.event \/ (l.event = m.event /\ l.index < m.index)))
  BY <1>6 DEF B1
<1>10. \A a \in B1 : <<a, a>> \notin Stays(n)
  BY <1>7, <1>9
<1>11. \A a, b \in B1 : a = b \/ <<a, b>> \in Stays(n) \/ <<b, a>> \in Stays(n)
  <2> TAKE a \in B1, b \in B1
  <2>1. CASE a.event = b.event /\ a.index = b.index
    BY <1>8, <2>1
  <2>2. CASE ~ (a.event = b.event /\ a.index = b.index)
    <3>1. /\ C!Weight(a) \in Nat /\ a.event \in Nat /\ a.index \in Nat
          /\ C!Weight(b) \in Nat /\ b.event \in Nat /\ b.index \in Nat
      BY <1>7
    <3>2. \/ a.event < b.event \/ (a.event = b.event /\ a.index < b.index)
          \/ b.event < a.event \/ (b.event = a.event /\ b.index < a.index)
      BY <2>2, <3>1
    <3>3. C!Weight(a) > C!Weight(b) \/ C!Weight(b) > C!Weight(a) \/ C!Weight(a) = C!Weight(b)
      BY <3>1
    <3>4. QED
      BY <1>9, <3>2, <3>3
  <2>3. QED
    BY <2>1, <2>2
<1>12. \A a, b, c \in B1 : <<a, b>> \in Stays(n) /\ <<b, c>> \in Stays(n) => <<a, c>> \in Stays(n)
  BY <1>7, <1>9
<1>13. Strict(B1, Stays(n))
  BY <1>10, <1>11, <1>12 DEF Strict
<1>14. QED
  BY <1>2, <1>3, <1>13 DEF B1

LEMMA ChartOfBucket ==
  ASSUME NEW n \in C!ToSet(notes)
  PROVE  /\ n \in C!Bucket(n) /\ C!Chart \subseteq C!ToSet(notes)
         /\ C!Bucket(n) \cap C!Chart =
              {x \in C!Bucket(n) : Cardinality(Ahead(C!Bucket(n), Stays(n), x)) < MaxNotesPerBeat}
<1> DEFINE Sooner(x) == {m \in C!Bucket(x) : C!Weight(m) > C!Weight(x) \/ (C!Weight(m) = C!Weight(x) /\ C!Earlier(m, x))}
<1>1. \A x \in C!Bucket(n) : x \in C!ToSet(notes) /\ C!Bucket(x) = C!Bucket(n)
  BY DEF C!Bucket
<1>2. \A x \in C!Bucket(n) : Sooner(x) = Ahead(C!Bucket(n), Stays(n), x)
  <2> TAKE x \in C!Bucket(n)
  <2>1. \A m \in C!Bucket(n) : <<m, x>> \in Stays(n) <=>
          C!Weight(m) > C!Weight(x) \/ (C!Weight(m) = C!Weight(x) /\ C!Earlier(m, x))
    BY DEF Stays
  <2>2. C!Bucket(x) = C!Bucket(n)
    BY <1>1
  <2>3. QED
    BY <2>1, <2>2 DEF Ahead
<1>3. C!Chart = {x \in C!ToSet(notes) : Cardinality(Sooner(x)) < MaxNotesPerBeat}
  BY ChartCounts DEF C!Chart
<1>4. n \in C!Bucket(n)
  BY DEF C!Bucket
<1> HIDE DEF Sooner
<1>5. \A x \in C!Bucket(n) : x \in C!Chart <=> Cardinality(Ahead(C!Bucket(n), Stays(n), x)) < MaxNotesPerBeat
  BY <1>1, <1>2, <1>3
<1>6. C!Bucket(n) \cap C!Chart =
        {x \in C!Bucket(n) : Cardinality(Ahead(C!Bucket(n), Stays(n), x)) < MaxNotesPerBeat}
  BY <1>5
<1>7. C!Chart \subseteq C!ToSet(notes)
  BY <1>3
<1>8. QED
  BY <1>4, <1>6, <1>7

\* The heaviest note of a bucket stays, and it is of the only event that has notes there.
LEMMA ChartHeard ==
  ASSUME ChartInvariant PROVE C!EventsAreHeard
<1>1. Shown(C!ToSet(notes), events, cursor)
  BY DEF ChartInvariant
<1>2. ASSUME NEW e \in 1..events PROVE \E n \in C!Chart : n.event = e
  <2>1. PICK n \in C!ToSet(notes) : n.event = e
    BY <1>1 DEF Shown
  <2>2. /\ IsFiniteSet(C!Bucket(n)) /\ Strict(C!Bucket(n), Stays(n)) /\ C!Bucket(n) \subseteq C!ToSet(notes)
    BY BucketsOrdered
  <2>3. n \in C!Bucket(n) /\ C!Bucket(n) \cap C!Chart =
              {x \in C!Bucket(n) : Cardinality(Ahead(C!Bucket(n), Stays(n), x)) < MaxNotesPerBeat}
    BY <2>1, ChartOfBucket
  <2>4. PICK m \in C!Bucket(n) : Ahead(C!Bucket(n), Stays(n), m) = {}
    <3>1. C!Bucket(n) # {}
      BY <2>3
    <3>2. QED
      BY <2>2, <3>1, SomeoneIsFirst
  <2>5. Cardinality(Ahead(C!Bucket(n), Stays(n), m)) = 0 /\ 0 < MaxNotesPerBeat
    BY <2>4, FS_EmptySet, BeatsHoldNotes
  <2>6. m \in C!Chart /\ m \in C!ToSet(notes)
    BY <2>2, <2>3, <2>5
  <2>7. m.beat \div 100 = n.beat \div 100
    BY DEF C!Bucket
  <2>8. m.event = n.event
    <3>1. m \in ChartNotes /\ n \in ChartNotes
      BY <1>1, <2>1, <2>6 DEF Shown
    <3>2. m.event \in Nat /\ n.event \in Nat /\ m.beat \div 100 \in Int /\ n.beat \div 100 \in Int
      BY <3>1 DEF ChartNotes
    <3>3. ~ (m.event < n.event) /\ ~ (n.event < m.event)
      BY <1>1, <2>1, <2>6, <2>7, <3>2 DEF Shown
    <3>4. QED
      BY <3>2, <3>3
  <2>9. QED
    BY <2>1, <2>6, <2>8
<1>3. ASSUME NEW m \in C!Chart, NEW n \in C!Chart, m.event < n.event PROVE m.beat < n.beat
  <2>1. C!Chart \subseteq C!ToSet(notes)
    BY DEF C!Chart
  <2>2. m \in ChartNotes /\ n \in ChartNotes /\ m.beat \div 100 < n.beat \div 100
    BY <1>1, <1>3, <2>1 DEF Shown
  <2>3. m.beat \in Nat /\ n.beat \in Nat
    BY <2>2 DEF ChartNotes
  <2>4. QED
    BY <2>2, <2>3
<1>4. QED
  BY <1>2, <1>3 DEF C!EventsAreHeard

LEMMA ChartEnds ==
  ASSUME ChartInvariant, NEW n \in C!Chart
  PROVE  50 * C!CueStep(n) < C!TotalBeats
<1> DEFINE S == {m.beat + m.length : m \in C!Chart}
<1>1. C!Chart \subseteq C!ToSet(notes) /\ IsFiniteSet(C!ToSet(notes))
  BY BucketsOrdered DEF C!Chart
<1>2. IsFiniteSet(C!Chart)
  BY <1>1, FS_Subset
<1>3. \A m \in C!Chart : m.beat \in Nat /\ m.length \in Nat /\ m.length >= 50
  BY <1>1 DEF ChartInvariant, Shown, ChartNotes
<1>4. S \in SUBSET Nat /\ S # {} /\ n.beat + n.length \in S
  BY <1>3
<1>5. IsFiniteSet(S)
  <2> DEFINE f == [m \in C!Chart |-> m.beat + m.length]
  <2>1. f \in Surjection(C!Chart, S)
    BY DEF Surjection
  <2> HIDE DEF f, S
  <2>2. QED
    BY <1>2, <2>1, FS_Surjection
<1> HIDE DEF S
<1>6. \E m \in S : \A k \in S : m >= k
  BY <1>4, <1>5, GreatestNumber
<1>7. C!Max(S) \in S /\ \A k \in S : C!Max(S) >= k
  BY <1>6 DEF C!Max
<1>8. C!TotalBeats = C!Max(S)
  BY DEF C!TotalBeats, S
<1>9. C!Max(S) >= n.beat + n.length /\ C!Max(S) \in Nat
  BY <1>4, <1>7
<1>10. 50 * C!CueStep(n) <= n.beat + 25
  <2>1. n.beat \in Nat
    BY <1>3
  <2>2. QED
    BY <2>1 DEF C!CueStep
<1>11. C!CueStep(n) \in Int
  <2>1. n.beat \in Nat
    BY <1>3
  <2>2. QED
    BY <2>1 DEF C!CueStep
<1>12. n.beat \in Nat /\ n.length \in Nat /\ n.length >= 50
  BY <1>3
<1>13. QED
  BY <1>8, <1>9, <1>10, <1>11, <1>12

LEMMA ChartSuffices ==
  ASSUME ChartInvariant PROVE C!TypeOK /\ C!ChartPlayable /\ C!EventsAreHeard
<1>1. /\ cursor \in Nat /\ events \in 0..MaxEvents /\ Shown(C!ToSet(notes), events, cursor)
  BY DEF ChartInvariant
<1>2. C!TypeOK
  BY <1>1 DEF C!TypeOK, Shown, ChartNotes
<1>3. ASSUME NEW n \in C!Chart
      PROVE  /\ C!Cardinality(C!Bucket(n) \cap C!Chart) <= MaxNotesPerBeat
             /\ n.lane \in 1..LaneCount /\ n.length > 40 /\ n.beat % 25 = 0
             /\ 50 * C!CueStep(n) < C!TotalBeats
  <2>1. n \in C!ToSet(notes) /\ n \in ChartNotes
    BY <1>1 DEF C!Chart, Shown
  <2>2. n.lane \in 1..LaneCount /\ n.length > 40 /\ n.beat % 25 = 0
    BY <2>1 DEF ChartNotes
  <2>3. IsFiniteSet(C!Bucket(n)) /\ Strict(C!Bucket(n), Stays(n))
    BY BucketsOrdered
  <2>4. Cardinality({x \in C!Bucket(n) : Cardinality(Ahead(C!Bucket(n), Stays(n), x)) < MaxNotesPerBeat})
          <= MaxNotesPerBeat
    BY <2>3, BeatsHoldNotes, FewAreFirst
  <2>5. Cardinality(C!Bucket(n) \cap C!Chart) <= MaxNotesPerBeat
    BY <2>1, <2>4, ChartOfBucket
  <2>6. C!Cardinality(C!Bucket(n) \cap C!Chart) = Cardinality(C!Bucket(n) \cap C!Chart)
    BY ChartCounts
  <2>7. 50 * C!CueStep(n) < C!TotalBeats
    BY ChartEnds
  <2>8. QED
    BY <2>2, <2>5, <2>6, <2>7
<1>4. C!ChartPlayable
  BY <1>3 DEF C!ChartPlayable
<1>5. C!EventsAreHeard
  BY ChartHeard
<1>6. QED
  BY <1>2, <1>4, <1>5

(* Pitches (musicTheory.js). *)

ModeNames == {"ionian", "dorian", "phrygian", "lydian", "mixolydian", "aeolian", "pentatonic"}
ColorNames == {"triad", "add9", "sus2", "sus4", "maj7", "flat7"}

LEMMA HarmoniesFit ==
  ASSUME NEW h \in Harmonies
  PROVE  h.mode \in ModeNames /\ h.color \in ColorNames /\ h.tonic \in 0..11
<1>1. PICK class \in DOMAIN Mode, resolution \in {0, 71, 72, 100}, tension \in {0, 71, 72, 100} :
        h \in [mode : {Mode[class]}, color : ColorsOf(class, resolution, tension), tonic : 0..11]
  <2> DEFINE H(c, r, t) == [mode : {Mode[c]}, color : ColorsOf(c, r, t), tonic : 0..11]
             Rs == {0, 71, 72, 100}
  <2>1. h \in UNION {H(c, r, t) : c \in DOMAIN Mode, r \in Rs, t \in Rs}
    BY DEF Harmonies
  <2> HIDE DEF H, Rs
  <2>2. \E c \in DOMAIN Mode, r \in Rs, t \in Rs : h \in H(c, r, t)
    BY <2>1
  <2>3. QED
    BY <2>2 DEF H, Rs
<1>2. class \in {"feat", "fix", "refactor", "docs", "test", "chore", "merge", "revert", "review"}
  BY DEF Mode
<1>3. Mode[class] \in ModeNames
  BY <1>2 DEF Mode, ModeNames
<1>4. ColorsOf(class, resolution, tension) \subseteq ColorNames
  BY DEF ColorsOf, ColorNames
<1>5. QED
  BY <1>1, <1>3, <1>4

\* The tones of the scale at a distance, and the distance of the nearest.
At(n, d, mode1) == {x \in {n - d, n + d} : x % 12 \in C!Modes[mode1]}
Away(n, mode1) == C!Min({x \in 0..6 : At(n, x, mode1) # {}})

LEMMA SnapIs ==
  ASSUME NEW n, NEW mode1 PROVE C!Snap(n, mode1) = C!Min(At(n, Away(n, mode1), mode1))
BY DEF C!Snap, At, Away

LEMMA LowerOfTwo ==
  ASSUME NEW n \in Int, NEW d \in Nat, NEW mode1, At(n, d, mode1) # {}
  PROVE  /\ C!Min(At(n, d, mode1)) \in At(n, d, mode1)
         /\ \A x \in At(n, d, mode1) : C!Min(At(n, d, mode1)) <= x
<1>1. \E m \in At(n, d, mode1) : \A x \in At(n, d, mode1) : m <= x
  <2>1. At(n, d, mode1) \subseteq {n - d, n + d}
    BY DEF At
  <2>2. n - d \in Int /\ n + d \in Int /\ n - d <= n + d
    OBVIOUS
  <2>3. CASE n - d \in At(n, d, mode1)
    BY <2>1, <2>2, <2>3
  <2>4. CASE n - d \notin At(n, d, mode1)
    BY <2>1, <2>2, <2>4
  <2>5. QED
    BY <2>3, <2>4
<1>2. QED
  BY <1>1 DEF C!Min

LEMMA RootIsNear ==
  ASSUME NEW n \in Int, NEW mode1 \in ModeNames
  PROVE  /\ Away(n, mode1) \in 0..6 /\ At(n, Away(n, mode1), mode1) # {}
         /\ \A x \in 0..6 : At(n, x, mode1) # {} => Away(n, mode1) <= x
<1> DEFINE S == {x \in 0..6 : At(n, x, mode1) # {}}
<1>1. 0 \in C!Modes[mode1]
  BY DEF C!Modes, ModeNames
<1>2. S # {}
  <2>1. n % 12 \in 0..11
    OBVIOUS
  <2>2. CASE n % 12 <= 6
    <3> DEFINE d == n % 12
    <3>1. (n - d) % 12 = 0 /\ d \in 0..6
      BY <2>1, <2>2
    <3> HIDE DEF d
    <3>2. n - d \in At(n, d, mode1)
      BY <1>1, <3>1 DEF At
    <3>3. QED
      BY <3>1, <3>2
  <2>3. CASE ~ (n % 12 <= 6)
    <3> DEFINE d == 12 - (n % 12)
    <3>1. (n + d) % 12 = 0 /\ d \in 0..6
      BY <2>1, <2>3
    <3> HIDE DEF d
    <3>2. n + d \in At(n, d, mode1)
      BY <1>1, <3>1 DEF At
    <3>3. QED
      BY <3>1, <3>2
  <2>4. QED
    BY <2>2, <2>3
<1>3. \E m \in S : \A x \in S : m <= x
  <2>1. S \in SUBSET Nat
    OBVIOUS
  <2> HIDE DEF S
  <2>2. QED
    BY <1>2, <2>1, FirstNumber
<1>4. Away(n, mode1) \in S /\ \A x \in S : Away(n, mode1) <= x
  BY <1>3 DEF Away, C!Min
<1>5. QED
  BY <1>4

LEMMA SnapInKey ==
  ASSUME NEW n \in Int, NEW mode1 \in ModeNames
  PROVE  C!Snap(n, mode1) \in Int /\ C!Snap(n, mode1) % 12 \in C!Modes[mode1]
<1>1. Away(n, mode1) \in Nat /\ At(n, Away(n, mode1), mode1) # {}
  BY RootIsNear
<1>2. C!Snap(n, mode1) \in At(n, Away(n, mode1), mode1)
  BY <1>1, SnapIs, LowerOfTwo
<1>3. QED
  BY <1>1, <1>2 DEF At

LEMMA SnapNear ==
  ASSUME NEW n \in Int, NEW mode1 \in ModeNames
  PROVE  /\ n % 12 \in C!Modes[mode1] => C!Snap(n, mode1) = n
         /\ (n - 1) % 12 \in C!Modes[mode1] \/ (n + 1) % 12 \in C!Modes[mode1]
              => C!Snap(n, mode1) \in {n - 1, n, n + 1}
<1>1. /\ Away(n, mode1) \in 0..6 /\ At(n, Away(n, mode1), mode1) # {}
      /\ \A x \in 0..6 : At(n, x, mode1) # {} => Away(n, mode1) <= x
  BY RootIsNear
<1>2. C!Snap(n, mode1) \in At(n, Away(n, mode1), mode1)
  BY <1>1, SnapIs, LowerOfTwo
<1>3. C!Snap(n, mode1) \in {n - Away(n, mode1), n + Away(n, mode1)}
  BY <1>2 DEF At
<1>4. ASSUME n % 12 \in C!Modes[mode1] PROVE C!Snap(n, mode1) = n
  <2>1. n - 0 \in At(n, 0, mode1)
    BY <1>4 DEF At
  <2>2. Away(n, mode1) <= 0
    BY <1>1, <2>1
  <2>3. QED
    BY <1>1, <1>3, <2>2
<1>5. ASSUME (n - 1) % 12 \in C!Modes[mode1] \/ (n + 1) % 12 \in C!Modes[mode1]
      PROVE  C!Snap(n, mode1) \in {n - 1, n, n + 1}
  <2>1. n - 1 \in At(n, 1, mode1) \/ n + 1 \in At(n, 1, mode1)
    BY <1>5 DEF At
  <2>2. Away(n, mode1) <= 1
    BY <1>1, <2>1
  <2>3. QED
    BY <1>1, <1>3, <2>2
<1>6. QED
  BY <1>4, <1>5

LEMMA TonesSnap ==
  ASSUME NEW mode1 \in ModeNames
  PROVE  /\ C!Snap(0, mode1) = 0 /\ C!Snap(7, mode1) = 7
         /\ \A t \in {2, 4, 5, 10, 11, 14} : C!Snap(t, mode1) \in {t - 1, t, t + 1}
<1> DEFINE M == C!Modes[mode1]
<1>1. 0 \in M /\ 7 \in M
  BY DEF C!Modes, ModeNames
<1>2. 0 % 12 = 0 /\ 7 % 12 = 7
  OBVIOUS
<1>3. C!Snap(0, mode1) = 0 /\ C!Snap(7, mode1) = 7
  <2>1. 0 \in Int /\ 7 \in Int
    OBVIOUS
  <2>2. 0 % 12 \in C!Modes[mode1] /\ 7 % 12 \in C!Modes[mode1]
    BY <1>1, <1>2
  <2>3. QED
    BY <2>1, <2>2, SnapNear
<1>4. ASSUME NEW t \in {2, 4, 5, 10, 11, 14} PROVE C!Snap(t, mode1) \in {t - 1, t, t + 1}
  <2>1. t \in Int /\ (t % 12 \in M \/ (t - 1) % 12 \in M \/ (t + 1) % 12 \in M)
    <3>1. (1 \in M \/ 2 \in M \/ 3 \in M) /\ (3 \in M \/ 4 \in M) /\ (4 \in M \/ 5 \in M) /\ (9 \in M \/ 10 \in M)
          /\ (10 \in M \/ 11 \in M)
      BY DEF C!Modes, ModeNames
    <3>2. /\ 1 % 12 = 1 /\ 2 % 12 = 2 /\ 3 % 12 = 3 /\ 4 % 12 = 4 /\ 5 % 12 = 5 /\ 9 % 12 = 9 /\ 10 % 12 = 10
          /\ 11 % 12 = 11 /\ 13 % 12 = 1 /\ 14 % 12 = 2 /\ 15 % 12 = 3
      OBVIOUS
    <3> HIDE DEF M
    <3>3. CASE t = 2
      BY <3>1, <3>2, <3>3
    <3>4. CASE t = 4
      BY <3>1, <3>2, <3>4
    <3>5. CASE t = 5
      BY <3>1, <3>2, <3>5
    <3>6. CASE t = 10
      BY <3>1, <3>2, <3>6
    <3>7. CASE t = 11
      BY <3>1, <3>2, <3>7
    <3>8. CASE t = 14
      BY <3>1, <3>2, <3>8
    <3>9. QED
      BY <3>3, <3>4, <3>5, <3>6, <3>7, <3>8
  <2>2. QED
    BY <2>1, SnapNear
<1>5. QED
  BY <1>3, <1>4

\* Octaves stay in the key.
LEMMA OctavesStay ==
  ASSUME NEW n \in Int, NEW k \in Int PROVE (n + 12 * k) % 12 = n % 12
OBVIOUS

LEMMA PitchesFit ==
  ASSUME NEW h, h.mode \in ModeNames, h.tonic \in 0..11, NEW pitch \in C!Pitches(h)
  PROVE  (pitch - h.tonic) % 12 \in C!Modes[h.mode]
<1>1. PICK base \in {36, 48, 60}, motif \in Motifs, n \in 1..4, octave \in {-12, 0, 12} :
        pitch = base + h.tonic + C!Snap(motif[n], h.mode) + octave
  BY DEF C!Pitches
<1>2. motif[n] \in Int
  BY DEF Motifs
<1> DEFINE x == C!Snap(motif[n], h.mode)
<1>3. x \in Int /\ x % 12 \in C!Modes[h.mode]
  BY <1>2, SnapInKey
<1>4. pitch = base + h.tonic + x + octave
  BY <1>1
<1> HIDE DEF x
<1>5. PICK k \in Int : base + octave = 12 * k
  <2>1. base + octave \in {12 * 2, 12 * 3, 12 * 4, 12 * 5, 12 * 6}
    OBVIOUS
  <2>2. QED
    BY <2>1
<1>6. pitch - h.tonic = x + 12 * k
  BY <1>3, <1>4, <1>5
<1>7. QED
  BY <1>3, <1>6, OctavesStay

\* A chord's tones are in the key, and in order.
LEMMA ChordRises ==
  ASSUME NEW color \in ColorNames, NEW mode1 \in ModeNames
  PROVE  /\ C!Chord(color, mode1) \in Seq(Int) /\ Len(C!Chord(color, mode1)) \in {3, 4}
         /\ \A k \in 1..Len(C!Chord(color, mode1)) :
              C!Chord(color, mode1)[k] % 12 \in C!Modes[mode1] /\ C!Chord(color, mode1)[k] >= 0
         /\ \A j, k \in 1..Len(C!Chord(color, mode1)) : j < k => C!Chord(color, mode1)[j] < C!Chord(color, mode1)[k]
<1> DEFINE t == C!Colors[color]
           s == C!Chord(color, mode1)
           L1 == Len(t)
           snap(n) == C!Snap(n, mode1)
<1>1. /\ DOMAIN t = 1..L1 /\ L1 \in {3, 4} /\ \A k \in 1..L1 : t[k] \in Int
      /\ t[1] = 0 /\ \/ L1 = 3 /\ t[2] \in {2, 4, 5} /\ t[3] = 7
                     \/ L1 = 4 /\ t[2] = 4 /\ t[3] = 7 /\ t[4] \in {10, 11, 14}
  <2>1. CASE color = "triad"
    BY <2>1 DEF C!Colors
  <2>2. CASE color = "add9"
    BY <2>2 DEF C!Colors
  <2>3. CASE color = "sus2"
    BY <2>3 DEF C!Colors
  <2>4. CASE color = "sus4"
    BY <2>4 DEF C!Colors
  <2>5. CASE color = "maj7"
    BY <2>5 DEF C!Colors
  <2>6. CASE color = "flat7"
    BY <2>6 DEF C!Colors
  <2>7. QED
    BY <2>1, <2>2, <2>3, <2>4, <2>5, <2>6 DEF ColorNames
<1>2. s = [k \in 1..L1 |-> snap(t[k])]
  BY <1>1 DEF C!Chord
<1>3. \A k \in 1..L1 : snap(t[k]) \in Int /\ snap(t[k]) % 12 \in C!Modes[mode1]
  BY <1>1, SnapInKey
<1>4. snap(0) = 0 /\ snap(7) = 7 /\ \A n \in {2, 4, 5, 10, 11, 14} : snap(n) \in {n - 1, n, n + 1}
  BY TonesSnap
<1> HIDE DEF t, s, snap, L1
<1>5. L1 \in Nat /\ s \in Seq(Int) /\ Len(s) = L1
  <2>1. L1 \in Nat
    BY <1>1
  <2>2. s \in [1..L1 -> Int]
    BY <1>2, <1>3
  <2>3. QED
    BY <2>1, <2>2
<1>6. \A k \in 1..L1 : s[k] = snap(t[k])
  BY <1>2
<1>7. /\ s[1] = 0 /\ s[2] \in 1..6 /\ s[3] = 7 /\ (L1 = 4 => s[4] \in 9..15)
  <2>1. 1 \in 1..L1 /\ 2 \in 1..L1 /\ 3 \in 1..L1 /\ (L1 = 4 => 4 \in 1..L1)
    BY <1>1
  <2>2. s[1] = snap(0) /\ s[3] = snap(7)
    BY <1>1, <1>6, <2>1
  <2>3. s[2] \in 1..6
    <3>1. t[2] \in {2, 4, 5} /\ s[2] = snap(t[2])
      BY <1>1, <1>6, <2>1
    <3>2. snap(2) \in 1..3 /\ snap(4) \in 3..5 /\ snap(5) \in 4..6
      BY <1>4
    <3>3. QED
      BY <3>1, <3>2
  <2>4. ASSUME L1 = 4 PROVE s[4] \in 9..15
    <3>1. t[4] \in {10, 11, 14} /\ s[4] = snap(t[4])
      BY <1>1, <1>6, <2>1, <2>4
    <3>2. snap(10) \in 9..11 /\ snap(11) \in 10..12 /\ snap(14) \in 13..15
      BY <1>4
    <3>3. QED
      BY <3>1, <3>2
  <2>5. QED
    BY <1>4, <2>2, <2>3, <2>4
<1>8. \A k \in 1..L1 : s[k] % 12 \in C!Modes[mode1]
  BY <1>3, <1>6
<1>9. \A k \in 1..L1 : k \in {1, 2, 3} \/ (k = 4 /\ L1 = 4)
  BY <1>1
<1>10. \A k \in 1..L1 : s[k] >= 0
  BY <1>7, <1>9
<1>11. \A j, k \in 1..L1 : j < k => s[j] < s[k]
  BY <1>7, <1>9
<1>12. QED
  BY <1>1, <1>5, <1>8, <1>10, <1>11 DEF s

LEMMA VoicesFit ==
  ASSUME NEW color \in ColorNames, NEW mode1 \in ModeNames, NEW tonic \in 0..11, NEW v,
         v = C!Voices(tonic, color, mode1)
  PROVE  /\ \A k \in DOMAIN v : (v[k] - tonic) % 12 \in C!Modes[mode1]
         /\ \A j, k \in DOMAIN v : j < k => v[j] < v[k]
<1> DEFINE s == C!Chord(color, mode1)
           w == [k \in DOMAIN s |-> 48 + tonic + s[k]]
           n == Len(s)
<1>1. /\ s \in Seq(Int) /\ n \in {3, 4} /\ \A k \in 1..n : s[k] % 12 \in C!Modes[mode1] /\ s[k] >= 0
      /\ \A j, k \in 1..n : j < k => s[j] < s[k]
  BY ChordRises
<1>2. v = <<36 + tonic>> \o w
  BY DEF C!Voices
<1> HIDE DEF s
<1>3. DOMAIN s = 1..n /\ n \in Nat /\ \A k \in 1..n : s[k] \in Int
  BY <1>1, LenProperties, ElementOfSeq
<1> HIDE DEF n
<1>4. /\ w \in Seq(Int) /\ Len(w) = n /\ \A k \in 1..n : w[k] = 48 + tonic + s[k]
  <2>1. w \in [1..n -> Int]
    BY <1>3
  <2>2. \A k \in 1..n : w[k] = 48 + tonic + s[k]
    BY <1>3
  <2> HIDE DEF w
  <2>3. QED
    BY <1>3, <2>1, <2>2
<1> HIDE DEF w
<1>5. <<36 + tonic>> \in Seq(Int) /\ Len(<<36 + tonic>>) = 1 /\ <<36 + tonic>>[1] = 36 + tonic
  <2>1. 36 + tonic \in Int
    OBVIOUS
  <2>2. QED
    BY <2>1
<1> DEFINE first == <<36 + tonic>>
<1>6. first \in Seq(Int) /\ Len(first) = 1 /\ first[1] = 36 + tonic /\ v = first \o w
  BY <1>2, <1>5
<1> HIDE DEF first
<1>7. /\ v \in Seq(Int) /\ Len(v) = 1 + n
      /\ \A k \in 1..1 + n : v[k] = IF k <= 1 THEN first[k] ELSE w[k - 1]
  <2>1. first \in Seq(Int) /\ w \in Seq(Int)
    BY <1>4, <1>6
  <2>2. /\ first \o w \in Seq(Int) /\ Len(first \o w) = Len(first) + Len(w)
        /\ \A k \in 1..Len(first) + Len(w) :
             (first \o w)[k] = IF k <= Len(first) THEN first[k] ELSE w[k - Len(first)]
    BY <2>1, ConcatProperties
  <2>3. QED
    BY <1>4, <1>6, <2>2
<1>8. DOMAIN v = 1..n + 1
  BY <1>3, <1>7, LenProperties
<1>9. v[1] = 36 + tonic /\ \A k \in 1..n : v[k + 1] = 48 + tonic + s[k]
  <2>1. 1 \in 1..1 + n /\ \A k \in 1..n : k + 1 \in 1..1 + n /\ ~ (k + 1 <= 1) /\ (k + 1) - 1 = k
    BY <1>3
  <2>2. QED
    BY <1>4, <1>6, <1>7, <2>1
<1>10. \A k \in 1..n + 1 : k = 1 \/ (k - 1 \in 1..n /\ (k - 1) + 1 = k)
  BY <1>3
<1>11. ASSUME NEW k \in DOMAIN v PROVE (v[k] - tonic) % 12 \in C!Modes[mode1]
  <2>1. CASE k = 1
    <3>1. v[k] - tonic = 36 /\ 36 % 12 = 0
      BY <1>9, <2>1
    <3>2. 0 \in C!Modes[mode1]
      BY DEF C!Modes, ModeNames
    <3>3. QED
      BY <3>1, <3>2
  <2>2. CASE k # 1
    <3> DEFINE i == k - 1
    <3>1. i \in 1..n /\ i + 1 = k
      BY <1>8, <1>10, <2>2
    <3> HIDE DEF i
    <3>2. v[k] = 48 + tonic + s[i] /\ s[i] \in Int
      BY <1>3, <1>9, <3>1
    <3>3. v[k] - tonic = s[i] + 12 * 4
      BY <3>2
    <3>4. (s[i] + 12 * 4) % 12 = s[i] % 12
      BY <3>2, OctavesStay
    <3>5. QED
      BY <1>1, <3>1, <3>3, <3>4 DEF n
  <2>3. QED
    BY <2>1, <2>2
<1>12. ASSUME NEW j \in DOMAIN v, NEW k \in DOMAIN v, j < k PROVE v[j] < v[k]
  <2>1. j \in Int /\ k \in Int /\ j >= 1 /\ k # 1
    BY <1>3, <1>8, <1>12
  <2>2. k - 1 \in 1..n /\ v[k] = 48 + tonic + s[k - 1] /\ s[k - 1] \in Int /\ s[k - 1] >= 0
    <3>1. k - 1 \in 1..n /\ (k - 1) + 1 = k
      BY <1>8, <1>10, <2>1
    <3>2. v[(k - 1) + 1] = 48 + tonic + s[k - 1]
      BY <1>9, <3>1
    <3>3. QED
      BY <1>1, <1>3, <3>1, <3>2 DEF n
  <2>3. CASE j = 1
    BY <1>9, <2>2, <2>3
  <2>4. CASE j # 1
    <3>1. j - 1 \in 1..n /\ (j - 1) + 1 = j
      BY <1>8, <1>10, <2>4
    <3>2. v[(j - 1) + 1] = 48 + tonic + s[j - 1] /\ s[j - 1] \in Int
      BY <1>3, <1>9, <3>1
    <3>3. s[j - 1] < s[k - 1]
      <4>1. j - 1 < k - 1
        BY <1>12, <2>1
      <4>2. QED
        BY <1>1, <2>2, <3>1, <4>1 DEF n
    <3>4. QED
      BY <2>2, <3>1, <3>2, <3>3
  <2>5. QED
    BY <2>3, <2>4
<1>13. QED
  BY <1>11, <1>12

\* All pitches and voices of every harmony are of its key's mode, and the voices of a chord rise
\* (harmonyEngine.js).
THEOREM ChordsAlwaysFit == C!ChordsFit
<1>1. ASSUME NEW h \in Harmonies, NEW v, v = C!Voices(h.tonic, h.color, h.mode)
      PROVE  /\ \A pitch \in C!Pitches(h) : (pitch - h.tonic) % 12 \in C!Modes[h.mode]
             /\ \A k \in DOMAIN v : (v[k] - h.tonic) % 12 \in C!Modes[h.mode]
             /\ \A j, k \in DOMAIN v : j < k => v[j] < v[k]
  <2>1. h.mode \in ModeNames /\ h.color \in ColorNames /\ h.tonic \in 0..11
    BY HarmoniesFit
  <2>2. \A pitch \in C!Pitches(h) : (pitch - h.tonic) % 12 \in C!Modes[h.mode]
    BY <2>1, PitchesFit
  <2>3. /\ \A k \in DOMAIN v : (v[k] - h.tonic) % 12 \in C!Modes[h.mode]
        /\ \A j, k \in DOMAIN v : j < k => v[j] < v[k]
    BY <1>1, <2>1, VoicesFit
  <2>4. QED
    BY <2>2, <2>3
<1>2. QED
  BY <1>1 DEF C!ChordsFit

-----------------------------------------------------------------------------
(* The places of a sequence that are picked from it (Ranks). *)

LEMMA SameSize ==
  ASSUME NEW S, NEW U, IsFiniteSet(S), NEW g, \A x \in S : g[x] \in U,
         \A x, y \in S : g[x] = g[y] => x = y, \A y \in U : \E x \in S : g[x] = y
  PROVE  IsFiniteSet(U) /\ Cardinality(U) = Cardinality(S)
<1> DEFINE f == [x \in S |-> g[x]]
<1>1. f \in Bijection(S, U)
  BY DEF Bijection, Injection, Surjection, IsInjective
<1> HIDE DEF f
<1>2. QED
  BY <1>1, FS_Bijection DEF ExistsBijection

LEMMA NoGreaterSize ==
  ASSUME NEW S, NEW U, IsFiniteSet(U), NEW g, \A x \in S : g[x] \in U,
         \A x, y \in S : g[x] = g[y] => x = y
  PROVE  IsFiniteSet(S) /\ Cardinality(S) <= Cardinality(U)
<1> DEFINE f == [x \in S |-> g[x]]
<1>1. f \in Injection(S, U)
  BY DEF Injection, IsInjective
<1> HIDE DEF f
<1>2. QED
  BY <1>1, FS_Injection

LEMMA UpToIsFinite ==
  ASSUME NEW n \in Nat PROVE IsFiniteSet(1..n) /\ Cardinality(1..n) = n
<1>1. 1 \in Int /\ n \in Int
  OBVIOUS
<1>2. IsFiniteSet(1..n) /\ Cardinality(1..n) = IF 1 > n THEN 0 ELSE n - 1 + 1
  BY <1>1, FS_Interval
<1>3. QED
  BY <1>2

\* Ranks count the members in their order, and every number has the member of its rank.
Ranked(S) ==
  /\ Cardinality(S) \in Nat /\ \A i \in S : Rank(S, i) \in 1..Cardinality(S)
  /\ \A i, j \in S : i < j => Rank(S, i) < Rank(S, j)
  /\ \A i, j \in S : Rank(S, i) = Rank(S, j) => i = j
  /\ \A k \in 1..Cardinality(S) : Nth(S, k) \in S /\ Rank(S, Nth(S, k)) = k

LEMMA PlacesRanked ==
  ASSUME NEW S \in SUBSET Nat, IsFiniteSet(S) PROVE Ranked(S)
<1> DEFINE n == Cardinality(S)
           upto(i) == {j \in S : j <= i}
<1>1. n \in Nat
  BY FS_CardinalityType
<1>2. ASSUME NEW i \in S PROVE IsFiniteSet(upto(i)) /\ Rank(S, i) = Cardinality(upto(i)) /\ Rank(S, i) \in 1..n
  <2>1. upto(i) \in SUBSET S /\ i \in upto(i)
    OBVIOUS
  <2>2. Rank(S, i) = Cardinality(upto(i))
    BY DEF Rank
  <2> HIDE DEF upto
  <2>3. IsFiniteSet(upto(i)) /\ Cardinality(upto(i)) <= n
    BY <2>1, FS_Subset
  <2>4. Cardinality(upto(i)) \in Nat /\ Cardinality(upto(i)) # 0
    BY <2>1, <2>3, FS_CardinalityType, FS_EmptySet
  <2> HIDE DEF n
  <2>5. QED
    BY <1>1, <2>2, <2>3, <2>4
<1>3. ASSUME NEW i \in S, NEW j \in S, i < j PROVE Rank(S, i) < Rank(S, j)
  <2>a. i \in Nat /\ j \in Nat /\ \A x \in S : x \in Nat
    OBVIOUS
  <2>b. j <= j /\ ~(j <= i) /\ \A x \in Nat : x <= i => x <= j
    BY <1>3, <2>a
  <2>1. upto(i) \in SUBSET upto(j) /\ j \in upto(j) /\ j \notin upto(i)
    BY <2>a, <2>b
  <2> HIDE DEF upto, n
  <2>2. Cardinality(upto(i)) <= Cardinality(upto(j))
        /\ (Cardinality(upto(j)) = Cardinality(upto(i)) => upto(j) = upto(i))
    BY <1>2, <2>1, FS_Subset
  <2>3. Rank(S, i) \in Int /\ Rank(S, j) \in Int
    BY <1>1, <1>2
  <2>4. QED
    BY <1>2, <2>1, <2>2, <2>3
<1>4. \A i, j \in S : Rank(S, i) = Rank(S, j) => i = j
  <2> TAKE i \in S, j \in S
  <2> HIDE DEF n, upto
  <2>a. Rank(S, i) \in 1..n /\ Rank(S, j) \in 1..n
    BY <1>2
  <2>b. i \in Int /\ j \in Int
    OBVIOUS
  <2>1. Rank(S, i) \in Int /\ Rank(S, j) \in Int /\ i \in Int /\ j \in Int
    BY <1>1, <2>a, <2>b
  <2>2. (i < j => Rank(S, i) < Rank(S, j)) /\ (j < i => Rank(S, j) < Rank(S, i))
    BY <1>3
  <2>3. QED
    BY <2>1, <2>2
<1>5. \A k \in 1..n : \E i \in S : Rank(S, i) = k
  <2> DEFINE f == [i \in S |-> Rank(S, i)]
  <2>1. f \in Injection(S, 1..n)
    BY <1>2, <1>4 DEF Injection, IsInjective
  <2>2. IsFiniteSet(1..n) /\ Cardinality(1..n) = n
    BY <1>1, UpToIsFinite
  <2>3. f \in Surjection(S, 1..n)
    <3> HIDE DEF f
    <3>1. QED
      BY <2>1, <2>2, FS_Injection
  <2>4. QED
    BY <2>3 DEF Surjection
<1>6. \A k \in 1..n : Nth(S, k) \in S /\ Rank(S, Nth(S, k)) = k
  BY <1>5 DEF Nth
<1>7. \A i \in S : Rank(S, i) \in 1..n
  BY <1>2
<1>8. QED
  BY <1>1, <1>3, <1>4, <1>6, <1>7 DEF Ranked

\* Members of equal ranks in two sets, one of which is the other one moved.
Moves(g, S, U) ==
  /\ \A i \in S : g[i] \in U /\ \A j \in S : i < j => g[i] < g[j]
  /\ \A u \in U : \E i \in S : g[i] = u

LEMMA RanksMove ==
  ASSUME NEW S \in SUBSET Nat, IsFiniteSet(S), NEW U \in SUBSET Nat, NEW g, Moves(g, S, U)
  PROVE  /\ IsFiniteSet(U) /\ Cardinality(U) = Cardinality(S)
         /\ \A i \in S : Rank(U, g[i]) = Rank(S, i)
         /\ \A k \in 1..Cardinality(S) : Nth(U, k) = g[Nth(S, k)]
<1>0. \A i, j \in S : (g[i] = g[j] => i = j) /\ (g[i] <= g[j] <=> i <= j)
  <2> TAKE i \in S, j \in S
  <2>1. i \in Nat /\ j \in Nat /\ g[i] \in Nat /\ g[j] \in Nat
    BY DEF Moves
  <2>2. (i < j => g[i] < g[j]) /\ (j < i => g[j] < g[i])
    BY DEF Moves
  <2>3. QED
    BY <2>1, <2>2
<1>1. IsFiniteSet(U) /\ Cardinality(U) = Cardinality(S)
  <2>1. /\ \A i \in S : g[i] \in U
        /\ \A u \in U : \E i \in S : g[i] = u
    BY DEF Moves
  <2>2. \A i, j \in S : g[i] = g[j] => i = j
    BY <1>0
  <2>3. QED
    BY <2>1, <2>2, SameSize
<1>2. ASSUME NEW i \in S PROVE Rank(U, g[i]) = Rank(S, i)
  <2> DEFINE V == {j \in S : j <= i}
             W == {u \in U : u <= g[i]}
  <2>1. \A j \in V : g[j] \in W
    BY <1>0 DEF Moves
  <2>2. \A j, k \in V : g[j] = g[k] => j = k
    BY <1>0
  <2>3. \A u \in W : \E j \in V : g[j] = u
    <3> TAKE u \in W
    <3>1. PICK j \in S : g[j] = u
      BY DEF Moves
    <3>2. j \in V
      BY <1>0, <3>1
    <3>3. QED
      BY <3>1, <3>2
  <2>4. IsFiniteSet(V)
    <3>1. V \in SUBSET S
      OBVIOUS
    <3>2. QED
      BY <3>1, FS_Subset
  <2>5. Rank(S, i) = Cardinality(V) /\ Rank(U, g[i]) = Cardinality(W)
    BY DEF Rank
  <2> HIDE DEF V, W
  <2>6. Cardinality(W) = Cardinality(V)
    BY <2>1, <2>2, <2>3, <2>4, SameSize
  <2>7. QED
    BY <2>5, <2>6
<1>3. ASSUME NEW k \in 1..Cardinality(S) PROVE Nth(U, k) = g[Nth(S, k)]
  <2>1. Ranked(S) /\ Ranked(U)
    BY <1>1, PlacesRanked
  <2>2. Nth(S, k) \in S /\ Rank(S, Nth(S, k)) = k
    BY <2>1 DEF Ranked
  <2>3. Nth(U, k) \in U /\ Rank(U, Nth(U, k)) = k
    BY <1>1, <2>1 DEF Ranked
  <2>4. g[Nth(S, k)] \in U /\ Rank(U, g[Nth(S, k)]) = k
    BY <1>2, <2>2 DEF Moves
  <2>5. QED
    BY <2>1, <2>3, <2>4 DEF Ranked
<1>4. QED
  BY <1>1, <1>2, <1>3

LEMMA PlacesAreFinite ==
  ASSUME NEW T, NEW s \in Seq(T), NEW S \in SUBSET DOMAIN s
  PROVE  S \in SUBSET Nat /\ IsFiniteSet(S) /\ Ranked(S) /\ DOMAIN s = 1..Len(s) /\ Len(s) \in Nat
<1>1. DOMAIN s = 1..Len(s) /\ Len(s) \in Nat
  BY LenProperties
<1>2. S \in SUBSET Nat /\ S \in SUBSET (1..Len(s))
  BY <1>1
<1>3. IsFiniteSet(S)
  BY <1>1, <1>2, UpToIsFinite, FS_Subset
<1>4. QED
  BY <1>1, <1>2, <1>3, PlacesRanked

LEMMA PickedIsSome ==
  ASSUME NEW T, NEW s \in Seq(T), NEW S \in SUBSET DOMAIN s
  PROVE  /\ Picked(s, S) \in Seq(T) /\ Len(Picked(s, S)) = Cardinality(S) /\ Cardinality(S) \in Nat
         /\ \A k \in 1..Cardinality(S) : Nth(S, k) \in S /\ Picked(s, S)[k] = s[Nth(S, k)]
<1> DEFINE n == Cardinality(S)
<1>1. n \in Nat /\ \A k \in 1..n : Nth(S, k) \in S
  <2>1. Ranked(S)
    BY PlacesAreFinite
  <2>2. QED
    BY <2>1 DEF Ranked
<1>2. Picked(s, S) = [k \in 1..n |-> s[Nth(S, k)]]
  BY DEF Picked
<1>3. \A k \in 1..n : s[Nth(S, k)] \in T
  <2>1. \A i \in S : s[i] \in T
    BY ElementOfSeq, LenProperties
  <2>2. QED
    BY <1>1, <2>1
<1> HIDE DEF n
<1>4. Picked(s, S) \in [1..n -> T]
  BY <1>2, <1>3
<1>5. QED
  BY <1>1, <1>2, <1>4 DEF n

-----------------------------------------------------------------------------
(* What the history keeps: of the places of its records, the first PerSource of a source, and
of these the first Total. *)

OfSource(s, i) == Cardinality({j \in 1..i : s[j].source = s[i].source})
KeptPlaces(s) == {i \in DOMAIN s : OfSource(s, i) <= PerSource}
LastingPlaces(s) == {i \in KeptPlaces(s) : Rank(KeptPlaces(s), i) <= Total}

LEMMA SessionCounts == ASSUME NEW S PROVE Y!Cardinality(S) = Cardinality(S)
BY DEF Y!Cardinality, Cardinality

LEMMA SessionRanks == ASSUME NEW S, NEW i PROVE Y!Rank(S, i) = Rank(S, i)
BY SessionCounts DEF Y!Rank, Rank

LEMMA SessionPicks == ASSUME NEW s, NEW S PROVE Y!Picked(s, S) = Picked(s, S)
<1>1. \A k : Y!Nth(S, k) = Nth(S, k)
  BY SessionRanks DEF Y!Nth, Nth
<1>2. Y!Cardinality(S) = Cardinality(S)
  BY SessionCounts
<1>3. QED
  BY <1>1, <1>2 DEF Y!Picked, Picked

LEMMA RetainedIsPicked == ASSUME NEW s PROVE Y!Retained(s) = Picked(s, LastingPlaces(s))
<1> DEFINE ofSource(i) == Y!Cardinality({j \in 1..i : s[j].source = s[i].source})
           kept == {i \in DOMAIN s : ofSource(i) <= PerSource}
           places == {i \in kept : Y!Rank(kept, i) <= Total}
<1>1. Y!Retained(s) = Y!Picked(s, places)
  BY DEF Y!Retained
<1>2. \A i : ofSource(i) = OfSource(s, i)
  BY SessionCounts DEF OfSource
<1>3. kept = KeptPlaces(s)
  BY <1>2 DEF KeptPlaces
<1> HIDE DEF kept
<1>4. places = LastingPlaces(s)
  BY <1>3, SessionRanks DEF LastingPlaces
<1> HIDE DEF places
<1>5. QED
  BY <1>1, <1>4, SessionPicks

LEMMA PushedFront ==
  ASSUME NEW T, NEW s \in Seq(T), NEW r \in T
  PROVE  /\ <<r>> \o s \in Seq(T) /\ Len(<<r>> \o s) = Len(s) + 1 /\ Len(s) \in Nat
         /\ DOMAIN s = 1..Len(s) /\ DOMAIN (<<r>> \o s) = 1..(Len(s) + 1)
         /\ (<<r>> \o s)[1] = r /\ \A k \in 1..Len(s) : (<<r>> \o s)[k + 1] = s[k]
<1>1. <<r>> \in Seq(T) /\ Len(<<r>>) = 1 /\ <<r>>[1] = r
  OBVIOUS
<1>2. <<r>> \o s \in Seq(T) /\ Len(<<r>> \o s) = 1 + Len(s)
      /\ \A i \in 1..(1 + Len(s)) : (<<r>> \o s)[i] = IF i <= 1 THEN <<r>>[i] ELSE s[i - 1]
  BY <1>1, ConcatProperties
<1> DEFINE t == <<r>> \o s
           n == Len(s)
<1>3. n \in Nat /\ DOMAIN s = 1..n /\ DOMAIN t = 1..Len(t)
  BY <1>2, LenProperties
<1>4. t \in Seq(T) /\ Len(t) = 1 + n /\ \A i \in 1..(1 + n) : t[i] = IF i <= 1 THEN <<r>>[i] ELSE s[i - 1]
  BY <1>2
<1> HIDE DEF t, n
<1>5. t[1] = r
  BY <1>1, <1>3, <1>4
<1>6. ASSUME NEW k \in 1..n PROVE t[k + 1] = s[k]
  <2>1. k + 1 \in 1..(1 + n) /\ ~(k + 1 <= 1) /\ (k + 1) - 1 = k
    BY <1>3
  <2>2. QED
    BY <1>4, <2>1
<1>7. Len(t) = n + 1
  BY <1>3, <1>4
<1>8. QED
  BY <1>3, <1>4, <1>5, <1>6, <1>7 DEF t, n

LEMMA OfSourceGrows ==
  ASSUME NEW T, NEW s \in Seq(T), NEW i \in DOMAIN s, NEW j \in DOMAIN s,
         s[i].source = s[j].source, i <= j
  PROVE  /\ OfSource(s, i) \in Nat /\ OfSource(s, j) \in Nat /\ OfSource(s, i) <= OfSource(s, j)
         /\ i < j => OfSource(s, i) < OfSource(s, j)
<1> DEFINE V == {k \in 1..i : s[k].source = s[i].source}
           W == {k \in 1..j : s[k].source = s[j].source}
<1>1. OfSource(s, i) = Cardinality(V) /\ OfSource(s, j) = Cardinality(W)
  BY DEF OfSource
<1>2. i \in Nat /\ j \in Nat /\ j >= 1
  BY LenProperties
<1>3. V \in SUBSET W /\ W \in SUBSET (1..j)
  BY <1>2
<1>4. i < j => j \in W /\ j \notin V
  BY <1>2
<1> HIDE DEF V, W
<1>5. IsFiniteSet(W)
  BY <1>2, <1>3, UpToIsFinite, FS_Subset
<1>6. /\ IsFiniteSet(V) /\ Cardinality(V) <= Cardinality(W)
      /\ Cardinality(V) = Cardinality(W) => V = W
  BY <1>3, <1>5, FS_Subset
<1>7. Cardinality(V) \in Nat /\ Cardinality(W) \in Nat
  BY <1>5, <1>6, FS_CardinalityType
<1>8. QED
  BY <1>1, <1>4, <1>6, <1>7

LEMMA OfSourceShifts ==
  ASSUME NEW T, NEW s \in Seq(T), NEW r \in T, NEW i \in DOMAIN s
  PROVE  /\ OfSource(s, i) \in Nat /\ OfSource(<<r>> \o s, i + 1) \in Nat
         /\ OfSource(s, i) <= OfSource(<<r>> \o s, i + 1)
         /\ OfSource(<<r>> \o s, i + 1) <= OfSource(s, i) + 1
         /\ r.source # s[i].source => OfSource(<<r>> \o s, i + 1) = OfSource(s, i)
<1> DEFINE t == <<r>> \o s
           V == {k \in 1..i : s[k].source = s[i].source}
           W == {k \in 1..(i + 1) : t[k].source = t[i + 1].source}
           U == W \ {1}
           g == [k \in Nat |-> k + 1]
<1>1. i \in Nat /\ i >= 1 /\ i <= Len(s) /\ Len(s) \in Nat /\ DOMAIN s = 1..Len(s)
  BY LenProperties
<1>2. t[1] = r /\ \A k \in 1..Len(s) : t[k + 1] = s[k]
  BY PushedFront
<1>3. OfSource(s, i) = Cardinality(V) /\ OfSource(t, i + 1) = Cardinality(W)
  BY DEF OfSource
<1>4. V \in SUBSET (1..i) /\ W \in SUBSET (1..(i + 1)) /\ U \in SUBSET W
  OBVIOUS
<1>5. \A k \in V : g[k] \in U
  <2> TAKE k \in V
  <2>1. k \in Nat /\ k >= 1 /\ k <= i /\ s[k].source = s[i].source
    BY <1>1
  <2>2. t[k + 1] = s[k] /\ t[i + 1] = s[i]
    BY <1>1, <1>2, <2>1
  <2> HIDE DEF t
  <2>3. k + 1 \in W /\ k + 1 # 1
    BY <1>1, <2>1, <2>2
  <2>4. QED
    BY <2>1, <2>3
<1>6. \A u \in U : \E k \in V : g[k] = u
  <2> TAKE u \in U
  <2>1. u \in Nat /\ u >= 2 /\ u <= i + 1 /\ t[u].source = t[i + 1].source
    BY <1>1
  <2>2. u - 1 \in 1..i /\ (u - 1) + 1 = u
    BY <1>1, <2>1
  <2>3. t[(u - 1) + 1] = s[u - 1] /\ t[i + 1] = s[i]
    BY <1>1, <1>2, <2>2
  <2> HIDE DEF t
  <2>4. u - 1 \in V
    BY <2>1, <2>2, <2>3
  <2>5. g[u - 1] = u
    BY <2>2
  <2>6. QED
    BY <2>4, <2>5
<1>7. \A k, l \in V : g[k] = g[l] => k = l
  <2>1. \A k, l \in Nat : k + 1 = l + 1 => k = l
    OBVIOUS
  <2>2. \A k \in V : k \in Nat /\ g[k] = k + 1
    BY <1>1
  <2>3. QED
    BY <2>1, <2>2
<1>8. r.source # s[i].source => 1 \notin W
  BY <1>1, <1>2
<1>9. W \in SUBSET (U \cup {1})
  OBVIOUS
<1> HIDE DEF V, W, U, g, t
<1>10. IsFiniteSet(V) /\ IsFiniteSet(W) /\ IsFiniteSet(U)
  <2>1. i + 1 \in Nat
    BY <1>1
  <2>2. QED
    BY <1>1, <1>4, <2>1, UpToIsFinite, FS_Subset
<1>11. Cardinality(U) = Cardinality(V)
  BY <1>5, <1>6, <1>7, <1>10, SameSize
<1>12. Cardinality(V) \in Nat /\ Cardinality(W) \in Nat /\ Cardinality(U) <= Cardinality(W)
  BY <1>4, <1>10, FS_CardinalityType, FS_Subset
<1>13. Cardinality(W) <= Cardinality(U) + 1
  <2>1. IsFiniteSet(U \cup {1}) /\ Cardinality(U \cup {1}) <= Cardinality(U) + 1
    <3>1. Cardinality(U \cup {1}) = IF 1 \in U THEN Cardinality(U) ELSE Cardinality(U) + 1
      BY <1>10, FS_AddElement
    <3>2. IsFiniteSet(U \cup {1})
      BY <1>10, FS_AddElement
    <3>3. Cardinality(U) \in Nat
      BY <1>10, FS_CardinalityType
    <3>4. QED
      BY <3>1, <3>2, <3>3
  <2>2. Cardinality(W) <= Cardinality(U \cup {1}) /\ Cardinality(U \cup {1}) \in Nat
    BY <1>9, <2>1, FS_Subset, FS_CardinalityType
  <2>3. QED
    BY <1>11, <1>12, <2>1, <2>2
<1>14. 1 \notin W => U = W
  BY DEF U
<1>15. QED
  BY <1>3, <1>8, <1>11, <1>12, <1>13, <1>14 DEF t

\* The members of t at the places D, which are u, are enough to tell what t keeps.
Suffices(g, D, u, t) ==
  /\ Moves(g, DOMAIN u, D) /\ D \in SUBSET DOMAIN t /\ LastingPlaces(t) \in SUBSET D
  /\ \A k \in DOMAIN u : u[k] = t[g[k]]
  /\ \A d \in D : \A i \in 1..d : t[i].source = t[d].source \/ i \in KeptPlaces(t) => i \in D

LEMMA SuffixPlaces ==
  ASSUME NEW T, NEW t \in Seq(T), NEW u \in Seq(T), NEW g, NEW D, Suffices(g, D, u, t)
  PROVE  /\ \A k \in DOMAIN u : g[k] \in D /\ g[k] \in Nat /\ k \in Nat /\ g[k] \in DOMAIN t
         /\ \A j, k \in DOMAIN u : (g[j] = g[k] => j = k) /\ (g[j] <= g[k] <=> j <= k)
         /\ \A d \in D : \E k \in DOMAIN u : g[k] = d
         /\ \A k \in DOMAIN u : u[k] = t[g[k]]
<1>1. DOMAIN u \in SUBSET Nat /\ DOMAIN t \in SUBSET Nat
  BY LenProperties
<1>2. \A k \in DOMAIN u : g[k] \in D /\ g[k] \in Nat /\ k \in Nat /\ g[k] \in DOMAIN t
  BY <1>1 DEF Suffices, Moves
<1>3. \A j, k \in DOMAIN u : j < k => g[j] < g[k]
  BY DEF Suffices, Moves
<1>4. \A j, k \in DOMAIN u : (g[j] = g[k] => j = k) /\ (g[j] <= g[k] <=> j <= k)
  <2> TAKE j \in DOMAIN u, k \in DOMAIN u
  <2>1. j \in Nat /\ k \in Nat /\ g[j] \in Nat /\ g[k] \in Nat
    BY <1>2
  <2>2. (j < k => g[j] < g[k]) /\ (k < j => g[k] < g[j])
    BY <1>3
  <2>3. QED
    BY <2>1, <2>2
<1>5. /\ \A d \in D : \E k \in DOMAIN u : g[k] = d
      /\ \A k \in DOMAIN u : u[k] = t[g[k]]
  BY DEF Suffices, Moves
<1>6. QED
  BY <1>2, <1>4, <1>5

LEMMA SameOfSource ==
  ASSUME NEW T, NEW t \in Seq(T), NEW u \in Seq(T), NEW g, NEW D, Suffices(g, D, u, t),
         NEW k \in DOMAIN u
  PROVE  OfSource(u, k) = OfSource(t, g[k])
<1> DEFINE V == {j \in 1..k : u[j].source = u[k].source}
           W == {i \in 1..g[k] : t[i].source = t[g[k]].source}
<1>1. OfSource(u, k) = Cardinality(V) /\ OfSource(t, g[k]) = Cardinality(W)
  BY DEF OfSource
<1>2. k \in Nat /\ k >= 1 /\ k <= Len(u) /\ Len(u) \in Nat /\ DOMAIN u = 1..Len(u)
  BY LenProperties
<1>3. V \in SUBSET (1..k) /\ \A j \in V : j \in DOMAIN u /\ j <= k
  BY <1>2
<1>4. \A j \in V : g[j] \in W
  <2> TAKE j \in V
  <2>1. j \in DOMAIN u /\ j <= k /\ u[j].source = u[k].source
    BY <1>3
  <2>2. /\ g[j] \in Nat /\ g[k] \in Nat /\ g[j] <= g[k] /\ g[j] \in DOMAIN t
        /\ u[j] = t[g[j]] /\ u[k] = t[g[k]]
    BY <2>1, SuffixPlaces
  <2>3. g[j] \in 1..g[k]
    <3>1. DOMAIN t = 1..Len(t)
      BY LenProperties
    <3>2. QED
      BY <2>2, <3>1
  <2>4. QED
    BY <2>1, <2>2, <2>3
<1>5. \A i \in W : \E j \in V : g[j] = i
  <2> TAKE i \in W
  <2>1. g[k] \in D /\ i \in 1..g[k] /\ t[i].source = t[g[k]].source
    BY SuffixPlaces
  <2>2. i \in D
    BY <2>1 DEF Suffices
  <2>3. PICK j \in DOMAIN u : g[j] = i
    BY <2>2, SuffixPlaces
  <2>4. g[j] <= g[k]
    BY <2>1, <2>3, SuffixPlaces
  <2>5. j <= k /\ u[j] = t[i] /\ u[k] = t[g[k]]
    BY <2>3, <2>4, SuffixPlaces
  <2>6. j \in 1..k
    BY <1>2, <2>5
  <2>7. j \in V
    BY <2>1, <2>5, <2>6
  <2>8. QED
    BY <2>3, <2>7
<1>6. \A i, j \in V : g[i] = g[j] => i = j
  BY <1>3, SuffixPlaces
<1> HIDE DEF V, W
<1>7. IsFiniteSet(V)
  BY <1>2, <1>3, UpToIsFinite, FS_Subset
<1>8. QED
  BY <1>1, <1>4, <1>5, <1>6, <1>7, SameSize

LEMMA SameKept ==
  ASSUME NEW T, NEW t \in Seq(T), NEW u \in Seq(T), NEW g, NEW D, Suffices(g, D, u, t),
         NEW k \in DOMAIN u
  PROVE  /\ k \in KeptPlaces(u) <=> g[k] \in KeptPlaces(t)
         /\ Rank(KeptPlaces(u), k) = Rank(KeptPlaces(t), g[k])
         /\ k \in LastingPlaces(u) <=> g[k] \in LastingPlaces(t)
<1>1. \A j \in DOMAIN u : j \in KeptPlaces(u) <=> g[j] \in KeptPlaces(t)
  <2> TAKE j \in DOMAIN u
  <2>1. OfSource(u, j) = OfSource(t, g[j]) /\ g[j] \in DOMAIN t
    BY SameOfSource, SuffixPlaces
  <2>2. QED
    BY <2>1 DEF KeptPlaces
<1> DEFINE V == {j \in KeptPlaces(u) : j <= k}
           W == {i \in KeptPlaces(t) : i <= g[k]}
<1>2. Rank(KeptPlaces(u), k) = Cardinality(V) /\ Rank(KeptPlaces(t), g[k]) = Cardinality(W)
  BY DEF Rank
<1>3. KeptPlaces(u) \in SUBSET DOMAIN u /\ KeptPlaces(t) \in SUBSET DOMAIN t
  BY DEF KeptPlaces
<1>4. \A j \in V : g[j] \in W
  BY <1>1, <1>3, SuffixPlaces
<1>5. \A i \in W : \E j \in V : g[j] = i
  <2> TAKE i \in W
  <2>1. i \in KeptPlaces(t) /\ i <= g[k] /\ g[k] \in D /\ i \in Nat /\ i >= 1 /\ g[k] \in Nat
    <3>1. g[k] \in D /\ g[k] \in Nat
      BY SuffixPlaces
    <3>2. i \in DOMAIN t
      BY <1>3
    <3>3. QED
      BY <3>1, <3>2, LenProperties
  <2>2. i \in 1..g[k]
    BY <2>1
  <2>3. i \in D
    BY <2>1, <2>2 DEF Suffices
  <2>4. PICK j \in DOMAIN u : g[j] = i
    BY <2>3, SuffixPlaces
  <2>5. j <= k
    BY <2>1, <2>4, SuffixPlaces
  <2>6. j \in KeptPlaces(u)
    BY <1>1, <2>1, <2>4
  <2>7. QED
    BY <2>4, <2>5, <2>6
<1>6. \A i, j \in V : g[i] = g[j] => i = j
  BY <1>3, SuffixPlaces
<1>7. V \in SUBSET DOMAIN u
  BY <1>3
<1> HIDE DEF V, W
<1>8. IsFiniteSet(V)
  BY <1>7, PlacesAreFinite
<1>9. Cardinality(V) = Cardinality(W)
  BY <1>4, <1>5, <1>6, <1>8, SameSize
<1>10. Rank(KeptPlaces(u), k) = Rank(KeptPlaces(t), g[k])
  BY <1>2, <1>9
<1>11. QED
  BY <1>1, <1>10 DEF LastingPlaces

LEMMA SameRetained ==
  ASSUME NEW T, NEW t \in Seq(T), NEW u \in Seq(T), NEW g, NEW D, Suffices(g, D, u, t)
  PROVE  Y!Retained(u) = Y!Retained(t)
<1> DEFINE S == LastingPlaces(u)
           U == LastingPlaces(t)
<1>1. S \in SUBSET DOMAIN u /\ U \in SUBSET DOMAIN t /\ U \in SUBSET D
  BY DEF LastingPlaces, KeptPlaces, Suffices
<1>2. IsFiniteSet(S) /\ S \in SUBSET Nat
  BY <1>1, PlacesAreFinite
<1>3. U \in SUBSET Nat
  BY <1>1, PlacesAreFinite
<1>4. Moves(g, S, U)
  <2>1. \A i \in S : g[i] \in U
    BY <1>1, SameKept
  <2>2. \A i, j \in S : i < j => g[i] < g[j]
    BY <1>1 DEF Suffices, Moves
  <2>3. \A i \in U : \E j \in S : g[j] = i
    <3> TAKE i \in U
    <3>1. PICK j \in DOMAIN u : g[j] = i
      BY <1>1, SuffixPlaces
    <3>2. j \in S
      BY <3>1, SameKept
    <3>3. QED
      BY <3>1, <3>2
  <2> HIDE DEF S, U
  <2>4. QED
    BY <2>1, <2>2, <2>3 DEF Moves
<1>5. Y!Retained(u) = Picked(u, S) /\ Y!Retained(t) = Picked(t, U)
  BY RetainedIsPicked
<1> HIDE DEF S, U
<1>6. Cardinality(U) = Cardinality(S) /\ \A k \in 1..Cardinality(S) : Nth(U, k) = g[Nth(S, k)]
  BY <1>2, <1>3, <1>4, RanksMove
<1>7. \A k \in 1..Cardinality(S) : u[Nth(S, k)] = t[Nth(U, k)]
  <2> TAKE k \in 1..Cardinality(S)
  <2>1. Nth(S, k) \in S
    BY <1>1, PickedIsSome
  <2>2. QED
    BY <1>1, <1>6, <2>1, SuffixPlaces
<1>8. Picked(u, S) = Picked(t, U)
  BY <1>6, <1>7 DEF Picked
<1>9. QED
  BY <1>5, <1>8

\* What is before a record that lasts, and is of its source or is kept, lasts.
LEMMA EarlierLasts ==
  ASSUME NEW T, NEW s \in Seq(T), NEW i \in LastingPlaces(s), NEW j \in DOMAIN s, j <= i,
         s[j].source = s[i].source \/ j \in KeptPlaces(s)
  PROVE  j \in LastingPlaces(s)
<1>1. i \in KeptPlaces(s) /\ Rank(KeptPlaces(s), i) <= Total /\ i \in DOMAIN s /\ OfSource(s, i) <= PerSource
  BY DEF LastingPlaces, KeptPlaces
<1>2. PerSource \in Nat /\ Total \in Nat
  BY HistoriesHaveRoom
<1>3. j \in KeptPlaces(s)
  <2>1. CASE j \in KeptPlaces(s)
    BY <2>1
  <2>2. CASE s[j].source = s[i].source
    <3>1. OfSource(s, i) \in Nat /\ OfSource(s, j) \in Nat /\ OfSource(s, j) <= OfSource(s, i)
      BY <1>1, <2>2, OfSourceGrows
    <3>2. OfSource(s, j) <= PerSource
      BY <1>1, <1>2, <3>1
    <3>3. QED
      BY <3>2 DEF KeptPlaces
  <2>3. QED
    BY <2>1, <2>2
<1>4. KeptPlaces(s) \in SUBSET DOMAIN s
  BY DEF KeptPlaces
<1>5. Ranked(KeptPlaces(s)) /\ KeptPlaces(s) \in SUBSET Nat
  BY <1>4, PlacesAreFinite
<1>6. Rank(KeptPlaces(s), j) <= Total
  <2>1. i \in Nat /\ j \in Nat
    BY <1>1, <1>3, <1>5
  <2>2. Rank(KeptPlaces(s), i) \in Nat /\ Rank(KeptPlaces(s), j) \in Nat
    BY <1>1, <1>3, <1>5 DEF Ranked
  <2>3. j < i => Rank(KeptPlaces(s), j) < Rank(KeptPlaces(s), i)
    BY <1>1, <1>3, <1>5 DEF Ranked
  <2>4. CASE j = i
    BY <1>1, <2>4
  <2>5. CASE j # i
    BY <1>1, <1>2, <2>1, <2>2, <2>3, <2>5
  <2>6. QED
    BY <2>4, <2>5
<1>7. QED
  BY <1>3, <1>6 DEF LastingPlaces

\* A record that is still kept behind a new one was kept without it, and ranks one later at most.
LEMMA KeptShifts ==
  ASSUME NEW T, NEW s \in Seq(T), NEW r \in T, NEW i \in DOMAIN s,
         i + 1 \in KeptPlaces(<<r>> \o s)
  PROVE  i \in KeptPlaces(s) /\ Rank(KeptPlaces(s), i) <= Rank(KeptPlaces(<<r>> \o s), i + 1)
<1> DEFINE t == <<r>> \o s
           S == KeptPlaces(s)
           U == KeptPlaces(t)
           V == {j \in S : j <= i}
           W == {j \in U : j <= i + 1}
           g == [j \in Nat |-> IF j + 1 \in U THEN j + 1 ELSE 1]
<1>1. PerSource \in Nat /\ PerSource >= 1
  BY HistoriesHaveRoom
<1>2. /\ t \in Seq(T) /\ Len(s) \in Nat /\ DOMAIN s = 1..Len(s) /\ DOMAIN t = 1..(Len(s) + 1)
      /\ t[1] = r /\ \A k \in 1..Len(s) : t[k + 1] = s[k]
  BY PushedFront
<1>3. i \in Nat /\ i >= 1
  BY <1>2
<1>4. \A j \in DOMAIN s :
        /\ OfSource(s, j) \in Nat /\ OfSource(t, j + 1) \in Nat
        /\ OfSource(s, j) <= OfSource(t, j + 1) /\ OfSource(t, j + 1) <= OfSource(s, j) + 1
        /\ r.source # s[j].source => OfSource(t, j + 1) = OfSource(s, j)
  BY OfSourceShifts
<1>5. i \in S
  <2>1. OfSource(t, i + 1) <= PerSource
    BY DEF KeptPlaces
  <2>a. OfSource(s, i) \in Nat /\ OfSource(t, i + 1) \in Nat /\ OfSource(s, i) <= OfSource(t, i + 1)
    BY <1>4
  <2> HIDE DEF S, U, t
  <2>2. OfSource(s, i) <= PerSource
    BY <1>1, <2>a, <2>1
  <2>3. QED
    BY <2>2 DEF KeptPlaces, S
<1>6. S \in SUBSET DOMAIN s /\ U \in SUBSET DOMAIN t
  BY DEF KeptPlaces
<1>7. 1 \in U
  <2> DEFINE Z == {j \in 1..1 : t[j].source = t[1].source}
  <2>1. OfSource(t, 1) = Cardinality(Z)
    BY DEF OfSource
  <2>2. Z = {1}
    OBVIOUS
  <2>3. OfSource(t, 1) = 1
    BY <2>1, <2>2, FS_Singleton
  <2>4. 1 \in DOMAIN t
    BY <1>2
  <2>5. QED
    BY <1>1, <2>3, <2>4 DEF KeptPlaces
<1>8. \A j \in S : j \in Nat /\ j >= 1 /\ j + 1 \in DOMAIN t /\ OfSource(s, j) <= PerSource
  BY <1>2, <1>6 DEF KeptPlaces
\* Of the records that are no longer kept, there is one at most: the last of r's source.
<1>9. ASSUME NEW j \in S, j + 1 \notin U
      PROVE  r.source = s[j].source /\ OfSource(s, j) >= PerSource
  <2>1. ~(OfSource(t, j + 1) <= PerSource)
    BY <1>8, <1>9 DEF KeptPlaces
  <2>a. /\ OfSource(s, j) \in Nat /\ OfSource(t, j + 1) \in Nat
        /\ OfSource(t, j + 1) <= OfSource(s, j) + 1
        /\ r.source # s[j].source => OfSource(t, j + 1) = OfSource(s, j)
    BY <1>4, <1>6
  <2>b. OfSource(s, j) <= PerSource
    BY <1>8
  <2> HIDE DEF S, U, t
  <2>c. OfSource(t, j + 1) > PerSource
    BY <1>1, <2>a, <2>1
  <2>d. OfSource(t, j + 1) # OfSource(s, j) /\ OfSource(s, j) >= PerSource
    BY <1>1, <2>a, <2>b, <2>c
  <2>2. QED
    BY <2>a, <2>d
<1>10. ASSUME NEW j \in S, NEW k \in S, j + 1 \notin U, k + 1 \notin U, j < k PROVE FALSE
  <2>1. s[j].source = s[k].source /\ OfSource(s, j) >= PerSource
    BY <1>9, <1>10
  <2>2. j <= k
    BY <1>8, <1>10
  <2>3. OfSource(s, j) < OfSource(s, k)
    BY <1>6, <1>10, <2>1, <2>2, OfSourceGrows
  <2>4. OfSource(s, k) <= PerSource /\ OfSource(s, k) \in Nat /\ OfSource(s, j) \in Nat
    BY <1>4, <1>6, <1>8
  <2>5. QED
    BY <1>1, <2>1, <2>3, <2>4
<1>11. Rank(S, i) = Cardinality(V) /\ Rank(U, i + 1) = Cardinality(W)
  BY DEF Rank
<1> HIDE DEF t, S, U
<1>12. \A j \in V : g[j] \in W
  <2> TAKE j \in V
  <2>1. j \in S /\ j \in Nat /\ j <= i
    BY <1>8
  <2>2. CASE j + 1 \in U
    BY <1>3, <2>1, <2>2
  <2>3. CASE j + 1 \notin U
    BY <1>3, <1>7, <2>1, <2>3
  <2>4. QED
    BY <2>2, <2>3
<1>13. \A j, k \in V : g[j] = g[k] => j = k
  <2> TAKE j \in V, k \in V
  <2> HAVE g[j] = g[k]
  <2>1. j \in S /\ j \in Nat /\ k \in S /\ k \in Nat /\ j >= 1 /\ k >= 1
    BY <1>8
  <2>2. g[j] = (IF j + 1 \in U THEN j + 1 ELSE 1) /\ g[k] = (IF k + 1 \in U THEN k + 1 ELSE 1)
    BY <2>1
  <2>3. CASE j + 1 \in U
    BY <2>1, <2>2, <2>3
  <2>4. CASE k + 1 \in U
    BY <2>1, <2>2, <2>4
  <2>5. CASE j + 1 \notin U /\ k + 1 \notin U
    <3>1. ~(j < k) /\ ~(k < j)
      BY <1>10, <2>1, <2>5
    <3>2. QED
      BY <2>1, <3>1
  <2>6. QED
    BY <2>3, <2>4, <2>5
<1>14. W \in SUBSET U
  OBVIOUS
<1> HIDE DEF g, V, W
<1>15. IsFiniteSet(W)
  <2>1. IsFiniteSet(U)
    BY <1>2, <1>6, PlacesAreFinite
  <2>2. QED
    BY <1>14, <2>1, FS_Subset
<1>16. Cardinality(V) <= Cardinality(W)
  BY <1>12, <1>13, <1>15, NoGreaterSize
<1>17. QED
  BY <1>5, <1>11, <1>16 DEF S, U, t

LEMMA PickedAll ==
  ASSUME NEW T, NEW s \in Seq(T) PROVE Picked(s, DOMAIN s) = s
<1>1. Len(s) \in Nat /\ DOMAIN s = 1..Len(s) /\ s = [k \in 1..Len(s) |-> s[k]]
  BY LenProperties
<1> DEFINE n == Len(s)
<1>2. IsFiniteSet(1..n) /\ Cardinality(1..n) = n
  BY <1>1, UpToIsFinite
<1>3. Ranked(1..n)
  BY <1>2, PlacesRanked
<1>4. \A k \in 1..n : Rank(1..n, k) = k
  <2> TAKE k \in 1..n
  <2>1. {j \in 1..n : j <= k} = 1..k
    BY <1>1
  <2>2. k \in Nat
    BY <1>1
  <2>3. QED
    BY <2>1, <2>2, UpToIsFinite DEF Rank
<1>5. \A k \in 1..n : Nth(1..n, k) = k
  <2> TAKE k \in 1..n
  <2>1. Nth(1..n, k) \in 1..n /\ Rank(1..n, Nth(1..n, k)) = k
    BY <1>2, <1>3 DEF Ranked
  <2>2. QED
    BY <1>4, <2>1
<1>6. Picked(s, 1..n) = [k \in 1..n |-> s[k]]
  BY <1>2, <1>5 DEF Picked
<1>7. QED
  BY <1>1, <1>6

LEMMA RetainedIsSome ==
  ASSUME NEW T, NEW s \in Seq(T)
  PROVE  /\ Y!Retained(s) \in Seq(T) /\ Len(Y!Retained(s)) <= Total
         /\ \A k \in 1..Len(Y!Retained(s)) : \E i \in DOMAIN s : Y!Retained(s)[k] = s[i]
<1> DEFINE S == LastingPlaces(s)
           U == KeptPlaces(s)
<1>1. S \in SUBSET U /\ U \in SUBSET DOMAIN s /\ S \in SUBSET DOMAIN s /\ \A i \in S : Rank(U, i) <= Total
  BY DEF LastingPlaces, KeptPlaces
<1>2. Y!Retained(s) = Picked(s, S)
  BY RetainedIsPicked
<1> HIDE DEF S, U
<1>3. /\ Picked(s, S) \in Seq(T) /\ Len(Picked(s, S)) = Cardinality(S) /\ Cardinality(S) \in Nat
      /\ \A k \in 1..Cardinality(S) : Nth(S, k) \in S /\ Picked(s, S)[k] = s[Nth(S, k)]
  BY <1>1, PickedIsSome
<1>4. Total \in Nat
  BY HistoriesHaveRoom
<1>5. Cardinality(S) <= Total
  <2> DEFINE f == [i \in S |-> Rank(U, i)]
  <2>1. Ranked(U)
    BY <1>1, PlacesAreFinite
  <2>2. \A i \in S : f[i] \in 1..Total
    <3> TAKE i \in S
    <3>1. Rank(U, i) \in 1..Cardinality(U) /\ Cardinality(U) \in Nat /\ Rank(U, i) <= Total
      BY <1>1, <2>1 DEF Ranked
    <3>2. QED
      BY <1>4, <3>1
  <2>3. \A i, j \in S : f[i] = f[j] => i = j
    BY <1>1, <2>1 DEF Ranked
  <2>4. IsFiniteSet(1..Total) /\ Cardinality(1..Total) = Total
    BY <1>4, UpToIsFinite
  <2> HIDE DEF f
  <2>5. Cardinality(S) <= Cardinality(1..Total)
    BY <2>2, <2>3, <2>4, NoGreaterSize
  <2>6. QED
    BY <2>4, <2>5
<1>6. QED
  BY <1>1, <1>2, <1>3, <1>5

\* What a history keeps behind a new record is what it would keep behind it of all there was: to
\* trim the list at every record forgets nothing that trimming it once, at the end, would keep
\* (applyRetentionPolicy, performanceHistoryStore.js).
THEOREM RetainedAgain ==
  ASSUME NEW T, NEW s \in Seq(T), NEW r \in T
  PROVE  Y!Retained(<<r>> \o Y!Retained(s)) = Y!Retained(<<r>> \o s)
<1> DEFINE S == LastingPlaces(s)
           n == Cardinality(S)
           h == Picked(s, S)
           t == <<r>> \o s
           u == <<r>> \o h
           g == [k \in 1..(n + 1) |-> IF k = 1 THEN 1 ELSE Nth(S, k - 1) + 1]
           D == {1} \cup {i + 1 : i \in S}
<1>1. Y!Retained(s) = h
  BY RetainedIsPicked
<1>2. S \in SUBSET DOMAIN s /\ KeptPlaces(s) \in SUBSET DOMAIN s
  BY DEF LastingPlaces, KeptPlaces
<1> HIDE DEF S
<1>3. /\ h \in Seq(T) /\ Len(h) = n /\ n \in Nat
      /\ \A k \in 1..n : Nth(S, k) \in S /\ h[k] = s[Nth(S, k)]
  BY <1>2, PickedIsSome
<1> HIDE DEF h
<1>4. /\ t \in Seq(T) /\ Len(s) \in Nat /\ DOMAIN s = 1..Len(s) /\ DOMAIN t = 1..(Len(s) + 1)
      /\ t[1] = r /\ \A k \in 1..Len(s) : t[k + 1] = s[k]
  BY PushedFront
<1>5. /\ u \in Seq(T) /\ DOMAIN u = 1..(n + 1)
      /\ u[1] = r /\ \A k \in 1..n : u[k + 1] = h[k]
  BY <1>3, PushedFront
<1>6. Ranked(S) /\ S \in SUBSET Nat /\ \A i \in S : i \in 1..Len(s)
  BY <1>2, <1>4, PlacesAreFinite
<1> HIDE DEF n, t, u
<1>7. ASSUME NEW k \in 1..(n + 1), k # 1
      PROVE  k - 1 \in 1..n /\ (k - 1) + 1 = k /\ Nth(S, k - 1) \in S /\ g[k] = Nth(S, k - 1) + 1
  <2>1. k - 1 \in 1..n /\ (k - 1) + 1 = k
    BY <1>3, <1>7
  <2>2. QED
    BY <1>3, <1>7, <2>1
<1>8. 1 \in 1..(n + 1) /\ g[1] = 1
  BY <1>3
<1>9. Moves(g, DOMAIN u, D)
  <2>1. ASSUME NEW k \in 1..(n + 1) PROVE g[k] \in D
    BY <1>7, <1>8
  <2>2. ASSUME NEW j \in 1..(n + 1), NEW k \in 1..(n + 1), j < k PROVE g[j] < g[k]
    <3>1. k # 1 /\ j \in Nat /\ k \in Nat
      BY <1>3, <2>2
    <3>2. g[k] = Nth(S, k - 1) + 1 /\ Nth(S, k - 1) \in S /\ k - 1 \in 1..n
      BY <1>7, <3>1
    <3>3. Nth(S, k - 1) \in Nat /\ Nth(S, k - 1) >= 1
      <4>1. \A i \in S : i \in Nat /\ i >= 1
        BY <1>4, <1>6
      <4>2. QED
        BY <3>2, <4>1
    <3>4. CASE j = 1
      BY <1>8, <3>2, <3>3, <3>4
    <3>5. CASE j # 1
      <4>1. g[j] = Nth(S, j - 1) + 1 /\ Nth(S, j - 1) \in S /\ j - 1 \in 1..n
        BY <1>7, <3>5
      <4>2. Rank(S, Nth(S, j - 1)) = j - 1 /\ Rank(S, Nth(S, k - 1)) = k - 1
        BY <1>6, <3>2, <4>1 DEF Ranked, n
      <4>3. Nth(S, j - 1) \in Nat
        BY <1>6, <4>1
      <4>4. j - 1 < k - 1 /\ j - 1 # k - 1 /\ ~(k - 1 < j - 1)
        BY <2>2, <3>1
      <4>5. Nth(S, j - 1) # Nth(S, k - 1)
        BY <4>2, <4>4
      <4>6. ~(Nth(S, k - 1) < Nth(S, j - 1))
        <5>1. Nth(S, k - 1) < Nth(S, j - 1) => Rank(S, Nth(S, k - 1)) < Rank(S, Nth(S, j - 1))
          BY <1>6, <3>2, <4>1 DEF Ranked
        <5>2. QED
          BY <4>2, <4>4, <5>1
      <4>7. Nth(S, j - 1) < Nth(S, k - 1)
        BY <3>3, <4>3, <4>5, <4>6
      <4>8. QED
        BY <3>2, <3>3, <4>1, <4>3, <4>7
    <3>6. QED
      BY <3>4, <3>5
  <2>3. ASSUME NEW d \in D PROVE \E k \in 1..(n + 1) : g[k] = d
    <3>1. CASE d = 1
      BY <1>8, <3>1
    <3>2. ASSUME NEW i \in S, d = i + 1 PROVE \E k \in 1..(n + 1) : g[k] = d
      <4>1. Rank(S, i) \in 1..n
        BY <1>6 DEF Ranked, n
      <4>2. Nth(S, Rank(S, i)) = i
        <5>1. Nth(S, Rank(S, i)) \in S /\ Rank(S, Nth(S, Rank(S, i))) = Rank(S, i)
          BY <1>6, <4>1 DEF Ranked, n
        <5>2. QED
          BY <1>6, <5>1 DEF Ranked
      <4>3. Rank(S, i) + 1 \in 1..(n + 1) /\ Rank(S, i) + 1 # 1 /\ (Rank(S, i) + 1) - 1 = Rank(S, i)
        BY <1>3, <4>1
      <4>4. g[Rank(S, i) + 1] = i + 1
        BY <4>2, <4>3
      <4>5. QED
        BY <3>2, <4>3, <4>4
    <3>3. QED
      BY <3>1, <3>2
  <2> HIDE DEF g, D
  <2>4. QED
    BY <1>5, <2>1, <2>2, <2>3 DEF Moves
<1>10. \A k \in DOMAIN u : u[k] = t[g[k]]
  <2> TAKE k \in DOMAIN u
  <2>1. k \in 1..(n + 1)
    BY <1>5
  <2>2. CASE k = 1
    BY <1>4, <1>5, <1>8, <2>2
  <2>3. CASE k # 1
    <3>1. k - 1 \in 1..n /\ (k - 1) + 1 = k /\ Nth(S, k - 1) \in S /\ g[k] = Nth(S, k - 1) + 1
      BY <1>7, <2>1, <2>3
    <3> HIDE DEF g
    <3>2. u[k] = h[k - 1]
      <4>1. u[(k - 1) + 1] = h[k - 1]
        BY <1>5, <3>1
      <4>2. QED
        BY <3>1, <4>1
    <3>3. h[k - 1] = s[Nth(S, k - 1)]
      BY <1>3, <3>1
    <3>4. t[Nth(S, k - 1) + 1] = s[Nth(S, k - 1)]
      BY <1>4, <1>6, <3>1
    <3>5. QED
      BY <3>1, <3>2, <3>3, <3>4
  <2>4. QED
    BY <2>2, <2>3
<1>11. D \in SUBSET DOMAIN t
  BY <1>4, <1>6
<1>12. ASSUME NEW d \in D, NEW i \in 1..d, t[i].source = t[d].source \/ i \in KeptPlaces(t)
       PROVE  i \in D
  <2>1. CASE i = 1
    BY <2>1
  <2>2. CASE i # 1
    <3>1. d \in Nat /\ i \in Nat /\ i >= 2 /\ i <= d /\ d <= Len(s) + 1
      BY <1>4, <1>11, <2>2
    <3>2. PICK j \in S : d = j + 1
      BY <3>1
    <3>3. i - 1 \in 1..Len(s) /\ (i - 1) + 1 = i /\ i - 1 <= j /\ j \in 1..Len(s)
      BY <1>4, <1>6, <3>1, <3>2
    <3>4. t[i] = s[i - 1] /\ t[d] = s[j]
      <4>1. t[(i - 1) + 1] = s[i - 1] /\ t[j + 1] = s[j]
        BY <1>4, <3>3
      <4>2. QED
        BY <3>2, <3>3, <4>1
    <3>5. s[i - 1].source = s[j].source \/ i - 1 \in KeptPlaces(s)
      <4>1. CASE t[i].source = t[d].source
        BY <3>4, <4>1
      <4>2. CASE i \in KeptPlaces(t)
        <5>1. (i - 1) + 1 \in KeptPlaces(<<r>> \o s) /\ i - 1 \in DOMAIN s
          BY <1>4, <3>3, <4>2 DEF t
        <5>2. QED
          BY <5>1, KeptShifts
      <4>3. QED
        BY <1>12, <4>1, <4>2
    <3>6. i - 1 \in S
      <4>1. j \in LastingPlaces(s) /\ i - 1 \in DOMAIN s
        BY <1>4, <3>3 DEF S
      <4>2. QED
        BY <3>3, <3>5, <4>1, EarlierLasts DEF S
    <3>7. QED
      BY <3>3, <3>6
  <2>3. QED
    BY <2>1, <2>2
<1>13. ASSUME NEW i \in LastingPlaces(t) PROVE i \in D
  <2>1. i \in KeptPlaces(t) /\ Rank(KeptPlaces(t), i) <= Total /\ i \in DOMAIN t /\ KeptPlaces(t) \in SUBSET DOMAIN t
    BY DEF LastingPlaces, KeptPlaces
  <2>2. CASE i = 1
    BY <2>2
  <2>3. CASE i # 1
    <3>1. i - 1 \in DOMAIN s /\ (i - 1) + 1 = i
      BY <1>4, <2>1, <2>3
    <3>2. (i - 1) + 1 \in KeptPlaces(<<r>> \o s)
      BY <2>1, <3>1 DEF t
    <3>3. i - 1 \in KeptPlaces(s) /\ Rank(KeptPlaces(s), i - 1) <= Rank(KeptPlaces(t), i)
      <4>1. /\ i - 1 \in KeptPlaces(s)
            /\ Rank(KeptPlaces(s), i - 1) <= Rank(KeptPlaces(<<r>> \o s), (i - 1) + 1)
        BY <3>1, <3>2, KeptShifts
      <4>2. QED
        BY <3>1, <4>1 DEF t
    <3>4. Rank(KeptPlaces(s), i - 1) \in Nat /\ Rank(KeptPlaces(t), i) \in Nat
      <4>1. Ranked(KeptPlaces(s)) /\ Ranked(KeptPlaces(t))
        BY <1>2, <1>4, <2>1, PlacesAreFinite
      <4>2. QED
        BY <2>1, <3>3, <4>1 DEF Ranked
    <3>5. Total \in Nat
      BY HistoriesHaveRoom
    <3>6. Rank(KeptPlaces(s), i - 1) <= Total
      BY <2>1, <3>3, <3>4, <3>5
    <3>7. i - 1 \in S
      BY <3>3, <3>6 DEF S, LastingPlaces
    <3>8. QED
      BY <3>1, <3>7
  <2>4. QED
    BY <2>2, <2>3
<1> HIDE DEF g, D
<1>14. Suffices(g, D, u, t)
  BY <1>9, <1>10, <1>11, <1>12, <1>13 DEF Suffices
<1>15. Y!Retained(u) = Y!Retained(t)
  BY <1>4, <1>5, <1>14, SameRetained
<1>16. QED
  BY <1>1, <1>15 DEF t, u

-----------------------------------------------------------------------------
(* The player's page (player/src/App.jsx). *)

\* What is shown, and what the pending transition is about to show.
ShownFits ==
  /\ source \in Y!Sources \cup {None} /\ next \in Y!Sources \cup {None} /\ loads \in SUBSET Repos
  /\ expects \in BOOLEAN

\* What was asked to play. As long as a demo is expected, the request for it is still on its way,
\* and when it is there the run is the one it has started.
AskedFits ==
  /\ wanted = None \/ wanted \in [scenario : Golden, id : 1..MaxLoads]
  /\ wanted # None => wanted.id <= yAsked /\ started < wanted.id
  /\ wanted # None /\ yRequest # None => yRequest < wanted.id
  /\ yRequest = None \/ yRequest \in 1..MaxLoads
  /\ yRequest # None => yRequest <= yAsked
  /\ started \in Nat /\ started <= yAsked /\ yAsked \in Nat /\ yAsked <= MaxLoads
Expecting ==
  expects =>
    \/ next # None /\ wanted # None /\ next = wanted.scenario /\ source # wanted.scenario
    \/ next = None /\ wanted # None
    \/ /\ next = None /\ wanted = None /\ yRequest # None
       /\ started # yRequest \/ run.status \in {"running", "complete"}

IdsOf(s) == {n.id : n \in Y!NotesOf(s)}
RunsOf(s) ==
  [token : 1..MaxRunTokens, status : {"idle", "running", "paused", "complete"}, beat : Nat,
   done : SUBSET IdsOf(s), hits : Nat, misses : Nat, combo : Nat, best : Nat]

\* The run of the chart: every note is counted once, and the last beat judges all that are left.
PlayFits ==
  /\ mode \in {"manual", "auto"} /\ run \in RunsOf(source)
  /\ tokens \in 1..MaxRunTokens /\ run.token <= tokens /\ reported \in 0..MaxRunTokens
CountsFit ==
  /\ run.combo <= run.hits /\ run.best <= run.hits
  /\ Y!Distinct(source) => run.hits + run.misses = Cardinality(run.done)
  /\ run.status = "complete" => Cardinality(run.done) >= Cardinality(Y!NotesOf(source))
  /\ Y!Distinct(source) /\ run.status \in {"running", "paused"} /\ Y!NotesOf(source) # {} =>
       run.beat < Y!TotalBeats(source)

\* The history is what is kept of all the runs that were reported, if each has a record of its own.
PlayRecords == [source : Y!Sources, token : Nat]
AllDiffer(s) == \A i, j \in 1..Len(s) : s[i] = s[j] => i = j
HistoryFits ==
  /\ history \in Seq(PlayRecords) /\ finished \in Seq(PlayRecords) /\ Len(history) <= Total
  /\ AllDiffer(finished) => history = Y!Retained(finished)

SessionInvariant == ShownFits /\ AskedFits /\ Expecting /\ PlayFits /\ CountsFit /\ HistoryFits

LEMMA ImageIsFinite ==
  ASSUME NEW S, IsFiniteSet(S), NEW U, NEW g, \A x \in S : g[x] \in U, \A y \in U : \E x \in S : g[x] = y
  PROVE  IsFiniteSet(U)
<1> DEFINE f == [x \in S |-> g[x]]
<1>1. f \in Surjection(S, U)
  BY DEF Surjection
<1> HIDE DEF f
<1>2. QED
  BY <1>1, FS_Surjection

LEMMA NotesAreFew ==
  ASSUME NEW s \in Y!Sources \cup {None}
  PROVE  /\ IsFiniteSet(Y!NotesOf(s)) /\ IsFiniteSet(IdsOf(s))
         /\ \A n \in Y!NotesOf(s) : n.beat \in Nat /\ n.length \in Nat /\ n.length > 40
         /\ Y!Distinct(s) => Cardinality(IdsOf(s)) = Cardinality(Y!NotesOf(s))
<1>1. Y!NotesOf(s) = {} \/ (s \in Golden \cup Repos /\ Y!NotesOf(s) = Notes[s])
  BY DEF Y!NotesOf, Y!Sources
<1>2. IsFiniteSet({})
  BY FS_EmptySet
<1>3. /\ IsFiniteSet(Y!NotesOf(s))
      /\ \A n \in Y!NotesOf(s) : n.beat \in Nat /\ n.length \in Nat /\ n.length > 40
  <2>1. CASE Y!NotesOf(s) = {}
    BY <1>2, <2>1
  <2>2. CASE s \in Golden \cup Repos /\ Y!NotesOf(s) = Notes[s]
    BY <2>2, ChartsHaveNotes
  <2>3. QED
    BY <1>1, <2>1, <2>2
<1> DEFINE S == Y!NotesOf(s)
<1>4. IdsOf(s) = {n.id : n \in S}
  BY DEF IdsOf
<1>5. Y!Distinct(s) => \A m, n \in S : m.id = n.id => m = n
  BY DEF Y!Distinct
<1> HIDE DEF S
<1>6. IsFiniteSet(S)
  BY <1>3 DEF S
<1>7. IsFiniteSet(IdsOf(s))
  <2> DEFINE g == [n \in S |-> n.id]
  <2>1. \A n \in S : g[n] \in IdsOf(s)
    BY <1>4
  <2>2. \A i \in IdsOf(s) : \E n \in S : g[n] = i
    BY <1>4
  <2> HIDE DEF g
  <2>3. QED
    BY <1>6, <2>1, <2>2, ImageIsFinite
<1>8. ASSUME Y!Distinct(s) PROVE Cardinality(IdsOf(s)) = Cardinality(S)
  <2> DEFINE g == [n \in S |-> n.id]
  <2>1. \A n \in S : g[n] \in IdsOf(s)
    BY <1>4
  <2>2. \A m, n \in S : g[m] = g[n] => m = n
    BY <1>5, <1>8
  <2>3. \A i \in IdsOf(s) : \E n \in S : g[n] = i
    BY <1>4
  <2> HIDE DEF g
  <2>4. QED
    BY <1>6, <2>1, <2>2, <2>3, SameSize
<1>9. QED
  BY <1>3, <1>7, <1>8 DEF S

LEMMA BeatsEnd ==
  ASSUME NEW s \in Y!Sources \cup {None}
  PROVE  /\ Y!TotalBeats(s) \in Nat
         /\ \A n \in Y!NotesOf(s) : n.beat + n.length <= Y!TotalBeats(s)
         /\ Y!NotesOf(s) # {} => Y!TotalBeats(s) > 40
<1> DEFINE N == Y!NotesOf(s)
           S == {n.beat + n.length : n \in N}
           M == S \cup {0}
<1>1. IsFiniteSet(N) /\ \A n \in N : n.beat \in Nat /\ n.length \in Nat /\ n.length > 40
  BY NotesAreFew
<1>2. Y!TotalBeats(s) = Y!Max0(S)
  BY DEF Y!TotalBeats
<1> HIDE DEF N
<1>3. \A x \in S : x \in Nat /\ x > 40
  BY <1>1
<1>4. IsFiniteSet(S)
  <2> DEFINE g == [n \in N |-> n.beat + n.length]
  <2>1. \A n \in N : g[n] \in S
    OBVIOUS
  <2>2. \A i \in S : \E n \in N : g[n] = i
    OBVIOUS
  <2> HIDE DEF g, S
  <2>3. QED
    BY <1>1, <2>1, <2>2, ImageIsFinite
<1>5. \A n \in N : n.beat + n.length \in S
  OBVIOUS
<1>6. N # {} => S # {}
  OBVIOUS
<1> HIDE DEF S
<1>7. IsFiniteSet(M)
  BY <1>4, FS_AddElement
<1>8. M \in SUBSET Nat /\ M # {} /\ S \in SUBSET M
  BY <1>3
<1> HIDE DEF M
<1>9. PICK m \in M : \A n \in M : m >= n
  BY <1>7, <1>8, GreatestNumber
<1>10. \A n \in S : n <= m
  BY <1>8, <1>9
<1>11. Y!Max0(S) \in M /\ \A n \in S : n <= Y!Max0(S)
  BY <1>9, <1>10 DEF Y!Max0, M
<1>12. Y!TotalBeats(s) \in Nat /\ \A x \in S : x <= Y!TotalBeats(s)
  BY <1>2, <1>8, <1>11
<1>13. N # {} => Y!TotalBeats(s) > 40
  BY <1>3, <1>6, <1>12
<1>14. QED
  BY <1>5, <1>12, <1>13 DEF N

LEMMA SessionBegins == Y!Init => SessionInvariant
<1> SUFFICES ASSUME Y!Init PROVE SessionInvariant
  OBVIOUS
<1>0. /\ source = None /\ next = None /\ loads = {} /\ wanted = None /\ yRequest = None
      /\ mode = "manual" /\ run = Y!EmptyRun(1, "idle") /\ reported = 0 /\ started = 0 /\ tokens = 1
      /\ history = <<>> /\ finished = <<>> /\ expects = FALSE /\ yAsked = 0
  BY DEF Y!Init
<1>1. MaxRunTokens \in Nat /\ MaxRunTokens >= 1 /\ MaxLoads \in Nat /\ Total \in Nat /\ Total >= 1
  BY HistoriesHaveRoom
<1>2. ShownFits
  BY <1>0, <1>1 DEF ShownFits
<1>3. AskedFits
  <2>1. wanted = None /\ yRequest = None /\ started = 0 /\ yAsked = 0
    BY <1>0
  <2>2. QED
    BY <1>1, <2>1 DEF AskedFits
<1>4. Expecting
  BY <1>0 DEF Expecting
<1>5. run \in RunsOf(source) /\ run.token = 1 /\ run.status = "idle" /\ run.done = {} /\ run.combo = 0
      /\ run.best = 0 /\ run.hits = 0 /\ run.misses = 0
  BY <1>0, <1>1 DEF RunsOf, Y!EmptyRun
<1>6. PlayFits
  BY <1>0, <1>1, <1>5 DEF PlayFits
<1>7. CountsFit
  <2>1. Cardinality({}) = 0
    BY FS_EmptySet
  <2>2. QED
    BY <1>5, <2>1 DEF CountsFit
<1>8. HistoryFits
  <2>1. <<>> \in Seq(PlayRecords) /\ Len(<<>>) = 0
    OBVIOUS
  <2>2. Y!Retained(<<>>) \in Seq(PlayRecords)
        /\ \A k \in 1..Len(Y!Retained(<<>>)) : \E i \in DOMAIN <<>> : Y!Retained(<<>>)[k] = <<>>[i]
    BY <2>1, RetainedIsSome
  <2>3. Y!Retained(<<>>) = <<>>
    <3>1. DOMAIN <<>> = {}
      OBVIOUS
    <3> DEFINE h == Y!Retained(<<>>)
    <3>2. h \in Seq(PlayRecords) /\ \A k \in 1..Len(h) : FALSE
      BY <2>2, <3>1
    <3> HIDE DEF h
    <3>3. Len(h) \in Nat
      BY <3>2, LenProperties
    <3>4. Len(h) = 0
      BY <3>2, <3>3
    <3>5. h = <<>>
      BY <3>2, <3>4, EmptySeq
    <3>6. QED
      BY <3>5 DEF h
  <2>4. QED
    BY <1>0, <1>1, <2>1, <2>3 DEF HistoryFits
<1>9. QED
  BY <1>2, <1>3, <1>4, <1>6, <1>7, <1>8 DEF SessionInvariant

LEMMA ShownStays ==
  ASSUME ShownFits, Y!Next
  PROVE  ShownFits'
<1>1. ASSUME NEW s \in Repos, Y!Load(s) PROVE ShownFits'
  BY <1>1 DEF Y!Load, ShownFits, Y!Sources, Y!panel, Y!store
<1>2. ASSUME NEW s \in Repos, Y!LoadAnswered(s) PROVE ShownFits'
  BY <1>2 DEF Y!LoadAnswered, ShownFits, Y!Sources, Y!panel, Y!store
<1>3. ASSUME NEW s \in Repos, Y!LoadFails(s) PROVE ShownFits'
  BY <1>3 DEF Y!LoadFails, ShownFits, Y!Sources, Y!panel, Y!store
<1>4. ASSUME NEW s \in Golden, Y!Autoplay(s) PROVE ShownFits'
  <2>1. next' = s /\ UNCHANGED <<source, loads>> /\ expects' = (source # s)
    BY <1>4 DEF Y!Autoplay
  <2>2. QED
    BY <2>1 DEF ShownFits, Y!Sources
<1>5. CASE Y!Commit
  BY <1>5 DEF Y!Commit, ShownFits, Y!Sources, Y!panel, Y!store, Y!Resets
<1>6. CASE Y!RequestMatches
  BY <1>6 DEF Y!RequestMatches, ShownFits, Y!Sources, Y!panel, Y!store
<1>7. CASE Y!RunRequested
  BY <1>7 DEF Y!RunRequested, ShownFits, Y!Sources, Y!panel, Y!store, Y!Resets
<1>8. CASE Y!Start
  BY <1>8 DEF Y!Start, ShownFits, Y!Sources, Y!panel, Y!store, Y!Resets
<1>9. CASE Y!Pause
  BY <1>9 DEF Y!Pause, ShownFits, Y!Sources, Y!panel, Y!store
<1>10. CASE Y!ResetRun
  BY <1>10 DEF Y!ResetRun, ShownFits, Y!Sources, Y!panel, Y!store, Y!Resets
<1>11. CASE Y!Tick
  BY <1>11 DEF Y!Tick, ShownFits, Y!Sources, Y!panel, Y!store
<1>12. CASE Y!Report
  BY <1>12 DEF Y!Report, ShownFits, Y!Sources, Y!panel, Y!store
<1>13. CASE Y!Reload
  BY <1>13 DEF Y!Reload, ShownFits, Y!Sources, Y!panel, Y!store
<1>14. ASSUME NEW lane, Y!Hit(lane) PROVE ShownFits'
  BY <1>14 DEF Y!Hit, ShownFits, Y!Sources, Y!panel, Y!store
<1>15. QED
  BY <1>1, <1>2, <1>3, <1>4, <1>5, <1>6, <1>7, <1>8, <1>9, <1>10, <1>11, <1>12, <1>13, <1>14 DEF Y!Next

LEMMA AskedStays ==
  ASSUME ShownFits, AskedFits, Y!Next
  PROVE  AskedFits'
<1>1. ASSUME NEW s \in Repos, Y!Load(s) PROVE AskedFits'
  <2>1. yAsked < MaxLoads /\ yAsked' = yAsked + 1 /\ UNCHANGED <<wanted, yRequest, started>>
    BY <1>1 DEF Y!Load, Y!panel
  <2>2. MaxLoads \in Nat /\ yAsked \in Nat /\ yAsked' <= MaxLoads
    BY <2>1, HistoriesHaveRoom DEF AskedFits
  <2>3. wanted # None => wanted.id \in Nat
    BY DEF AskedFits
  <2>4. QED
    BY <2>1, <2>2, <2>3 DEF AskedFits
<1>2. ASSUME NEW s \in Repos, Y!LoadAnswered(s) PROVE AskedFits'
  BY <1>2 DEF Y!LoadAnswered, AskedFits, Y!panel, Y!store
<1>3. ASSUME NEW s \in Repos, Y!LoadFails(s) PROVE AskedFits'
  BY <1>3 DEF Y!LoadFails, AskedFits, Y!panel, Y!store
<1>4. ASSUME NEW s \in Golden, Y!Autoplay(s) PROVE AskedFits'
  <2>1. /\ yAsked < MaxLoads /\ yAsked' = yAsked + 1 /\ wanted' = [scenario |-> s, id |-> yAsked + 1]
        /\ UNCHANGED <<yRequest, started>>
    BY <1>4 DEF Y!Autoplay, Y!panel
  <2>2. MaxLoads \in Nat
    BY HistoriesHaveRoom
  <2>3. wanted' \in [scenario : Golden, id : 1..MaxLoads] /\ wanted'.id = yAsked + 1
    BY <2>1, <2>2 DEF AskedFits
  <2>4. (yRequest # None => yRequest \in Nat /\ yRequest <= yAsked) /\ started \in Nat /\ started <= yAsked /\ yAsked \in Nat
    BY DEF AskedFits
  <2>5. QED
    BY <2>1, <2>2, <2>3, <2>4 DEF AskedFits
<1>5. CASE Y!Commit
  BY <1>5 DEF Y!Commit, AskedFits, Y!panel, Y!store, Y!Resets
<1>6. CASE Y!RequestMatches
  <2>1. wanted # None /\ yRequest' = wanted.id /\ wanted' = None /\ UNCHANGED <<started, yAsked>>
    BY <1>6 DEF Y!RequestMatches, Y!panel
  <2>2. wanted.id \in 1..MaxLoads /\ wanted.id <= yAsked
    BY <2>1 DEF AskedFits
  <2>3. QED
    BY <2>1, <2>2 DEF AskedFits
<1>7. CASE Y!RunRequested
  <2>1. yRequest # None /\ started' = yRequest /\ UNCHANGED <<wanted, yRequest, yAsked>>
    BY <1>7 DEF Y!RunRequested
  <2>2. QED
    BY <2>1 DEF AskedFits
<1>8. CASE Y!Start
  BY <1>8 DEF Y!Start, AskedFits, Y!panel, Y!store, Y!Resets
<1>9. CASE Y!Pause
  BY <1>9 DEF Y!Pause, AskedFits, Y!panel, Y!store
<1>10. CASE Y!ResetRun
  BY <1>10 DEF Y!ResetRun, AskedFits, Y!panel, Y!store, Y!Resets
<1>11. CASE Y!Tick
  BY <1>11 DEF Y!Tick, AskedFits, Y!panel, Y!store
<1>12. CASE Y!Report
  BY <1>12 DEF Y!Report, AskedFits, Y!panel, Y!store
<1>13. CASE Y!Reload
  <2>1. yRequest' = None /\ wanted' = None /\ started' = 0 /\ yAsked' = yAsked
    BY <1>13 DEF Y!Reload
  <2>2. QED
    BY <2>1 DEF AskedFits
<1>14. ASSUME NEW lane, Y!Hit(lane) PROVE AskedFits'
  BY <1>14 DEF Y!Hit, AskedFits, Y!panel, Y!store
<1>15. QED
  BY <1>1, <1>2, <1>3, <1>4, <1>5, <1>6, <1>7, <1>8, <1>9, <1>10, <1>11, <1>12, <1>13, <1>14 DEF Y!Next

LEMMA ExpectingStays ==
  ASSUME ShownFits, AskedFits, Expecting, run \in RunsOf(source), Y!Next
  PROVE  Expecting'
<1>1. ASSUME NEW s \in Repos, Y!Load(s) PROVE Expecting'
  BY <1>1 DEF Y!Load, Expecting, Y!panel, Y!store
<1>2. ASSUME NEW s \in Repos, Y!LoadAnswered(s) PROVE Expecting'
  BY <1>2 DEF Y!LoadAnswered, Expecting, Y!panel, Y!store
<1>3. ASSUME NEW s \in Repos, Y!LoadFails(s) PROVE Expecting'
  BY <1>3 DEF Y!LoadFails, Expecting, Y!panel, Y!store
<1>4. ASSUME NEW s \in Golden, Y!Autoplay(s) PROVE Expecting'
  <2>1. next' = s /\ wanted' = [scenario |-> s, id |-> yAsked + 1] /\ source' = source /\ expects' = (source # s)
        /\ yAsked' = yAsked + 1 /\ yAsked < MaxLoads
    BY <1>4 DEF Y!Autoplay
  <2>2. yAsked + 1 \in 1..MaxLoads
    BY <2>1, HistoriesHaveRoom DEF AskedFits
  <2>3. wanted' # None /\ next' # None
    BY <2>1, <2>2, NoneIsNoSource
  <2>4. wanted'.scenario = s
    BY <2>1
  <2>5. QED
    BY <2>1, <2>3, <2>4 DEF Expecting
<1>5. CASE Y!Commit
  <2>1. next # None /\ next' = None /\ UNCHANGED <<wanted, expects>>
    BY <1>5 DEF Y!Commit
  <2>2. QED
    BY <2>1 DEF Expecting
<1>6. CASE Y!RequestMatches
  <2>1. /\ wanted # None /\ source = wanted.scenario /\ yRequest' = wanted.id /\ wanted' = None
        /\ UNCHANGED <<next, source, started, run, expects>>
    BY <1>6 DEF Y!RequestMatches, Y!panel
  <2>2. wanted.id \in 1..MaxLoads /\ started < wanted.id /\ started \in Nat
    BY <2>1 DEF AskedFits
  <2>3. wanted.id # None /\ started # wanted.id
    BY <2>2, NoneIsNowhere
  <2>4. QED
    BY <2>1, <2>3 DEF Expecting
<1>7. CASE Y!RunRequested
  <2>1. run' = Y!EmptyRun(tokens + 1, "running") /\ UNCHANGED <<source, next, wanted, yRequest, expects>>
    BY <1>7 DEF Y!RunRequested, Y!Resets
  <2>2. run'.status = "running"
    BY <2>1 DEF Y!EmptyRun
  <2>3. QED
    BY <2>1, <2>2 DEF Expecting
<1>8. CASE Y!Start
  BY <1>8 DEF Y!Start, Expecting, Y!panel, Y!store, Y!Resets
<1>9. CASE Y!Pause
  BY <1>9 DEF Y!Pause, Expecting, Y!panel, Y!store
<1>10. CASE Y!ResetRun
  BY <1>10 DEF Y!ResetRun, Expecting, Y!panel, Y!store, Y!Resets
<1>11. CASE Y!Tick
  <2>1. UNCHANGED <<source, next, wanted, yRequest, started, expects>>
    BY <1>11 DEF Y!Tick
  <2>2. run'.status \in {"running", "complete"}
    BY <1>11 DEF Y!Tick, Y!Completed, RunsOf
  <2>3. QED
    BY <2>1, <2>2 DEF Expecting
<1>12. CASE Y!Report
  BY <1>12 DEF Y!Report, Expecting, Y!panel, Y!store
<1>13. CASE Y!Reload
  BY <1>13 DEF Y!Reload, Expecting, Y!panel, Y!store
<1>14. ASSUME NEW lane, Y!Hit(lane) PROVE Expecting'
  BY <1>14 DEF Y!Hit, Expecting, Y!panel, Y!store
<1>15. QED
  BY <1>1, <1>2, <1>3, <1>4, <1>5, <1>6, <1>7, <1>8, <1>9, <1>10, <1>11, <1>12, <1>13, <1>14 DEF Y!Next

LEMMA AllDifferOfMore ==
  ASSUME NEW s \in Seq(PlayRecords), NEW r \in PlayRecords, AllDiffer(<<r>> \o s)
  PROVE  AllDiffer(s) /\ \A i \in DOMAIN s : s[i] # r
<1> DEFINE t == <<r>> \o s
<1>1. /\ Len(s) \in Nat /\ Len(t) = Len(s) + 1 /\ DOMAIN s = 1..Len(s)
      /\ t[1] = r /\ \A k \in 1..Len(s) : t[k + 1] = s[k]
  BY PushedFront
<1>2. \A i, j \in 1..Len(t) : t[i] = t[j] => i = j
  BY DEF AllDiffer
<1> HIDE DEF t
<1>3. \A k \in 1..Len(s) : k \in Nat /\ k >= 1 /\ k + 1 \in 1..Len(t) /\ 1 \in 1..Len(t) /\ k + 1 # 1
  BY <1>1
<1>4. \A i \in 1..Len(s) : s[i] # r
  BY <1>1, <1>2, <1>3
<1>5. ASSUME NEW i \in 1..Len(s), NEW j \in 1..Len(s), s[i] = s[j] PROVE i = j
  <2>1. t[i + 1] = t[j + 1]
    BY <1>1, <1>5
  <2>2. i + 1 = j + 1 /\ i \in Nat /\ j \in Nat
    BY <1>2, <1>3, <2>1
  <2>3. QED
    BY <2>2
<1>6. QED
  BY <1>1, <1>4, <1>5 DEF AllDiffer

LEMMA HistoryGrows ==
  ASSUME HistoryFits, NEW r \in PlayRecords,
         history' = Y!Appended(history, r), finished' = <<r>> \o finished
  PROVE  HistoryFits'
<1> DEFINE S == {i \in DOMAIN history : history[i] # r}
           h == Picked(history, S)
<1>1. history' = Y!Retained(<<r>> \o h)
  BY SessionPicks DEF Y!Appended
<1>2. history \in Seq(PlayRecords) /\ finished \in Seq(PlayRecords)
  BY DEF HistoryFits
<1>3. h \in Seq(PlayRecords)
  <2>1. S \in SUBSET DOMAIN history
    OBVIOUS
  <2>2. QED
    BY <1>2, <2>1, PickedIsSome
<1>4. <<r>> \o h \in Seq(PlayRecords) /\ <<r>> \o finished \in Seq(PlayRecords)
  BY <1>2, <1>3, PushedFront
<1>5. history' \in Seq(PlayRecords) /\ Len(history') <= Total
  BY <1>1, <1>4, RetainedIsSome
<1>6. ASSUME AllDiffer(finished') PROVE history' = Y!Retained(finished')
  <2>1. AllDiffer(finished) /\ \A i \in DOMAIN finished : finished[i] # r
    BY <1>2, <1>6, AllDifferOfMore
  <2>2. history = Y!Retained(finished)
    BY <2>1 DEF HistoryFits
  <2>3. \A k \in DOMAIN history : history[k] # r
    <3>1. \A k \in 1..Len(history) : \E i \in DOMAIN finished : history[k] = finished[i]
      BY <1>2, <2>2, RetainedIsSome
    <3>2. DOMAIN history = 1..Len(history)
      BY <1>2, LenProperties
    <3>3. QED
      BY <2>1, <3>1, <3>2
  <2>4. S = DOMAIN history
    BY <2>3
  <2>5. h = history
    BY <1>2, <2>4, PickedAll
  <2>6. Y!Retained(<<r>> \o Y!Retained(finished)) = Y!Retained(<<r>> \o finished)
    BY <1>2, RetainedAgain
  <2>7. QED
    BY <1>1, <2>2, <2>5, <2>6
<1>7. QED
  BY <1>4, <1>5, <1>6 DEF HistoryFits

LEMMA HistoryStays ==
  ASSUME ShownFits, PlayFits, HistoryFits, Y!Next
  PROVE  HistoryFits'
<1>1. ASSUME NEW s \in Repos, Y!Load(s) PROVE HistoryFits'
  BY <1>1 DEF Y!Load, HistoryFits, Y!panel, Y!store
<1>2. ASSUME NEW s \in Repos, Y!LoadAnswered(s) PROVE HistoryFits'
  BY <1>2 DEF Y!LoadAnswered, HistoryFits, Y!panel, Y!store
<1>3. ASSUME NEW s \in Repos, Y!LoadFails(s) PROVE HistoryFits'
  BY <1>3 DEF Y!LoadFails, HistoryFits, Y!panel, Y!store
<1>4. ASSUME NEW s \in Golden, Y!Autoplay(s) PROVE HistoryFits'
  BY <1>4 DEF Y!Autoplay, HistoryFits, Y!panel, Y!store
<1>5. CASE Y!Commit
  BY <1>5 DEF Y!Commit, HistoryFits, Y!panel, Y!store, Y!Resets
<1>6. CASE Y!RequestMatches
  BY <1>6 DEF Y!RequestMatches, HistoryFits, Y!panel, Y!store
<1>7. CASE Y!RunRequested
  BY <1>7 DEF Y!RunRequested, HistoryFits, Y!panel, Y!store, Y!Resets
<1>8. CASE Y!Start
  BY <1>8 DEF Y!Start, HistoryFits, Y!panel, Y!store, Y!Resets
<1>9. CASE Y!Pause
  BY <1>9 DEF Y!Pause, HistoryFits, Y!panel, Y!store
<1>10. CASE Y!ResetRun
  BY <1>10 DEF Y!ResetRun, HistoryFits, Y!panel, Y!store, Y!Resets
<1>11. CASE Y!Tick
  BY <1>11 DEF Y!Tick, HistoryFits, Y!panel, Y!store
<1>12. CASE Y!Report
  <2>1. CASE UNCHANGED <<history, finished>>
    BY <2>1 DEF HistoryFits
  <2>2. CASE history' = Y!Appended(history, Y!Record) /\ finished' = <<Y!Record>> \o finished
    <3>1. source \in Y!Sources /\ run.token \in Nat
      BY <1>12 DEF Y!Report, ShownFits, PlayFits, RunsOf
    <3>2. Y!Record \in PlayRecords
      BY <3>1 DEF Y!Record, PlayRecords
    <3>3. QED
      BY <2>2, <3>2, HistoryGrows
  <2>3. QED
    BY <1>12, <2>1, <2>2 DEF Y!Report
<1>13. CASE Y!Reload
  BY <1>13 DEF Y!Reload, HistoryFits, Y!panel, Y!store
<1>14. ASSUME NEW lane, Y!Hit(lane) PROVE HistoryFits'
  BY <1>14 DEF Y!Hit, HistoryFits, Y!panel, Y!store
<1>15. QED
  BY <1>1, <1>2, <1>3, <1>4, <1>5, <1>6, <1>7, <1>8, <1>9, <1>10, <1>11, <1>12, <1>13, <1>14 DEF Y!Next

LEMMA DoneGrows ==
  ASSUME NEW s \in Y!Sources \cup {None}, NEW done \in SUBSET IdsOf(s),
         NEW N \in SUBSET Y!NotesOf(s), \A n \in N : n.id \notin done
  PROVE  /\ IsFiniteSet(N) /\ Cardinality(N) \in Nat /\ Cardinality(done) \in Nat
         /\ done \cup {n.id : n \in N} \in SUBSET IdsOf(s)
         /\ Y!Distinct(s) =>
              Cardinality(done \cup {n.id : n \in N}) = Cardinality(done) + Cardinality(N)
<1> DEFINE M == {n.id : n \in N}
<1>1. IsFiniteSet(Y!NotesOf(s)) /\ IsFiniteSet(IdsOf(s))
  BY NotesAreFew
<1>2. IsFiniteSet(N) /\ IsFiniteSet(done)
  BY <1>1, FS_Subset
<1>3. Cardinality(N) \in Nat /\ Cardinality(done) \in Nat
  BY <1>2, FS_CardinalityType
<1>4. M \in SUBSET IdsOf(s) /\ done \cup M \in SUBSET IdsOf(s)
  BY DEF IdsOf
<1>5. done \cap M = {}
  OBVIOUS
<1>6. ASSUME Y!Distinct(s) PROVE Cardinality(done \cup M) = Cardinality(done) + Cardinality(N)
  <2> DEFINE g == [n \in N |-> n.id]
  <2>1. \A n \in N : g[n] \in M
    OBVIOUS
  <2>2. \A m, n \in N : g[m] = g[n] => m = n
    BY <1>6 DEF Y!Distinct
  <2>3. \A i \in M : \E n \in N : g[n] = i
    OBVIOUS
  <2> HIDE DEF g, M
  <2>4. IsFiniteSet(M) /\ Cardinality(M) = Cardinality(N)
    BY <1>2, <2>1, <2>2, <2>3, SameSize
  <2>5. Cardinality(done \cup M) = Cardinality(done) + Cardinality(M) - Cardinality(done \cap M)
    BY <1>2, <2>4, FS_Union
  <2>6. Cardinality(done \cap M) = 0
    BY <1>5, FS_EmptySet
  <2>7. QED
    BY <1>3, <2>4, <2>5, <2>6
<1>7. QED
  BY <1>2, <1>3, <1>4, <1>6

LEMMA JudgedCounts ==
  ASSUME ShownFits, PlayFits, CountsFit, source' = source, NEW N \in SUBSET Y!Undone, NEW h \in Nat,
         run' \in RunsOf(source), run'.done = run.done \cup {n.id : n \in N},
         run'.hits = run.hits + h, run'.misses = run.misses + (Cardinality(N) - h),
         run'.combo <= run'.hits, run'.best <= run'.hits, run'.status \in {"running", "complete"},
         run'.status = "complete" => Cardinality(run'.done) >= Cardinality(Y!NotesOf(source)),
         Y!Distinct(source) /\ run'.status = "running" => run'.beat < Y!TotalBeats(source)
  PROVE  CountsFit'
<1>1. source \in Y!Sources \cup {None} /\ run \in RunsOf(source)
  BY DEF ShownFits, PlayFits
<1>2. run.done \in SUBSET IdsOf(source) /\ run.hits \in Nat /\ run.misses \in Nat
  BY <1>1 DEF RunsOf
<1>3. N \in SUBSET Y!NotesOf(source) /\ \A n \in N : n.id \notin run.done
  BY DEF Y!Undone
<1>4. /\ Cardinality(N) \in Nat /\ Cardinality(run.done) \in Nat
      /\ Y!Distinct(source) => Cardinality(run'.done) = Cardinality(run.done) + Cardinality(N)
  BY <1>1, <1>2, <1>3, DoneGrows
<1>5. Y!Distinct(source) => run.hits + run.misses = Cardinality(run.done)
  BY DEF CountsFit
<1>6. Y!Distinct(source) => run'.hits + run'.misses = Cardinality(run'.done)
  <2> HAVE Y!Distinct(source)
  <2>1. Cardinality(run'.done) = (run.hits + run.misses) + Cardinality(N)
    BY <1>4, <1>5
  <2>2. (run.hits + h) + (run.misses + (Cardinality(N) - h)) = (run.hits + run.misses) + Cardinality(N)
    BY <1>2, <1>4
  <2>3. QED
    BY <2>1, <2>2
<1>7. /\ run'.combo <= run'.hits /\ run'.best <= run'.hits
      /\ Y!Distinct(source') => run'.hits + run'.misses = Cardinality(run'.done)
      /\ run'.status = "complete" => Cardinality(run'.done) >= Cardinality(Y!NotesOf(source'))
      /\ Y!Distinct(source') /\ run'.status \in {"running", "paused"} /\ Y!NotesOf(source') # {} =>
           run'.beat < Y!TotalBeats(source')
  BY <1>6
<1>8. QED
  BY <1>7 DEF CountsFit

LEMMA FreshRun ==
  ASSUME PlayFits, NEW status \in {"idle", "running"}, Y!Resets(status),
         source' \in Y!Sources \cup {None}, mode' \in {"manual", "auto"}, reported' = reported
  PROVE  PlayFits' /\ CountsFit'
<1>1. /\ tokens < MaxRunTokens /\ tokens' = tokens + 1 /\ tokens \in 1..MaxRunTokens
      /\ reported' \in 0..MaxRunTokens
  BY DEF Y!Resets, PlayFits
<1>2. MaxRunTokens \in Nat
  BY HistoriesHaveRoom
<1>3. tokens' \in 1..MaxRunTokens
  BY <1>1, <1>2
<1>4. run' = [token |-> tokens', status |-> status, beat |-> 0, done |-> {}, hits |-> 0, misses |-> 0,
              combo |-> 0, best |-> 0]
  BY <1>1 DEF Y!Resets, Y!EmptyRun
<1>5. run' \in RunsOf(source')
  BY <1>3, <1>4 DEF RunsOf
<1>6. run'.token = tokens'
  BY <1>4
<1>7. PlayFits'
  <2>1. run'.token <= tokens'
    BY <1>3, <1>6
  <2>2. QED
    BY <1>1, <1>3, <1>5, <2>1 DEF PlayFits
<1>8. Cardinality(run'.done) = 0
  BY <1>4, FS_EmptySet
<1>9. Y!NotesOf(source') # {} => 0 < Y!TotalBeats(source')
  BY BeatsEnd
<1>10. /\ run'.combo <= run'.hits /\ run'.best <= run'.hits
       /\ run'.hits + run'.misses = Cardinality(run'.done) /\ run'.status # "complete"
       /\ Y!NotesOf(source') # {} => run'.beat < Y!TotalBeats(source')
  BY <1>4, <1>8, <1>9
<1>11. CountsFit'
  BY <1>10 DEF CountsFit
<1>12. QED
  BY <1>7, <1>11

LEMMA SameRun ==
  ASSUME PlayFits, CountsFit, UNCHANGED <<source, mode, run, tokens>>, reported' \in 0..MaxRunTokens
  PROVE  PlayFits' /\ CountsFit'
<1>1. PlayFits'
  BY DEF PlayFits
<1>2. CountsFit'
  BY DEF CountsFit
<1>3. QED
  BY <1>1, <1>2

LEMMA StatusChanges ==
  ASSUME PlayFits, CountsFit, run.status \in {"running", "paused"}, NEW st \in {"running", "paused"},
         run' = [run EXCEPT !.status = st], UNCHANGED <<source, mode, tokens, reported>>
  PROVE  PlayFits' /\ CountsFit'
<1>1. run \in RunsOf(source) /\ run.token <= tokens
  BY DEF PlayFits
<1>2. /\ run' \in RunsOf(source) /\ run'.status = st /\ run'.token = run.token /\ run'.beat = run.beat
      /\ run'.done = run.done /\ run'.hits = run.hits /\ run'.misses = run.misses
      /\ run'.combo = run.combo /\ run'.best = run.best
  BY <1>1 DEF RunsOf
<1>3. PlayFits'
  BY <1>2 DEF PlayFits
<1>4. CountsFit'
  BY <1>2 DEF CountsFit
<1>5. QED
  BY <1>3, <1>4

LEMMA ComboIsLost ==
  ASSUME PlayFits, CountsFit, run' = [run EXCEPT !.combo = 0], UNCHANGED <<source, mode, tokens, reported>>
  PROVE  PlayFits' /\ CountsFit'
<1>1. run \in RunsOf(source) /\ run.token <= tokens
  BY DEF PlayFits
<1>2. /\ run' \in RunsOf(source) /\ run'.status = run.status /\ run'.token = run.token /\ run'.beat = run.beat
      /\ run'.done = run.done /\ run'.hits = run.hits /\ run'.misses = run.misses
      /\ run'.combo = 0 /\ run'.best = run.best /\ run.hits \in Nat
  BY <1>1 DEF RunsOf
<1>3. PlayFits'
  BY <1>2 DEF PlayFits
<1>4. run'.combo <= run'.hits
  BY <1>2
<1>5. CountsFit'
  BY <1>2, <1>4 DEF CountsFit
<1>6. QED
  BY <1>3, <1>5

LEMMA CompletedIs ==
  ASSUME NEW beat, NEW bar, NEW done
  PROVE  /\ Y!Completed(beat, bar, done) \in {"running", "complete"}
         /\ Y!Completed(beat, bar, done) = "complete" =>
              Cardinality(done) >= Cardinality(Y!NotesOf(source))
         /\ Y!Completed(beat, bar, done) = "running" =>
              ~ (beat >= bar /\ Cardinality(done) >= Cardinality(Y!NotesOf(source)))
<1>1. Y!Cardinality(done) = Cardinality(done) /\ Y!Cardinality(Y!NotesOf(source)) = Cardinality(Y!NotesOf(source))
  BY SessionCounts
<1>2. QED
  BY <1>1 DEF Y!Completed

Judged(x, done, hits, combo, best, st) ==
  [x EXCEPT !.done = done, !.hits = hits, !.combo = combo, !.best = best, !.status = st]

LEMMA JudgedFields ==
  ASSUME NEW s, NEW x \in RunsOf(s), NEW done \in SUBSET IdsOf(s), NEW hits \in Nat, NEW combo \in Nat,
         NEW best \in Nat, NEW st \in {"running", "complete"}, NEW y, y = Judged(x, done, hits, combo, best, st)
  PROVE  /\ y \in RunsOf(s) /\ y.token = x.token /\ y.beat = x.beat /\ y.done = done /\ y.hits = hits
         /\ y.misses = x.misses /\ y.combo = combo /\ y.best = best /\ y.status = st
BY DEF RunsOf, Judged

WithHit(n) ==
  [run EXCEPT !.done = run.done \cup {n.id}, !.hits = run.hits + 1, !.combo = run.combo + 1,
              !.best = IF run.combo + 1 > run.best THEN run.combo + 1 ELSE run.best,
              !.status = Y!Completed(run.beat, Y!TotalBeats(source) - Y!GoodWindow, run.done \cup {n.id})]

LEMMA NoteIsHit ==
  ASSUME ShownFits, PlayFits, CountsFit, run.status = "running", NEW lane, NEW n \in Y!Nearest(lane),
         UNCHANGED <<source, mode, tokens, reported>>,
         run' = WithHit(n)
  PROVE  PlayFits' /\ CountsFit'
<1>1. run \in RunsOf(source) /\ run.token <= tokens /\ source \in Y!Sources \cup {None}
  BY DEF PlayFits, ShownFits
<1>2. run.done \in SUBSET IdsOf(source) /\ run.combo \in Nat /\ run.best \in Nat /\ run.hits \in Nat /\ run.misses \in Nat
  BY <1>1 DEF RunsOf
<1> DEFINE N == {n}
           done == run.done \cup {n.id}
           best == IF run.combo + 1 > run.best THEN run.combo + 1 ELSE run.best
           st == Y!Completed(run.beat, Y!TotalBeats(source) - Y!GoodWindow, done)
<1>3. N \in SUBSET Y!Undone /\ n \in Y!NotesOf(source) /\ done = run.done \cup {m.id : m \in N}
  BY DEF Y!Nearest, Y!InReach, Y!Undone
<1>4. done \in SUBSET IdsOf(source)
  BY <1>2, <1>3 DEF IdsOf
<1>5. st \in {"running", "complete"} /\ (st = "complete" => Cardinality(done) >= Cardinality(Y!NotesOf(source)))
  BY CompletedIs
<1>6. run' = Judged(run, done, run.hits + 1, run.combo + 1, best, st)
  BY DEF WithHit, Judged
<1>7. best \in Nat /\ best <= run.hits + 1 /\ run.combo + 1 <= run.hits + 1
  BY <1>2 DEF CountsFit
<1> HIDE DEF done, best, st
<1>8. /\ run' \in RunsOf(source) /\ run'.token = run.token /\ run'.beat = run.beat /\ run'.done = done
      /\ run'.hits = run.hits + 1 /\ run'.misses = run.misses /\ run'.combo = run.combo + 1
      /\ run'.best = best /\ run'.status = st
  <2>1. run.hits + 1 \in Nat /\ run.combo + 1 \in Nat
    BY <1>2
  <2>2. QED
    BY <1>1, <1>4, <1>5, <1>6, <1>7, <2>1, JudgedFields
<1>9. PlayFits'
  BY <1>1, <1>8 DEF PlayFits
<1>10. Cardinality(N) = 1 /\ run'.misses = run.misses + (Cardinality(N) - 1)
  <2>1. Cardinality(N) = 1
    BY FS_Singleton
  <2>2. QED
    BY <1>2, <1>8, <2>1
<1>11. Y!Distinct(source) => run'.beat < Y!TotalBeats(source)
  BY <1>3, <1>8 DEF CountsFit
<1> HIDE DEF N
<1>12. CountsFit'
  BY <1>3, <1>5, <1>7, <1>8, <1>10, <1>11, JudgedCounts
<1>13. QED
  BY <1>9, <1>12

\* What is due at the last beat are all the notes that are left.
LEMMA DueFits ==
  ASSUME ShownFits, PlayFits, Y!NotesOf(source) # {}
  PROVE  /\ Y!Due \in SUBSET Y!Undone /\ Y!NextBeat \in Nat
         /\ Y!NextBeat < Y!TotalBeats(source) \/ (Y!NextBeat = Y!TotalBeats(source) /\ Y!Due = Y!Undone)
<1>1. source \in Y!Sources \cup {None} /\ run \in RunsOf(source) /\ run.beat \in Nat
  BY DEF ShownFits, PlayFits, RunsOf
<1>2. Y!TotalBeats(source) \in Nat /\ \A n \in Y!NotesOf(source) : n.beat + n.length <= Y!TotalBeats(source)
  BY <1>1, BeatsEnd
<1>3. \A n \in Y!NotesOf(source) : n.beat \in Nat /\ n.length \in Nat /\ n.length > 40
  BY <1>1, NotesAreFew
<1>4. Y!NextBeat = IF run.beat + 50 < Y!TotalBeats(source) THEN run.beat + 50 ELSE Y!TotalBeats(source)
  BY DEF Y!NextBeat, Y!BeatStep
<1>5. Y!NextBeat \in Nat /\ (Y!NextBeat < Y!TotalBeats(source) \/ Y!NextBeat = Y!TotalBeats(source))
  BY <1>1, <1>2, <1>4
<1>6. Y!Due \in SUBSET Y!Undone
  BY DEF Y!Due
<1>7. ASSUME Y!NextBeat = Y!TotalBeats(source), NEW n \in Y!Undone PROVE n \in Y!Due
  <2>1. n \in Y!NotesOf(source)
    BY DEF Y!Undone
  <2>2. n.beat \in Nat /\ n.length \in Nat /\ n.length > 40 /\ n.beat + n.length <= Y!TotalBeats(source)
    BY <1>2, <1>3, <2>1
  <2>3. n.beat <= Y!NextBeat /\ n.beat < Y!NextBeat - 40
    BY <1>2, <1>7, <2>2
  <2>4. QED
    BY <2>3 DEF Y!Due, Y!GoodWindow
<1>8. QED
  BY <1>5, <1>6, <1>7

LEMMA TickCounts ==
  ASSUME ShownFits, PlayFits, CountsFit, Y!Tick PROVE PlayFits' /\ CountsFit'
<1> DEFINE N == Y!Due
           done == run.done \cup {n.id : n \in N}
           hits == IF mode = "auto" THEN Cardinality(N) ELSE 0
           combo == IF mode = "manual" /\ N # {} THEN 0 ELSE run.combo + hits
           best == IF combo > run.best THEN combo ELSE run.best
           st == Y!Completed(Y!NextBeat, Y!TotalBeats(source), done)
<1>1. /\ run \in RunsOf(source) /\ run.token <= tokens /\ source \in Y!Sources \cup {None} /\ run.status = "running"
      /\ Y!NotesOf(source) # {} /\ UNCHANGED <<source, mode, tokens, reported>>
  BY DEF PlayFits, ShownFits, Y!Tick
<1>2. run.done \in SUBSET IdsOf(source) /\ run.combo \in Nat /\ run.best \in Nat /\ run.hits \in Nat /\ run.misses \in Nat
  BY <1>1 DEF RunsOf
<1>3. /\ Y!Due \in SUBSET Y!Undone /\ Y!NextBeat \in Nat
      /\ Y!NextBeat < Y!TotalBeats(source) \/ (Y!NextBeat = Y!TotalBeats(source) /\ Y!Due = Y!Undone)
  BY <1>1, DueFits
<1>4. Y!Undone = {n \in Y!NotesOf(source) : n.id \notin run.done}
  BY DEF Y!Undone
<1>5. run' = [run EXCEPT !.beat = Y!NextBeat, !.done = done, !.combo = combo, !.best = best,
                         !.hits = run.hits + hits, !.misses = run.misses + Cardinality(N) - hits, !.status = st]
  <2>1. Y!Cardinality(Y!Due) = Cardinality(Y!Due)
    BY SessionCounts
  <2>2. QED
    BY <2>1 DEF Y!Tick
<1> HIDE DEF N
<1>6. N \in SUBSET Y!NotesOf(source) /\ \A n \in N : n.id \notin run.done
  BY <1>3, <1>4 DEF N
<1>7. /\ Cardinality(N) \in Nat /\ Cardinality(run.done) \in Nat /\ done \in SUBSET IdsOf(source)
      /\ Y!Distinct(source) => Cardinality(done) = Cardinality(run.done) + Cardinality(N)
  BY <1>1, <1>2, <1>6, DoneGrows
<1>8. hits \in Nat /\ hits <= Cardinality(N)
  BY <1>7
<1> HIDE DEF hits
<1>9. run.combo <= run.hits /\ run.best <= run.hits
  BY DEF CountsFit
<1>10. combo \in Nat /\ combo <= run.hits + hits
  <2>1. combo = 0 \/ combo = run.combo + hits
    OBVIOUS
  <2> HIDE DEF combo
  <2>2. QED
    BY <1>2, <1>8, <1>9, <2>1
<1> HIDE DEF combo
<1>11. best \in Nat /\ best <= run.hits + hits
  BY <1>2, <1>8, <1>9, <1>10
<1> HIDE DEF best
<1>12. /\ st \in {"running", "complete"} /\ (st = "complete" => Cardinality(done) >= Cardinality(Y!NotesOf(source)))
       /\ st = "running" =>
            ~ (Y!NextBeat >= Y!TotalBeats(source) /\ Cardinality(done) >= Cardinality(Y!NotesOf(source)))
  BY CompletedIs
<1> HIDE DEF st
<1>13. run.misses + Cardinality(N) - hits \in Nat
       /\ run.misses + Cardinality(N) - hits = run.misses + (Cardinality(N) - hits)
  BY <1>2, <1>7, <1>8
<1> DEFINE misses == run.misses + Cardinality(N) - hits
<1>14. run' = [run EXCEPT !.beat = Y!NextBeat, !.done = done, !.combo = combo, !.best = best,
                          !.hits = run.hits + hits, !.misses = misses, !.status = st]
  BY <1>5
<1>15. misses \in Nat /\ misses = run.misses + (Cardinality(N) - hits)
  BY <1>13
<1>16. run.hits + hits \in Nat
  BY <1>2, <1>8
<1>17. Y!Distinct(source) /\ st = "running" => Y!NextBeat < Y!TotalBeats(source)
  <2> SUFFICES ASSUME Y!Distinct(source), st = "running", ~ (Y!NextBeat < Y!TotalBeats(source)) PROVE FALSE
    OBVIOUS
  <2>1. Y!NextBeat = Y!TotalBeats(source) /\ N = Y!Undone
    BY <1>3 DEF N
  <2>2. Y!TotalBeats(source) \in Nat
    BY <1>1, BeatsEnd
  <2>3. ~ (Cardinality(done) >= Cardinality(Y!NotesOf(source)))
    BY <1>12, <2>1, <2>2
  <2>4. done = IdsOf(source)
    <3>1. \A n \in Y!NotesOf(source) : n.id \in done
      BY <1>4, <2>1
    <3>2. QED
      BY <1>7, <3>1 DEF IdsOf
  <2>5. Cardinality(IdsOf(source)) = Cardinality(Y!NotesOf(source)) /\ IsFiniteSet(IdsOf(source))
    BY <1>1, NotesAreFew
  <2>6. Cardinality(IdsOf(source)) \in Nat
    BY <2>5, FS_CardinalityType
  <2> HIDE DEF done
  <2>7. QED
    BY <2>3, <2>4, <2>5, <2>6
<1>18. done = run.done \cup {n.id : n \in N}
  OBVIOUS
<1> HIDE DEF done, misses
<1>19. /\ run' \in RunsOf(source) /\ run'.token = run.token /\ run'.beat = Y!NextBeat /\ run'.done = done
       /\ run'.hits = run.hits + hits /\ run'.misses = misses /\ run'.combo = combo
       /\ run'.best = best /\ run'.status = st
  BY <1>1, <1>3, <1>7, <1>10, <1>11, <1>12, <1>14, <1>15, <1>16 DEF RunsOf
<1>20. PlayFits'
  BY <1>1, <1>19 DEF PlayFits
<1>21. N \in SUBSET Y!Undone
  BY <1>3 DEF N
<1>22. CountsFit'
  BY <1>1, <1>8, <1>10, <1>11, <1>12, <1>15, <1>17, <1>18, <1>19, <1>21, JudgedCounts
<1>23. QED
  BY <1>20, <1>22

LEMMA PlayStays ==
  ASSUME ShownFits, PlayFits, CountsFit, Y!Next
  PROVE  PlayFits' /\ CountsFit'
<1>1. ASSUME NEW s \in Repos, Y!Load(s) PROVE PlayFits' /\ CountsFit'
  <2>1. UNCHANGED <<source, mode, run, tokens, reported>>
    BY <1>1 DEF Y!Load, Y!panel
  <2>2. reported' \in 0..MaxRunTokens
    BY <2>1 DEF PlayFits
  <2>3. QED
    BY <2>1, <2>2, SameRun
<1>2. ASSUME NEW s \in Repos, Y!LoadAnswered(s) PROVE PlayFits' /\ CountsFit'
  <2>1. UNCHANGED <<source, mode, run, tokens, reported>>
    BY <1>2 DEF Y!LoadAnswered, Y!panel
  <2>2. reported' \in 0..MaxRunTokens
    BY <2>1 DEF PlayFits
  <2>3. QED
    BY <2>1, <2>2, SameRun
<1>3. ASSUME NEW s \in Repos, Y!LoadFails(s) PROVE PlayFits' /\ CountsFit'
  <2>1. UNCHANGED <<source, mode, run, tokens, reported>>
    BY <1>3 DEF Y!LoadFails, Y!panel
  <2>2. reported' \in 0..MaxRunTokens
    BY <2>1 DEF PlayFits
  <2>3. QED
    BY <2>1, <2>2, SameRun
<1>4. ASSUME NEW s \in Golden, Y!Autoplay(s) PROVE PlayFits' /\ CountsFit'
  <2>1. UNCHANGED <<source, mode, run, tokens, reported>>
    BY <1>4 DEF Y!Autoplay, Y!panel
  <2>2. reported' \in 0..MaxRunTokens
    BY <2>1 DEF PlayFits
  <2>3. QED
    BY <2>1, <2>2, SameRun
<1>5. CASE Y!Commit
  <2>1. Y!Resets("idle") /\ source' \in Y!Sources \cup {None} /\ mode' \in {"manual", "auto"} /\ reported' = reported
    BY <1>5 DEF Y!Commit, ShownFits, PlayFits
  <2>2. QED
    BY <2>1, FreshRun
<1>6. CASE Y!RequestMatches
  <2>1. UNCHANGED <<source, mode, run, tokens, reported>>
    BY <1>6 DEF Y!RequestMatches, Y!panel
  <2>2. reported' \in 0..MaxRunTokens
    BY <2>1 DEF PlayFits
  <2>3. QED
    BY <2>1, <2>2, SameRun
<1>7. CASE Y!RunRequested
  <2>1. Y!Resets("running") /\ source' \in Y!Sources \cup {None} /\ mode' \in {"manual", "auto"} /\ reported' = reported
    BY <1>7 DEF Y!RunRequested, ShownFits, PlayFits
  <2>2. QED
    BY <2>1, FreshRun
<1>8. CASE Y!Start
  <2>1. CASE run.status = "paused"
    <3>1. run' = [run EXCEPT !.status = "running"] /\ UNCHANGED <<source, mode, tokens, reported>>
      BY <1>8, <2>1 DEF Y!Start
    <3>2. QED
      BY <2>1, <3>1, StatusChanges
  <2>2. CASE run.status # "paused"
    <3>1. Y!Resets("running") /\ source' \in Y!Sources \cup {None} /\ mode' \in {"manual", "auto"} /\ reported' = reported
      BY <1>8, <2>2 DEF Y!Start, ShownFits, PlayFits
    <3>2. QED
      BY <3>1, FreshRun
  <2>3. QED
    BY <2>1, <2>2
<1>9. CASE Y!Pause
  <2>1. run.status = "running" /\ run' = [run EXCEPT !.status = "paused"] /\ UNCHANGED <<source, mode, tokens, reported>>
    BY <1>9 DEF Y!Pause
  <2>2. QED
    BY <2>1, StatusChanges
<1>10. CASE Y!ResetRun
  <2>1. Y!Resets("idle") /\ source' \in Y!Sources \cup {None} /\ mode' \in {"manual", "auto"} /\ reported' = reported
    BY <1>10 DEF Y!ResetRun, ShownFits, PlayFits
  <2>2. QED
    BY <2>1, FreshRun
<1>11. CASE Y!Tick
  BY <1>11, TickCounts
<1>12. CASE Y!Report
  <2>1. UNCHANGED <<source, mode, run, tokens>> /\ reported' = run.token
    BY <1>12 DEF Y!Report
  <2>2. reported' \in 0..MaxRunTokens
    <3>1. run.token \in 1..MaxRunTokens
      BY DEF PlayFits, RunsOf
    <3>2. QED
      BY <2>1, <3>1
  <2>3. QED
    BY <2>1, <2>2, SameRun
<1>13. CASE Y!Reload
  <2>1. /\ source' = None /\ mode' = "manual" /\ run' = Y!EmptyRun(1, "idle") /\ reported' = 0 /\ tokens' = 1
    BY <1>13 DEF Y!Reload
  <2>2. MaxRunTokens \in Nat /\ MaxRunTokens >= 1
    BY HistoriesHaveRoom
  <2>3. run' = [token |-> 1, status |-> "idle", beat |-> 0, done |-> {}, hits |-> 0, misses |-> 0,
                combo |-> 0, best |-> 0]
    BY <2>1 DEF Y!EmptyRun
  <2>4. run' \in RunsOf(source')
    BY <2>2, <2>3 DEF RunsOf
  <2>5. PlayFits'
    BY <2>1, <2>2, <2>3, <2>4 DEF PlayFits
  <2>6. Cardinality(run'.done) = 0
    BY <2>3, FS_EmptySet
  <2>7. /\ run'.combo <= run'.hits /\ run'.best <= run'.hits
        /\ run'.hits + run'.misses = Cardinality(run'.done) /\ run'.status = "idle"
    BY <2>3, <2>6
  <2>8. CountsFit'
    BY <2>7 DEF CountsFit
  <2>9. QED
    BY <2>5, <2>8
<1>14. ASSUME NEW lane, Y!Hit(lane) PROVE PlayFits' /\ CountsFit'
  <2>1. run.status = "running" /\ UNCHANGED <<source, mode, tokens, reported>>
    BY <1>14 DEF Y!Hit
  <2>2. CASE run' = [run EXCEPT !.combo = 0]
    BY <2>1, <2>2, ComboIsLost
  <2>3. ASSUME NEW n \in Y!Nearest(lane),
               run' = WithHit(n)
        PROVE  PlayFits' /\ CountsFit'
    BY <2>1, <2>3, NoteIsHit
  <2>4. QED
    BY <1>14, <2>2, <2>3 DEF Y!Hit, WithHit
<1>15. QED
  BY <1>1, <1>2, <1>3, <1>4, <1>5, <1>6, <1>7, <1>8, <1>9, <1>10, <1>11, <1>12, <1>13, <1>14 DEF Y!Next

LEMMA SessionStays ==
  ASSUME SessionInvariant, [Y!Next]_yVars PROVE SessionInvariant'
<1>0. ShownFits /\ AskedFits /\ Expecting /\ PlayFits /\ CountsFit /\ HistoryFits
  BY DEF SessionInvariant
<1>1. CASE Y!Next
  <2>1. run \in RunsOf(source)
    BY <1>0 DEF PlayFits
  <2>2. ShownFits' /\ AskedFits' /\ Expecting' /\ PlayFits' /\ CountsFit' /\ HistoryFits'
    BY <1>0, <1>1, <2>1, ShownStays, AskedStays, ExpectingStays, PlayStays, HistoryStays
  <2>3. QED
    BY <2>2 DEF SessionInvariant
<1>2. CASE UNCHANGED yVars
  <2>1. UNCHANGED <<source, next, loads, wanted, yRequest, mode, run, reported, started, tokens, history,
                    finished, expects, yAsked>>
    BY <1>2 DEF yVars
  <2>2. ShownFits' /\ AskedFits'
    BY <1>0, <2>1 DEF ShownFits, AskedFits
  <2>3. Expecting'
    BY <1>0, <2>1 DEF Expecting
  <2>4. PlayFits' /\ CountsFit'
    BY <1>0, <2>1 DEF PlayFits, CountsFit
  <2>5. HistoryFits'
    BY <1>0, <2>1 DEF HistoryFits
  <2>6. QED
    BY <2>2, <2>3, <2>4, <2>5 DEF SessionInvariant
<1>3. QED
  BY <1>1, <1>2

LEMMA SessionSuffices ==
  ASSUME SessionInvariant
  PROVE  Y!TypeOK /\ Y!RunEnds /\ Y!RunSound /\ Y!AutoplayStarts /\ Y!HistoryKeeps
<1>0. ShownFits /\ AskedFits /\ Expecting /\ PlayFits /\ CountsFit /\ HistoryFits
  BY DEF SessionInvariant
<1>1. source \in Y!Sources \cup {None} /\ run \in RunsOf(source)
  BY <1>0 DEF ShownFits, PlayFits
<1>2. run.status \in {"idle", "running", "paused", "complete"} /\ run.token \in 1..MaxRunTokens
      /\ run.done \in SUBSET IdsOf(source)
  BY <1>1 DEF RunsOf
<1>3. Y!TypeOK
  <2>1. source \in Y!Sources \cup {None} /\ next \in Y!Sources \cup {None} /\ loads \subseteq Repos
        /\ expects \in BOOLEAN
    BY <1>0 DEF ShownFits
  <2>2. wanted = None \/ wanted \in [scenario : Golden, id : 1..MaxLoads]
    BY <1>0 DEF AskedFits
  <2>3. yRequest \in 1..MaxLoads \cup {None} /\ started \in 0..MaxLoads
    BY <1>0, HistoriesHaveRoom DEF AskedFits
  <2>4. mode \in {"manual", "auto"} /\ tokens \in 1..MaxRunTokens /\ reported \in 0..MaxRunTokens /\ run.token <= tokens
    BY <1>0 DEF PlayFits
  <2>5. run.token \in 1..tokens
    BY <1>2, <2>4
  <2>6. Len(history) <= Total
    BY <1>0 DEF HistoryFits
  <2>7. QED
    BY <1>2, <2>1, <2>2, <2>3, <2>4, <2>5, <2>6 DEF Y!TypeOK
<1>4. Y!RunEnds
  BY <1>0 DEF CountsFit, Y!RunEnds
<1>5. Y!RunSound
  <2> SUFFICES ASSUME Y!Distinct(source)
               PROVE  /\ run.hits + run.misses = Y!Cardinality(run.done)
                      /\ run.best <= run.hits
                      /\ run.status = "complete" => run.hits + run.misses = Y!Cardinality(Y!NotesOf(source))
    BY DEF Y!RunSound
  <2>1. /\ Y!Cardinality(run.done) = Cardinality(run.done)
        /\ Y!Cardinality(Y!NotesOf(source)) = Cardinality(Y!NotesOf(source))
    BY SessionCounts
  <2>2. /\ run.hits + run.misses = Cardinality(run.done) /\ run.best <= run.hits
        /\ run.status = "complete" => Cardinality(run.done) >= Cardinality(Y!NotesOf(source))
    BY <1>0 DEF CountsFit
  <2>3. IsFiniteSet(IdsOf(source)) /\ Cardinality(IdsOf(source)) = Cardinality(Y!NotesOf(source))
    BY <1>1, NotesAreFew
  <2>4. /\ Cardinality(run.done) <= Cardinality(IdsOf(source)) /\ Cardinality(run.done) \in Nat
        /\ Cardinality(IdsOf(source)) \in Nat
    BY <1>2, <2>3, FS_Subset, FS_CardinalityType
  <2>5. run.status = "complete" => Cardinality(run.done) = Cardinality(Y!NotesOf(source))
    BY <2>2, <2>3, <2>4
  <2>6. QED
    BY <2>1, <2>2, <2>5
<1>6. Y!AutoplayStarts
  <2> SUFFICES ASSUME expects, next = None, wanted = None, yRequest # None => started = yRequest
               PROVE  run.status \in {"running", "complete"}
    BY DEF Y!AutoplayStarts, Y!Settled
  <2>1. QED
    BY <1>0 DEF Expecting
<1>7. Y!HistoryKeeps
  BY <1>0 DEF HistoryFits, AllDiffer, Y!HistoryKeeps
<1>8. QED
  BY <1>3, <1>4, <1>5, <1>6, <1>7
=============================================================================
