---------------------------- MODULE ReplayLaunch ----------------------------
(***************************************************************************)
(* From a browser tab to a replay: the player's Chrome extension           *)
(* (player/extension). The popup asks the background worker to play a      *)
(* repository; the worker saves the launch where there is room for one,    *)
(* and opens a tab, which reads it when it gets there. Popup, worker and   *)
(* tabs share nothing else. The worker may be shut down between two steps. *)
(***************************************************************************)
EXTENDS Naturals, Sequences

CONSTANTS
  None,
  Projects,     \* repositories
  Branches,     \* "main" and others
  MaxPopups,    \* bound: popups opened
  MaxLaunches,  \* bound: launches asked for
  MaxTabs,      \* bound: player tabs
  MaxRefreshes  \* bound: player tabs reloaded by the user

VARIABLES
  popup,     \* None, or the URL in its field and whether the popup has put it there
  launches,  \* the launches, by their ids, each with the page the user meant
  calls,     \* of each launch, what the worker does next
  last,      \* PLAYER_SESSION_KEY: the id of the last launch saved
  saved,     \* the ids in the order they were saved
  tabs,      \* the player tabs
  popups, refreshes

vars == <<popup, launches, calls, last, saved, tabs, popups, refreshes>>

\* URLs: of a repository, of a branch of it, and of other pages.
Urls == [form : {"repository", "tree"}, repo : Projects, branch : Branches] \cup {[form |-> "other"]}

\* maybeParsePublicRepositoryUrl.
Parsed(u) ==
  CASE u.form = "other" -> None
    [] u.form = "tree" -> [repo |-> u.repo, branch |-> u.branch]
    [] OTHER -> [repo |-> u.repo, branch |-> "main"]

CanonicalUrl(repo) == [form |-> "repository", repo |-> repo, branch |-> "main"]

Init ==
  /\ popup = None /\ launches = <<>> /\ calls = <<>> /\ last = None /\ saved = <<>> /\ tabs = <<>>
  /\ popups = 0 /\ refreshes = 0

\* bootstrap of the popup, over a page: the repository of the page, or of the last launch.
OpenPopup(page) ==
  /\ popup = None /\ popups < MaxPopups /\ popups' = popups + 1
  /\ popup' =
       IF Parsed(page) # None THEN [url |-> CanonicalUrl(page.repo), meant |-> page, typed |-> FALSE]
       ELSE IF last = None THEN [url |-> [form |-> "other"], meant |-> page, typed |-> FALSE]
       ELSE LET u == CanonicalUrl(launches[last].repo) IN [url |-> u, meant |-> u, typed |-> FALSE]
  /\ UNCHANGED <<launches, calls, last, saved, tabs, refreshes>>

\* The user writes another URL (bound: once).
Type(u) ==
  /\ popup # None /\ ~popup.typed /\ popup' = [url |-> u, meant |-> u, typed |-> TRUE]
  /\ UNCHANGED <<launches, calls, last, saved, tabs, popups, refreshes>>

\* Submitting the form sends OPEN_REPO; the popup may be closed before the answer.
Play ==
  /\ popup # None /\ Parsed(popup.url) # None /\ Len(launches) < MaxLaunches
  /\ launches' = Append(launches, [repo |-> Parsed(popup.url).repo, branch |-> Parsed(popup.url).branch,
                                   meant |-> popup.meant, typed |-> popup.typed])
  /\ calls' = Append(calls, "save") /\ popup' = None
  /\ UNCHANGED <<last, saved, tabs, popups, refreshes>>

ClosePopup ==
  /\ popup # None /\ popup' = None
  /\ UNCHANGED <<launches, calls, last, saved, tabs, popups, refreshes>>

-----------------------------------------------------------------------------
\* handleMessage of OPEN_REPO: first the launch is saved,
Saves(id) ==
  /\ calls[id] = "save" /\ calls' = [calls EXCEPT ![id] = "open"]
  /\ last' = id /\ saved' = Append(saved, id)
  /\ UNCHANGED <<popup, launches, tabs, popups, refreshes>>

Tab(id) == [launch |-> id, ready |-> FALSE, draft |-> None, shown |-> None]

\* then its tab is opened.
Opens(id) ==
  /\ calls[id] = "open" /\ calls' = [calls EXCEPT ![id] = "done"] /\ Len(tabs) < MaxTabs
  /\ tabs' = Append(tabs, Tab(id))
  /\ UNCHANGED <<popup, launches, last, saved, popups, refreshes>>

\* The save fails, or the worker is shut down.
Fails(id) ==
  /\ calls[id] \in {"save", "open"} /\ calls' = [calls EXCEPT ![id] = "done"]
  /\ UNCHANGED <<popup, launches, last, saved, tabs, popups, refreshes>>

\* OPEN_PLAYER.
OpenPlayer ==
  /\ popup # None /\ popup' = None /\ Len(tabs) < MaxTabs /\ tabs' = Append(tabs, Tab(None))
  /\ UNCHANGED <<launches, calls, last, saved, popups, refreshes>>

-----------------------------------------------------------------------------
\* Mutant: the tab loads the last launch whatever its own is.
LoadsByItself_bug(tab) == last # None

\* resolveLaunchSession, buildExtensionAppBootstrap: the last launch is loaded at once if it is the
\* tab's own, or if the tab was opened for none.
LoadsByItself(tab) == last # None /\ tab.launch \in {None, last}

\* bootstrap of the player, and the replay it loads by itself.
Boots(t) ==
  /\ ~tabs[t].ready
  /\ LET launch == IF last = None THEN None ELSE [repo |-> launches[last].repo, branch |-> launches[last].branch] IN
     tabs' = [tabs EXCEPT ![t] = [@ EXCEPT !.ready = TRUE, !.draft = launch,
                                    !.shown = IF LoadsByItself(tabs[t]) THEN launch ELSE None]]
  /\ UNCHANGED <<popup, launches, calls, last, saved, popups, refreshes>>

Refresh(t) ==
  /\ tabs[t].ready /\ refreshes < MaxRefreshes /\ refreshes' = refreshes + 1
  /\ tabs' = [tabs EXCEPT ![t] = Tab(@.launch)]
  /\ UNCHANGED <<popup, launches, calls, last, saved, popups>>

Next ==
  \/ Play \/ ClosePopup \/ OpenPlayer
  \/ \E u \in Urls : OpenPopup(u) \/ Type(u)
  \/ \E id \in DOMAIN calls : Saves(id) \/ Opens(id) \/ Fails(id)
  \/ \E t \in DOMAIN tabs : Boots(t) \/ Refresh(t)

Spec == Init /\ [][Next]_vars

-----------------------------------------------------------------------------
Places == [repo : Projects, branch : Branches] \cup {None}

TypeOK ==
  /\ last \in DOMAIN launches \cup {None} /\ DOMAIN calls = DOMAIN launches
  /\ \A t \in DOMAIN tabs : tabs[t].draft \in Places /\ tabs[t].shown \in Places

\* A tab opened for a launch loads by itself what was asked for and nothing else, and leaves it
\* only if a later launch was saved before it could read its own.
TabsLoadTheirOwn ==
  \A t \in DOMAIN tabs :
    tabs[t].ready /\ tabs[t].launch # None =>
      LET id == tabs[t].launch IN
      IF tabs[t].shown # None
      THEN tabs[t].shown = [repo |-> launches[id].repo, branch |-> launches[id].branch]
      ELSE \E i, j \in DOMAIN saved : i < j /\ saved[i] = id

\* A launch is of the repository the user saw, and of the branch the user wrote. The branch of the
\* page under the popup is not kept: the field it fills in names the repository alone.
LaunchAsMeant ==
  \A id \in DOMAIN launches :
    /\ launches[id].repo = Parsed(launches[id].meant).repo
    /\ launches[id].typed => launches[id].branch = Parsed(launches[id].meant).branch

\* Why they hold: the URL in the popup is of the repository that was meant, the last launch is the
\* one saved last, and a tab is opened for a launch that was saved.
Launches == [repo : Projects, branch : Branches, meant : Urls, typed : BOOLEAN]
Popups == [url : Urls, meant : Urls, typed : BOOLEAN]
PlayerTabs == [launch : Nat \cup {None}, ready : BOOLEAN, draft : Places, shown : Places]
WasSaved(id) == id \in DOMAIN launches /\ \E i \in DOMAIN saved : saved[i] = id
AsMeant(p) ==
  p.url.form # "other" =>
    p.meant.form # "other" /\ p.url.repo = p.meant.repo /\ (p.typed => p.meant = p.url)

LaunchInvariant ==
  /\ TypeOK /\ TabsLoadTheirOwn /\ LaunchAsMeant
  /\ launches \in Seq(Launches) /\ (popup # None => popup \in Popups /\ AsMeant(popup))
  /\ calls \in Seq({"save", "open", "done"}) /\ \A id \in DOMAIN calls : calls[id] = "open" => WasSaved(id)
  /\ saved \in Seq(Nat) /\ last = IF saved = <<>> THEN None ELSE saved[Len(saved)]
  /\ tabs \in Seq(PlayerTabs) /\ \A t \in DOMAIN tabs : tabs[t].launch # None => WasSaved(tabs[t].launch)
=============================================================================
