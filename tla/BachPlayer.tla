------------------------------ MODULE BachPlayer ------------------------------
(***************************************************************************)
(* The dashboard's background music: src/hooks/useBachPlayer.js and the    *)
(* YouTube player it drives (utils/youtube.js) inside an iframe. What the  *)
(* player is asked reaches it in order and some time later, and so does    *)
(* what it tells of its state. The player is modelled from the events the  *)
(* hook handles. Volume, labels and the panel are left out.                *)
(***************************************************************************)
EXTENDS Naturals, Sequences

CONSTANTS
  Channels,   \* what is played: the target of a saved channel
  MaxClicks,  \* bound: the user's actions
  MaxWaiting  \* bound: what is under way in each direction, when the user or the player goes on

VARIABLES
  ready,      \* isBachReady, or that the script could not be loaded
  playing,    \* isBachPlaying
  requested,  \* isBachPlaybackRequested
  url,        \* bachChannelUrl
  first,      \* the channel when the dashboard was opened
  video,      \* the state of the player
  demands,    \* what it was asked and has not done
  reports,    \* the states and errors it has told, not yet handled
  meant,      \* what the user meant by the last click on play or pause, None once it was done with
  belated,    \* the user has paused while a report of playing was under way
  clicks

vars == <<ready, playing, requested, url, first, video, demands, reports, meant, belated, clicks>>

-----------------------------------------------------------------------------
\* resolveYouTubeTarget: forms of what a user may enter, each of a channel, a playlist or a video.
\* A channel is played as the playlist of its uploads.
Forms == {"id", "channel link", "list link", "watch link", "watch link with list", "short link",
          "path link", "other"}
Inputs == {[form |-> f, of |-> o] : f \in Forms, o \in {"channel", "playlist", "video"}}

Resolved(i) ==
  CASE i.form = "id" \/ (i.form = "channel link" /\ i.of = "channel") -> i.of
    [] i.form \in {"list link", "watch link with list"} /\ i.of = "playlist" -> "playlist"
    [] i.form \in {"watch link", "short link", "path link"} /\ i.of = "video" -> "video"
    [] OTHER -> "none"

\* canonicalUrl.
Canonical(i) ==
  CASE Resolved(i) = "channel" -> [form |-> "channel link", of |-> "channel"]
    [] Resolved(i) = "playlist" -> [form |-> "list link", of |-> "playlist"]
    [] i.form = "short link" -> i
    [] OTHER -> [form |-> "watch link", of |-> "video"]

-----------------------------------------------------------------------------
Init ==
  /\ ready = "loading" /\ playing = FALSE /\ requested = FALSE /\ url \in Channels /\ first = url
  /\ video = "none" /\ demands = <<>> /\ reports = <<>> /\ meant = "none" /\ belated = FALSE
  /\ clicks = 0

\* onReady cues the channel there was first; the effect on isBachReady then the current one.
BecomesReady ==
  /\ ready = "loading" /\ ready' = "ready"
  /\ demands' = <<[do |-> "cue", url |-> first], [do |-> "cue", url |-> url]>>
  /\ UNCHANGED <<playing, requested, url, first, video, reports, meant, belated, clicks>>

LoadingFails ==
  /\ ready = "loading" /\ ready' = "failed"
  /\ UNCHANGED <<playing, requested, url, first, video, demands, reports, meant, belated, clicks>>

Click ==
  /\ clicks < MaxClicks /\ clicks' = clicks + 1 /\ Len(demands) < MaxWaiting
  /\ UNCHANGED <<ready, first, video, reports>>

Asks(what, target) == demands' = Append(demands, [do |-> what, url |-> target])

\* toggleBachPlayback: playBach, which only notes the wish while the player is not ready,
Play ==
  /\ Click /\ ~playing
  /\ requested' = TRUE /\ meant' = "play" /\ belated' = FALSE
  /\ IF ready = "ready" THEN Asks("load", url) ELSE UNCHANGED demands
  /\ UNCHANGED <<playing, url>>

\* and pauseBach.
Pause ==
  /\ Click /\ playing
  /\ playing' = FALSE /\ requested' = FALSE /\ meant' = "pause"
  /\ Asks("pause", url)
  /\ belated' = (\E i \in DOMAIN reports : reports[i] = "playing")
  /\ UNCHANGED url

\* saveBachChannel and resetBachChannel: the effect on the channel goes on playing with the new
\* one, or cues it.
Save(u) ==
  /\ Click /\ u # url /\ url' = u
  /\ IF ready = "ready" THEN Asks(IF playing THEN "load" ELSE "cue", u) ELSE UNCHANGED demands
  /\ UNCHANGED <<playing, requested, meant, belated>>

-----------------------------------------------------------------------------
\* The player does what it was asked: it plays, is kept from it by the browser, or fails.
Outcomes(d) ==
  CASE d.do = "load" -> {"playing", "paused", "error"}
    [] d.do = "cue" -> {"cued", "error"}
    [] OTHER -> IF video = "playing" THEN {"paused"} ELSE {video}

PlayerDoes ==
  /\ demands # <<>> /\ Len(reports) < MaxWaiting /\ demands' = Tail(demands)
  /\ \E v \in Outcomes(Head(demands)) :
       /\ video' = v
       /\ reports' = IF Head(demands).do = "pause" /\ v = video THEN reports ELSE Append(reports, v)
  /\ belated' = (belated \/ (meant = "pause" /\ video' = "playing"))
  /\ UNCHANGED <<ready, playing, requested, url, first, meant, clicks>>

\* It goes on after buffering or with the next of a list, or comes to the end.
PlayerGoesOn(v) ==
  /\ video = "playing" /\ v \in {"playing", "ended"} /\ Len(reports) < MaxWaiting
  /\ video' = v /\ reports' = Append(reports, v)
  /\ belated' = (belated \/ (meant = "pause" /\ v = "playing"))
  /\ UNCHANGED <<ready, playing, requested, url, first, demands, meant, clicks>>

\* Mutant: the player's own pauses count as the user's.
Keeps_bug(report) == report = "cued"

\* A pause or a cue that the user did not ask for leaves the wish to play.
Keeps(report) == report \in {"paused", "cued"}

\* onStateChange and onError.
Reported ==
  /\ reports # <<>> /\ reports' = Tail(reports)
  /\ LET report == Head(reports) IN
     /\ playing' = (report = "playing")
     /\ requested' = (report = "playing" \/ (Keeps(report) /\ requested))
     /\ meant' = IF report \in {"ended", "error"} THEN "none" ELSE meant
  /\ UNCHANGED <<ready, url, first, video, demands, belated, clicks>>

Next ==
  \/ BecomesReady \/ LoadingFails \/ Play \/ Pause \/ PlayerDoes \/ Reported
  \/ \E u \in Channels : Save(u)
  \/ \E v \in {"playing", "ended"} : PlayerGoesOn(v)

Spec == Init /\ [][Next]_vars

-----------------------------------------------------------------------------
TypeOK ==
  /\ ready \in {"loading", "ready", "failed"} /\ playing \in BOOLEAN /\ requested \in BOOLEAN
  /\ url \in Channels /\ first \in Channels
  /\ video \in {"none", "cued", "playing", "paused", "ended", "error"}
  /\ demands \in Seq([do : {"load", "cue", "pause"}, url : Channels]) /\ reports \in Seq({"cued", "playing", "paused", "ended", "error"})
  /\ meant \in {"none", "play", "pause"} /\ belated \in BOOLEAN /\ clicks \in 0..MaxClicks

\* When everything is done and told, the dashboard says it plays exactly if the player does. It
\* keeps the wish to play through pauses nobody asked for, until the music ends or fails, and
\* forgets it when the user pauses, unless a report of playing was still under way then.
MusicSettles ==
  demands = <<>> /\ reports = <<>> =>
    /\ playing = (video = "playing")
    /\ meant = "play" => requested
    /\ meant = "pause" /\ ~belated => ~requested

\* A channel that is saved is read as the same channel again.
ChannelsStay == \A i \in Inputs : Resolved(i) # "none" => Resolved(Canonical(i)) = Resolved(i)

-----------------------------------------------------------------------------
(* Why they hold: an inductive invariant. *)

\* The last report is of the state the player is in. When all are handled the dashboard says it
\* plays only if the player does, and exactly then unless a pause is under way.
ReportsAreLate ==
  /\ ready = "loading" => demands = <<>> /\ reports = <<>> /\ ~playing /\ video = "none"
  /\ reports # <<>> => reports[Len(reports)] = video
  /\ reports = <<>> => /\ playing => video = "playing"
                       /\ video = "playing" => playing \/ \E i \in DOMAIN demands : demands[i].do = "pause"

WishIsKept ==
  /\ meant = "play" => requested
  /\ meant = "pause" /\ ~belated =>
       ~requested /\ \A i \in DOMAIN reports : reports[i] # "playing"

MusicInvariant == TypeOK /\ ReportsAreLate /\ WishIsKept
=============================================================================
