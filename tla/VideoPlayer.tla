----------------------------- MODULE VideoPlayer -----------------------------
(***************************************************************************)
(* MVideoPlayer.kt over an IjkMediaPlayer, with the VideoController it      *)
(* reports to (MVideoController.kt, VideoController.kt).  The native player *)
(* runs on threads of its own and posts what happens to the main looper;    *)
(* everything else, the progress timer apart, runs on the main thread.      *)
(* IjkMediaPlayer is a binary of the repository: its states are those the   *)
(* calls and listeners of MVideoPlayer presuppose.  Options, logging and    *)
(* the video's size are left out.                                           *)
(***************************************************************************)
EXTENDS Naturals, Sequences

CONSTANTS
    MaxEvents,   \* bound: events of the native player waiting in the looper
    MaxProgress, \* setMax: the length given to a live stream, in units of time
    Faults       \* the failures a run allows

ASSUME VideoBounds == MaxEvents \in Nat /\ MaxProgress \in Nat \ {0}
ASSUME VideoFaults == Faults \subseteq {"error", "noSource"}

(* MVideoPlayer's companion object: COMPLETE and ERROR are the same number. *)
INIT == 0
PREPARING == 1
PREPARED == 2
PLAY_START == 3
PAUSE == 4
STOP == 5
COMPLETE == 6
ERROR == 6

VARIABLES
    p,        \* fields of MVideoPlayer
    ijk,      \* state of the IjkMediaPlayer, "none" while player is null
    surf,     \* the surface it draws on: none, live, or released
    source,   \* the data source of the native player and what it has done with it
    events,   \* main looper: events of the native player, oldest first
    ui,       \* views and timer of the controller
    tick,     \* main looper: a runnable of onProgressUpdate is posted
    crashed   \* a call of the native player threw IllegalStateException

pvars == <<p, ijk, surf, source, events, ui, tick, crashed>>

PlayerState == [status : INIT..COMPLETE, isStart : BOOLEAN, isLoading : BOOLEAN]

IjkStates == {"none", "idle", "initialized", "preparing", "prepared", "started", "paused",
              "completed", "error", "end"}

(* given: what became of setDataSource since the player was made or reset;  *)
(* live: without a duration; rendered: the first frame was reported;        *)
(* buffering: it last reported that it waits for data.                      *)
SourceState == [given : {"nothing", "source", "refused"}, live : BOOLEAN,
                rendered : BOOLEAN, buffering : BOOLEAN]

NoSource == [given |-> "nothing", live |-> FALSE, rendered |-> FALSE, buffering |-> FALSE]

Events == {"prepared", "rendering", "bufferStart", "bufferEnd", "complete", "error"}

(* At most one of the controller's layouts over the picture is visible; bar *)
(* is rlController, with the buttons and the seek bar.                      *)
ControllerUI == [icon : {"play", "pause"}, timer : BOOLEAN, bar : BOOLEAN,
                 overlay : {"none", "default", "loading", "buffering", "error", "complete"}]

PlayerInit ==
    /\ p = [status |-> INIT, isStart |-> FALSE, isLoading |-> FALSE]
    /\ ijk = "none"
    /\ surf = "none"
    /\ source = NoSource
    /\ events = <<>>
    /\ ui = [icon |-> "play", timer |-> FALSE, bar |-> TRUE, overlay |-> "default"]
    /\ tick = FALSE
    /\ crashed = FALSE

-----------------------------------------------------------------------------
(* MVideoController: each callback maps its views and timer to the new ones. *)

OnLoad(u) == [u EXCEPT !.overlay = "loading", !.bar = FALSE]

(* Mutant of OnPlay: the timer is not started. *)
OnPlayNoTimer(u) == [u EXCEPT !.icon = "pause"]

OnPlay(u) == [u EXCEPT !.icon = "pause", !.timer = TRUE]

OnPause(u) == [u EXCEPT !.icon = "play", !.timer = FALSE,
                        !.overlay = IF @ \in {"loading", "buffering"} THEN "none" ELSE @]

OnStop(u) == [u EXCEPT !.icon = "play", !.timer = FALSE]

OnRelease(u) == [u EXCEPT !.icon = "play", !.timer = FALSE, !.overlay = "default"]

OnRenderingStart(u) == [u EXCEPT !.overlay = "none", !.bar = TRUE]

OnBufferStart(u) == [u EXCEPT !.overlay = "buffering"]

OnBufferComplete(u) == [u EXCEPT !.overlay = "none"]

OnPlayComplete(u) == [u EXCEPT !.overlay = "complete"]

OnError(u) == [u EXCEPT !.overlay = "error"]

-----------------------------------------------------------------------------
(* IjkMediaPlayer: isPlaying also holds between prepared and start.  A call *)
(* in a state that does not admit it changes nothing; after release it      *)
(* throws, as setDataSource and prepareAsync do in every wrong state.       *)

IsPlaying == ijk \in {"prepared", "started"}

IjkStart(s) == IF s \in {"prepared", "paused", "completed"} THEN "started" ELSE s

-----------------------------------------------------------------------------
(* MVideoPlayer, as the main thread calls it.                               *)

PlayerNew ==
    /\ ijk' = "idle"
    /\ source' = NoSource
    /\ events' = <<>>
    /\ p' = [p EXCEPT !.status = INIT]
    /\ UNCHANGED <<ui, tick, crashed>>

(* setDataSource: an IOException is caught and printed, status says nothing *)
(* of it and the native player stays idle; IllegalStateException is not     *)
(* caught.                                                                  *)
PlayerSetDataSource(live) ==
    /\ \/ /\ ijk = "idle"
          /\ ijk' = "initialized"
          /\ source' = [NoSource EXCEPT !.given = "source", !.live = live]
          /\ UNCHANGED crashed
       \/ /\ ijk = "idle" /\ "noSource" \in Faults
          /\ source' = [NoSource EXCEPT !.given = "refused"]
          /\ UNCHANGED <<ijk, crashed>>
       \/ /\ ijk # "idle"
          /\ crashed' = TRUE
          /\ UNCHANGED <<ijk, source>>
    /\ UNCHANGED <<p, surf, events, ui, tick>>

(* prepare: prepareAsync wants a player with a data source, and throws      *)
(* before status is set.                                                    *)
PlayerPrepare ==
    /\ IF ijk = "initialized"
         THEN /\ ijk' = "preparing"
              /\ p' = [p EXCEPT !.status = PREPARING]
              /\ UNCHANGED crashed
         ELSE /\ crashed' = TRUE
              /\ UNCHANGED <<ijk, p>>
    /\ UNCHANGED <<source, surf, events, ui, tick>>

(* Mutant of PlayerPause: the native player is not paused. *)
PlayerPausePlaysOn(s, u) ==
    /\ p' = [s EXCEPT !.isStart = FALSE, !.status = PAUSE]
    /\ ui' = OnPause(u)
    /\ UNCHANGED ijk

(* pause, on the fields and the controller's views as its caller left them. *)
PlayerPause(s, u) ==
    /\ p' = [s EXCEPT !.isStart = FALSE, !.status = PAUSE]
    /\ ijk' = IF IsPlaying THEN "paused" ELSE ijk
    /\ ui' = OnPause(u)

(* Mutant of PlayerStart: a paused player is not started. *)
PlayerStartOnlyPrepared ==
    /\ p' = [p EXCEPT !.isStart = TRUE,
                      !.isLoading = IF p.status = PREPARED THEN TRUE ELSE @]
    /\ IF p.status = PREPARED
         THEN /\ ijk' = IjkStart(ijk)
              /\ ui' = OnPlay(OnLoad(ui))
              /\ crashed' = (ijk = "end")
         ELSE UNCHANGED <<ijk, ui, crashed>>

PlayerStart ==
    /\ p' = [p EXCEPT !.isStart = TRUE,
                      !.isLoading = IF p.status = PREPARED THEN TRUE ELSE @]
    /\ IF p.status \in {PREPARED, PAUSE}
         THEN /\ ijk' = IjkStart(ijk)
              /\ ui' = OnPlay(IF p.status = PREPARED THEN OnLoad(ui) ELSE ui)
              /\ crashed' = (ijk = "end")
         ELSE UNCHANGED <<ijk, ui, crashed>>

(* stop and reset of the native player, which forgets its surface, its data *)
(* source and what it has posted.                                           *)
Resets == IsPlaying \/ p.status \in {PAUSE, COMPLETE}

PlayerStop ==
    /\ IF Resets
         THEN /\ p' = [p EXCEPT !.isStart = FALSE, !.status = STOP]
              /\ ijk' = IF ijk = "end" THEN "end" ELSE "idle"
              /\ source' = NoSource
              /\ events' = <<>>
              /\ crashed' = (ijk = "end")
         ELSE /\ p' = [p EXCEPT !.isStart = FALSE]
              /\ UNCHANGED <<ijk, source, events, crashed>>
    /\ ui' = OnStop(ui)

(* Mutant of PlayerRelease: status is left as it was. *)
PlayerReleaseKeepsStatus ==
    /\ p' = [p EXCEPT !.isStart = FALSE]
    /\ ijk' = IF ijk = "none" THEN "none" ELSE "end"
    /\ surf' = "none"
    /\ source' = NoSource
    /\ events' = <<>>
    /\ ui' = OnRelease(ui)
    /\ crashed' = (ijk = "end" /\ p.status = PAUSE)

PlayerRelease ==
    /\ p' = [p EXCEPT !.isStart = FALSE, !.status = INIT]
    /\ ijk' = IF ijk = "none" THEN "none" ELSE "end"
    /\ surf' = "none"
    /\ source' = NoSource
    /\ events' = <<>>
    /\ ui' = OnRelease(ui)
    /\ crashed' = (ijk = "end" /\ p.status = PAUSE)

-----------------------------------------------------------------------------
(* The native player: what it does and posts.                               *)

Post(e) == Len(events) < MaxEvents /\ events' = Append(events, e)

NativePrepared ==
    /\ ijk = "preparing"
    /\ ijk' = "prepared"
    /\ Post("prepared")
    /\ UNCHANGED source

NativeRendering ==
    /\ ijk = "started" /\ ~source.rendered
    /\ source' = [source EXCEPT !.rendered = TRUE]
    /\ Post("rendering")
    /\ UNCHANGED ijk

NativeBuffering ==
    /\ ijk \in {"started", "paused"}
    /\ source' = [source EXCEPT !.buffering = ~@]
    /\ Post(IF source.buffering THEN "bufferEnd" ELSE "bufferStart")
    /\ UNCHANGED ijk

NativeComplete ==
    /\ ijk = "started" /\ source.rendered /\ ~source.buffering
    /\ ijk' = "completed"
    /\ Post("complete")
    /\ UNCHANGED source

NativeError ==
    /\ "error" \in Faults
    /\ ijk \in {"preparing", "prepared", "started", "paused"}
    /\ ijk' = "error"
    /\ Post("error")
    /\ UNCHANGED source

Native ==
    /\ ~crashed
    /\ NativePrepared \/ NativeRendering \/ NativeBuffering \/ NativeComplete \/ NativeError
    /\ UNCHANGED <<p, surf, ui, tick, crashed>>

-----------------------------------------------------------------------------
(* The listeners prepare() sets, as the looper calls them.                  *)

Take(e) ==
    /\ ~crashed
    /\ events # <<>>
    /\ Head(events) = e
    /\ events' = Tail(events)

(* Mutant of OnPrepared: it starts whatever isStart says. *)
OnPreparedAlwaysStarts ==
    /\ Take("prepared")
    /\ p' = [p EXCEPT !.status = PREPARED, !.isLoading = TRUE]
    /\ ijk' = IjkStart(ijk)
    /\ ui' = OnPlay(OnLoad(ui))
    /\ UNCHANGED <<surf, source, tick, crashed>>

(* Mutant of OnPrepared: a start asked for before is forgotten. *)
OnPreparedWaits ==
    /\ Take("prepared")
    /\ p' = [p EXCEPT !.status = PREPARED]
    /\ UNCHANGED <<ijk, ui, surf, source, tick, crashed>>

OnPrepared ==
    /\ Take("prepared")
    /\ IF p.isStart
         THEN /\ p' = [p EXCEPT !.status = PREPARED, !.isLoading = TRUE]
              /\ ijk' = IjkStart(ijk)
              /\ ui' = OnPlay(OnLoad(ui))
         ELSE /\ p' = [p EXCEPT !.status = PREPARED]
              /\ UNCHANGED <<ijk, ui>>
    /\ UNCHANGED <<surf, source, tick, crashed>>

TimerFires ==
    /\ ~crashed
    /\ ui.timer
    /\ ~tick
    /\ tick' = TRUE
    /\ UNCHANGED <<p, ijk, surf, source, events, ui, crashed>>
=============================================================================
