------------------------------ MODULE VideoView ------------------------------
(***************************************************************************)
(* MVideoView.kt: the view that owns a VideoPlayer and its surface, with    *)
(* the buttons of MVideoController and a client that goes by status and     *)
(* hasPrepared.  Moving the view's container to full screen takes the       *)
(* texture view off its window for a moment: it loses its surface texture   *)
(* and gets the saved one back.                                             *)
(***************************************************************************)
EXTENDS VideoPlayer

CONSTANT Habits   \* what the user and the client may do besides the patient
ASSUME VideoHabits ==
    Habits \subseteq {"raceEvents", "pauseStopped", "resetInTransit"}

VARIABLES
    v,        \* fields of MVideoView about the play
    tex,      \* textureView.isAvailable and mSurfaceTexture
    attached, \* the view is in a window
    full      \* mCurrentMode = MODE_FULLSCREEN

vvars == <<v, tex, attached, full>>
vars == <<pvars, vvars>>

(* counting: lastPlayTime is not 0; progress counts the time of a live      *)
(* stream up to max.                                                        *)
ViewState == [isBuffering : BOOLEAN, counting : BOOLEAN, progress : 0..MaxProgress]

Fresh == [isBuffering |-> FALSE, counting |-> FALSE, progress |-> 0]

TypeOK ==
    /\ p \in PlayerState
    /\ ijk \in IjkStates
    /\ surf \in {"none", "live", "released"}
    /\ source \in SourceState
    /\ events \in Seq(Events) /\ Len(events) <= MaxEvents
    /\ ui \in ControllerUI
    /\ tick \in BOOLEAN
    /\ crashed \in BOOLEAN
    /\ v \in ViewState
    /\ tex \in [available : BOOLEAN, saved : BOOLEAN]
    /\ attached \in BOOLEAN
    /\ full \in BOOLEAN

Init ==
    /\ PlayerInit
    /\ v = Fresh
    /\ tex = [available |-> FALSE, saved |-> FALSE]
    /\ attached = TRUE
    /\ full = FALSE

-----------------------------------------------------------------------------
(* PlayListener: what the view does with the player's events.               *)

(* Mutant of OnRendering: STARTING, which nothing reports, is reported. *)
OnRenderingStarting ==
    /\ Take("rendering")
    /\ p' = [p EXCEPT !.status = 7, !.isLoading = FALSE]
    /\ v' = [v EXCEPT !.counting = TRUE]
    /\ ui' = OnRenderingStart(ui)
    /\ UNCHANGED <<ijk, surf, source, tick, crashed>>

OnRendering ==
    /\ Take("rendering")
    /\ p' = [p EXCEPT !.status = PLAY_START, !.isLoading = FALSE]
    /\ v' = [v EXCEPT !.counting = TRUE]
    /\ ui' = OnRenderingStart(ui)
    /\ UNCHANGED <<ijk, surf, source, tick, crashed>>

OnBuffering ==
    /\ \/ /\ Take("bufferStart")
          /\ p' = [p EXCEPT !.isLoading = FALSE]
          /\ v' = [v EXCEPT !.isBuffering = TRUE]
          /\ ui' = OnBufferStart(ui)
       \/ /\ Take("bufferEnd")
          /\ v' = [v EXCEPT !.isBuffering = FALSE]
          /\ ui' = OnBufferComplete(ui)
          /\ UNCHANGED p
    /\ UNCHANGED <<ijk, surf, source, tick, crashed>>

(* Completion pauses, so that start plays again from the beginning. *)
OnCompletion ==
    /\ Take("complete")
    /\ PlayerPause([p EXCEPT !.isLoading = FALSE], OnPlayComplete(ui))
    /\ v' = Fresh
    /\ UNCHANGED <<surf, source, tick, crashed>>

OnPlayerError ==
    /\ Take("error")
    /\ p' = [p EXCEPT !.status = ERROR, !.isLoading = FALSE]
    /\ v' = Fresh
    /\ ui' = OnError(ui)
    /\ UNCHANGED <<ijk, surf, source, tick, crashed>>

(* updateProgress in the runnable of the timer: a live stream that has      *)
(* played for max makes the controller believe in a completion.             *)
RunTick ==
    /\ ~crashed
    /\ tick
    /\ tick' = FALSE
    /\ IF IsPlaying /\ ~v.isBuffering /\ source.live /\ v.counting
         THEN \E dt \in 0..1 :
                LET time == IF v.progress + dt > MaxProgress THEN MaxProgress
                            ELSE v.progress + dt
                IN /\ v' = [v EXCEPT !.progress = time]
                   /\ ui' = IF time = MaxProgress THEN OnPlayComplete(ui) ELSE ui
         ELSE UNCHANGED <<v, ui>>
    /\ UNCHANGED <<p, ijk, surf, source, events, crashed>>

Listen ==
    \/ OnPrepared /\ UNCHANGED v
    \/ OnRendering \/ OnBuffering \/ OnCompletion \/ OnPlayerError

-----------------------------------------------------------------------------
(* The client and the user.  In the patient environment they act when the   *)
(* looper has delivered what the player posted.                             *)

UserTurn == ~crashed /\ (events = <<>> \/ "raceEvents" \in Habits)

InTransit == attached /\ ~tex.available /\ tex.saved

MayReset == ~InTransit \/ "resetInTransit" \in Habits

(* init *)
ClientInit ==
    /\ UserTurn /\ MayReset
    /\ ijk \in {"none", "end"}
    /\ PlayerNew
    /\ surf' = IF tex.available THEN "live" ELSE "none"
    /\ UNCHANGED vvars

(* setDataSource of a video or of a live stream, and prepare.  The client   *)
(* knows whether it has called setDataSource since it made the player or    *)
(* last saw status become STOP, but not what came of the call.              *)
ClientSetDataSource ==
    /\ UserTurn
    /\ ijk \notin {"none", "end"}
    /\ p.status \in {INIT, STOP}
    /\ source.given = "nothing"
    /\ \E live \in BOOLEAN : PlayerSetDataSource(live)
    /\ UNCHANGED vvars

ClientPrepare ==
    /\ UserTurn
    /\ ijk \notin {"none", "end"}
    /\ p.status \in {INIT, STOP}
    /\ source.given # "nothing"
    /\ PlayerPrepare
    /\ UNCHANGED vvars

ClientStart ==
    /\ UserTurn
    /\ PlayerStart
    /\ UNCHANGED <<surf, source, events, tick, vvars>>

(* hasPrepared() holds from the first prepare to the release. *)
ClientPause ==
    /\ UserTurn
    /\ p.status # INIT
    /\ p.status # STOP \/ "pauseStopped" \in Habits
    /\ PlayerPause(p, ui)
    /\ UNCHANGED <<surf, source, events, tick, crashed, vvars>>

(* Mutant of ClientStop: the surface is not set again. *)
ClientStopKeepsNoSurface ==
    /\ UserTurn /\ MayReset
    /\ p.status \notin {INIT, PREPARED}
    /\ PlayerStop
    /\ v' = Fresh
    /\ surf' = IF Resets THEN "none" ELSE surf
    /\ UNCHANGED <<tick, tex, attached, full>>

(* Mutant of ClientStop: what the view knows of the play stays. *)
ClientStopKeepsPlay ==
    /\ UserTurn /\ MayReset
    /\ p.status \notin {INIT, PREPARED}
    /\ PlayerStop
    /\ surf' = IF tex.available THEN "live" ELSE IF Resets THEN "none" ELSE surf
    /\ UNCHANGED <<v, tick, tex, attached, full>>

(* MVideoView.stop: the reset player gets the surface anew. *)
ClientStop ==
    /\ UserTurn /\ MayReset
    /\ p.status \notin {INIT, PREPARED}
    /\ PlayerStop
    /\ v' = Fresh
    /\ surf' = IF tex.available THEN "live" ELSE IF Resets THEN "none" ELSE surf
    /\ UNCHANGED <<tick, tex, attached, full>>

ClientRelease ==
    /\ UserTurn
    /\ PlayerRelease
    /\ v' = Fresh
    /\ UNCHANGED <<tick, tex, attached, full>>

(* The start button toggles. *)
ClickStart ==
    /\ UserTurn
    /\ ui.bar /\ attached
    /\ IF IsPlaying THEN PlayerPause(p, ui) /\ UNCHANGED crashed ELSE PlayerStart
    /\ UNCHANGED <<surf, source, events, tick, vvars>>

(* The seek bar; a video with a duration is moved by the native player.     *)
Seek ==
    /\ UserTurn
    /\ ui.bar /\ attached
    /\ \E t \in 0..MaxProgress : v' = [v EXCEPT !.progress = t]
    /\ UNCHANGED <<pvars, tex, attached, full>>

(* enterFullScreen, exitFullScreen: the container changes its parent. *)
ToggleFullScreen ==
    /\ UserTurn
    /\ attached
    /\ full' = ~full
    /\ tex' = [tex EXCEPT !.available = FALSE]
    /\ UNCHANGED <<pvars, v, attached>>

(* onDetachedFromWindow releases the saved texture under the player. *)
Detach ==
    /\ UserTurn
    /\ attached
    /\ attached' = FALSE
    /\ tex' = [available |-> FALSE, saved |-> FALSE]
    /\ surf' = IF surf = "live" THEN "released" ELSE surf
    /\ UNCHANGED <<p, ijk, source, events, ui, tick, crashed, v, full>>

Attach ==
    /\ UserTurn
    /\ ~attached
    /\ attached' = TRUE
    /\ UNCHANGED <<pvars, v, tex, full>>

(* onSurfaceTextureAvailable: the first texture goes to the player, later   *)
(* ones are dropped for the saved one, which the player has.                *)
TextureAvailable ==
    /\ ~crashed
    /\ attached /\ ~tex.available
    /\ tex' = [available |-> TRUE, saved |-> TRUE]
    /\ surf' = IF ~tex.saved /\ ijk \notin {"none", "end"} THEN "live" ELSE surf
    /\ UNCHANGED <<p, ijk, source, events, ui, tick, crashed, v, attached, full>>

-----------------------------------------------------------------------------
User == ClientInit \/ ClientSetDataSource \/ ClientPrepare \/ ClientStart \/ ClientPause
        \/ ClientStop \/ ClientRelease \/ ClickStart \/ Seek \/ ToggleFullScreen \/ Detach \/ Attach

Next ==
    \/ (Listen \/ RunTick) /\ UNCHANGED <<tex, attached, full>>
    \/ (Native \/ TimerFires) /\ UNCHANGED vvars
    \/ TextureAvailable
    \/ User

(* The looper delivers what the native player posted, the native player     *)
(* prepares or fails, and a view in a window gets its texture.              *)
Fairness ==
    /\ WF_vars(Listen /\ UNCHANGED <<tex, attached, full>>)
    /\ WF_vars(~crashed /\ NativePrepared /\ UNCHANGED <<p, surf, ui, tick, crashed, vvars>>)
    /\ WF_vars(TextureAvailable)

Spec == Init /\ [][Next]_vars
FairSpec == Spec /\ Fairness

-----------------------------------------------------------------------------
(* Every environment. *)

(* status tells a client what it may call, with one exception: whoever goes *)
(* by it and by hasPrepared calls the native player in a state that throws  *)
(* only by preparing it after setDataSource has swallowed an IOException.   *)
ThrowsOnlyUnsourced == crashed => source.given = "refused"

(* So it never does when every data source is taken.                        *)
NeverCrashes == ~crashed

(* Nothing plays that nobody asked for, whatever start, pause and stop the  *)
(* answers of the native player cross.                                      *)
NothingUnasked == ijk = "started" => p.isStart

(* The progress timer runs exactly while the button offers to pause: it is  *)
(* not left running by a stop, a release or a completion.                   *)
TimerWithIcon == ui.timer <=> ui.icon = "pause"

(* A player that was stopped or released has told the view: no count of     *)
(* time and no waiting for a buffer is left over for the next data source.  *)
FreshWhenIdle ==
    ijk \in {"none", "idle", "initialized", "end"} => ~v.counting /\ ~v.isBuffering

-----------------------------------------------------------------------------
(* The patient environment. *)

Settled == ~crashed /\ events = <<>>

(* A wish to play is never left over: the button does not have to be        *)
(* pressed twice.                                                           *)
WishFulfilled == Settled /\ p.isStart => ijk \notin {"prepared", "paused", "completed"}

(* The button shows what the player does. *)
IconHonest ==
    Settled =>
      /\ ui.icon = "pause" => ijk \in {"preparing", "started", "error"}
      /\ ui.icon = "play" => ijk # "started"

(* Over stops, releases and full screen the player draws on the texture     *)
(* that is on the screen.                                                   *)
SurfaceGiven ==
    (tex.available /\ ijk \notin {"none", "end"}) => surf = "live"

(* A start asked for while the player prepares leads to playing. *)
StartIsHonoured ==
    (p.isStart /\ ijk \in {"preparing", "prepared"}) ~>
      (ijk \in {"started", "error"} \/ ~p.isStart)
=============================================================================
