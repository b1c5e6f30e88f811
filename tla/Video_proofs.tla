----------------------------- MODULE Video_proofs -----------------------------
(***************************************************************************)
(* Theorems of VideoView, for every length of the looper's queue, every     *)
(* length of a live stream, every habit of the client and every fault.      *)
(***************************************************************************)
EXTENDS VideoView, SequenceTheorems, TLAPS

(* An event taken leaves a shorter queue of events, one posted a longer one *)
(* within the bound.                                                        *)
LEMMA TakeType ==
  ASSUME TypeOK, NEW e, Take(e)
  PROVE  events' \in Seq(Events) /\ Len(events') <= MaxEvents /\ events # <<>>
<1>1. events \in Seq(Events) /\ events # <<>> /\ Len(events) <= MaxEvents
      /\ MaxEvents \in Nat /\ events' = Tail(events)
  BY VideoBounds DEF TypeOK, Take
<1>2. Tail(events) \in Seq(Events) /\ Len(Tail(events)) = Len(events) - 1
  BY <1>1, HeadTailProperties
<1>3. Len(events) \in Nat
  BY <1>1, LenProperties
<1>. QED  BY <1>1, <1>2, <1>3

(* A queue that is not full takes an event.                                *)
LEMMA PostType ==
  ASSUME TypeOK, NEW e \in Events, Post(e)
  PROVE  events' \in Seq(Events) /\ Len(events') <= MaxEvents
<1>1. events \in Seq(Events) /\ MaxEvents \in Nat /\ Len(events) \in Nat
  BY VideoBounds, LenProperties DEF TypeOK
<1>2. events' \in Seq(Events) /\ Len(events') = Len(events) + 1
  BY <1>1, AppendProperties DEF Post
<1>. QED  BY <1>1, <1>2 DEF Post

(* The empty queue.                                                        *)
LEMMA EmptyType == <<>> \in Seq(Events) /\ Len(<<>>) <= MaxEvents
BY VideoBounds

(* What is needed of the numbers: the record proofs do not look inside.     *)
LEMMA Statuses ==
  /\ {INIT, PREPARING, PREPARED, PLAY_START, PAUSE, STOP, ERROR} \subseteq INIT..COMPLETE
  /\ {PREPARING, PREPARED, PLAY_START, PAUSE, ERROR} \cap {INIT, STOP} = {}
  /\ STOP # INIT
BY DEF INIT, PREPARING, PREPARED, PLAY_START, PAUSE, STOP, COMPLETE, ERROR

(* What a view counts from, for a new data source.                         *)
LEMMA FreshTyped == Fresh \in ViewState /\ ~Fresh.counting /\ ~Fresh.isBuffering
BY VideoBounds DEF Fresh, ViewState

(* What a callback of the controller makes of its views and timer.  Those   *)
(* that set the button set the timer with it, the others leave both alone.  *)
LEMMA ViewsTyped ==
  ASSUME NEW u \in ControllerUI
  PROVE  /\ {OnLoad(u), OnPlay(u), OnPause(u), OnStop(u), OnRelease(u), OnRenderingStart(u),
             OnBufferStart(u), OnBufferComplete(u), OnPlayComplete(u), OnError(u)}
               \subseteq ControllerUI
         /\ OnPlay(u).timer = TRUE /\ OnPlay(u).icon = "pause"
         /\ \A w \in {OnPause(u), OnStop(u), OnRelease(u)} :
              w.timer = FALSE /\ w.icon = "play"
         /\ \A w \in {OnLoad(u), OnRenderingStart(u), OnBufferStart(u), OnBufferComplete(u),
                      OnPlayComplete(u), OnError(u)} :
              w.timer = u.timer /\ w.icon = u.icon
<1>. USE DEF ControllerUI
<1>1. OnLoad(u) \in ControllerUI /\ OnLoad(u).timer = u.timer /\ OnLoad(u).icon = u.icon
  BY DEF OnLoad
<1>2. OnPlay(u) \in ControllerUI /\ OnPlay(u).timer = TRUE /\ OnPlay(u).icon = "pause"
  BY DEF OnPlay
<1>3. OnPause(u) \in ControllerUI /\ OnPause(u).timer = FALSE /\ OnPause(u).icon = "play"
  BY DEF OnPause
<1>4. OnStop(u) \in ControllerUI /\ OnStop(u).timer = FALSE /\ OnStop(u).icon = "play"
  BY DEF OnStop
<1>5. OnRelease(u) \in ControllerUI /\ OnRelease(u).timer = FALSE /\ OnRelease(u).icon = "play"
  BY DEF OnRelease
<1>6. /\ OnRenderingStart(u) \in ControllerUI
      /\ OnRenderingStart(u).timer = u.timer /\ OnRenderingStart(u).icon = u.icon
  BY DEF OnRenderingStart
<1>7. /\ OnBufferStart(u) \in ControllerUI
      /\ OnBufferStart(u).timer = u.timer /\ OnBufferStart(u).icon = u.icon
  BY DEF OnBufferStart
<1>8. /\ OnBufferComplete(u) \in ControllerUI
      /\ OnBufferComplete(u).timer = u.timer /\ OnBufferComplete(u).icon = u.icon
  BY DEF OnBufferComplete
<1>9. /\ OnPlayComplete(u) \in ControllerUI
      /\ OnPlayComplete(u).timer = u.timer /\ OnPlayComplete(u).icon = u.icon
  BY DEF OnPlayComplete
<1>10. OnError(u) \in ControllerUI /\ OnError(u).timer = u.timer /\ OnError(u).icon = u.icon
  BY DEF OnError
<1>. HIDE DEF ControllerUI
<1>. QED  BY <1>1, <1>2, <1>3, <1>4, <1>5, <1>6, <1>7, <1>8, <1>9, <1>10

(***************************************************************************)
(* What the properties rest on: an idle player has nothing posted, status   *)
(* INIT or STOP means that it is idle, a released player has INIT, and an   *)
(* idle player for which setDataSource was called is one that refused.      *)
(***************************************************************************)
NoPlayer == {"none", "idle", "initialized", "end"}

IdleIsQuiet == ijk \in NoPlayer => events = <<>>

StatusIdle ==
  /\ p.status \in {INIT, STOP} => ijk \in NoPlayer
  /\ ijk = "end" => p.status = INIT

SourceInv ==
  /\ ijk = "initialized" => source.given = "source"
  /\ ijk = "idle" => source.given # "source"
  /\ source.given = "refused" => ijk = "idle" /\ "noSource" \in Faults

VideoInv ==
  /\ TypeOK
  /\ IdleIsQuiet
  /\ StatusIdle
  /\ SourceInv
  /\ ThrowsOnlyUnsourced
  /\ NothingUnasked
  /\ TimerWithIcon
  /\ FreshWhenIdle

(* The player starts idle, with nothing posted.                            *)
LEMMA VideoInit == Init => VideoInv
<1>. SUFFICES ASSUME Init PROVE VideoInv
  OBVIOUS
<1>1. p \in PlayerState /\ p.status = INIT
  BY DEF Init, PlayerInit, PlayerState, INIT, COMPLETE
<1>2. ui \in ControllerUI /\ ui.timer = FALSE /\ ui.icon = "play"
  BY DEF Init, PlayerInit, ControllerUI
<1>3. v \in ViewState /\ ~v.counting /\ ~v.isBuffering
  BY FreshTyped DEF Init
<1>4. source \in SourceState /\ source.given = "nothing"
  BY DEF Init, PlayerInit, SourceState, NoSource
<1>5. tex \in [available : BOOLEAN, saved : BOOLEAN] /\ attached \in BOOLEAN /\ full \in BOOLEAN
  BY DEF Init
<1>6. /\ ijk = "none" /\ surf = "none" /\ events = <<>> /\ tick = FALSE /\ crashed = FALSE
      /\ ijk \in IjkStates
  BY DEF Init, PlayerInit, IjkStates
<1>. QED
  BY <1>1, <1>2, <1>3, <1>4, <1>5, <1>6, EmptyType
     DEF VideoInv, TypeOK, IdleIsQuiet, StatusIdle, SourceInv, ThrowsOnlyUnsourced,
         NothingUnasked, TimerWithIcon, FreshWhenIdle, NoPlayer

(* The listeners: only a player that is not idle has posted anything.       *)
LEMMA VideoListen ==
  ASSUME VideoInv, Listen, UNCHANGED <<tex, attached, full>>
  PROVE  VideoInv'
<1>. USE DEF VideoInv, ThrowsOnlyUnsourced, NothingUnasked, TimerWithIcon, FreshWhenIdle,
             IdleIsQuiet, StatusIdle, SourceInv, NoPlayer
<1>0. /\ p \in PlayerState /\ ijk \in IjkStates /\ ui \in ControllerUI /\ v \in ViewState
      /\ TypeOK
  BY DEF TypeOK
<1>1. CASE OnPrepared /\ UNCHANGED v
  <2>1. events # <<>> /\ events' \in Seq(Events) /\ Len(events') <= MaxEvents
    BY <1>1, TakeType DEF OnPrepared
  <2>2. /\ ijk \notin NoPlayer /\ ijk' \in IjkStates \ NoPlayer
        /\ ijk' = IF p.isStart THEN IjkStart(ijk) ELSE ijk
    BY <1>0, <1>1, <2>1 DEF OnPrepared, IjkStart, IjkStates
  <2>3. p' \in PlayerState /\ p'.status = PREPARED /\ p'.isStart = p.isStart
    BY <1>0, <1>1, Statuses DEF OnPrepared, PlayerState
  <2>4. ui' = IF p.isStart THEN OnPlay(OnLoad(ui)) ELSE ui
    BY <1>1 DEF OnPrepared
  <2>5. ui' \in ControllerUI /\ (ui'.timer <=> ui'.icon = "pause")
    <3>1. OnLoad(ui) \in ControllerUI
      BY <1>0, ViewsTyped
    <3>. QED  BY <1>0, <2>4, <3>1, ViewsTyped
  <2>6. UNCHANGED <<surf, source, tick, crashed, v>>
    BY <1>1 DEF OnPrepared
  <2>. QED  BY <2>1, <2>2, <2>3, <2>5, <2>6, Statuses DEF TypeOK
<1>2. CASE OnRendering
  <2>1. events # <<>> /\ events' \in Seq(Events) /\ Len(events') <= MaxEvents
    BY <1>0, <1>2, TakeType DEF OnRendering
  <2>2. p' \in PlayerState /\ p'.status = PLAY_START /\ p'.isStart = p.isStart
    BY <1>0, <1>2, Statuses DEF OnRendering, PlayerState
  <2>3. ui' \in ControllerUI /\ (ui'.timer <=> ui'.icon = "pause")
    BY <1>0, <1>2, ViewsTyped DEF OnRendering
  <2>4. v' \in ViewState
    BY <1>0, <1>2 DEF OnRendering, ViewState
  <2>5. UNCHANGED <<ijk, surf, source, tick, crashed>>
    BY <1>2 DEF OnRendering
  <2>. QED  BY <2>1, <2>2, <2>3, <2>4, <2>5, Statuses DEF TypeOK
<1>3. CASE OnBuffering
  <2>1. events # <<>> /\ events' \in Seq(Events) /\ Len(events') <= MaxEvents
    BY <1>0, <1>3, TakeType DEF OnBuffering
  <2>2. p' \in PlayerState /\ p'.status = p.status /\ p'.isStart = p.isStart
    BY <1>0, <1>3 DEF OnBuffering, PlayerState
  <2>3. ui' \in ControllerUI /\ (ui'.timer <=> ui'.icon = "pause")
    <3>1. ui' = OnBufferStart(ui) \/ ui' = OnBufferComplete(ui)
      BY <1>3 DEF OnBuffering
    <3>2. CASE ui' = OnBufferStart(ui)
      BY <1>0, <3>2, ViewsTyped
    <3>3. CASE ui' = OnBufferComplete(ui)
      BY <1>0, <3>3, ViewsTyped
    <3>. QED  BY <3>1, <3>2, <3>3
  <2>4. v' \in ViewState
    BY <1>0, <1>3 DEF OnBuffering, ViewState
  <2>5. UNCHANGED <<ijk, surf, source, tick, crashed>>
    BY <1>3 DEF OnBuffering
  <2>. QED  BY <2>1, <2>2, <2>3, <2>4, <2>5 DEF TypeOK
<1>4. CASE OnCompletion
  <2>1. events # <<>> /\ events' \in Seq(Events) /\ Len(events') <= MaxEvents
    BY <1>0, <1>4, TakeType DEF OnCompletion
  <2>2. ijk' \in IjkStates \ NoPlayer /\ ijk' # "started"
    BY <1>0, <1>4, <2>1 DEF OnCompletion, PlayerPause, IsPlaying, IjkStates
  <2>3. p' \in PlayerState /\ p'.status = PAUSE
    BY <1>0, <1>4, Statuses DEF OnCompletion, PlayerPause, PlayerState
  <2>4. ui' \in ControllerUI /\ (ui'.timer <=> ui'.icon = "pause")
    <3>1. OnPlayComplete(ui) \in ControllerUI
      BY <1>0, ViewsTyped
    <3>. QED  BY <1>4, <3>1, ViewsTyped DEF OnCompletion, PlayerPause
  <2>5. v' \in ViewState
    BY <1>4, FreshTyped DEF OnCompletion
  <2>6. UNCHANGED <<surf, source, tick, crashed>>
    BY <1>4 DEF OnCompletion
  <2>. QED  BY <2>1, <2>2, <2>3, <2>4, <2>5, <2>6, Statuses DEF TypeOK
<1>5. CASE OnPlayerError
  <2>1. events # <<>> /\ events' \in Seq(Events) /\ Len(events') <= MaxEvents
    BY <1>0, <1>5, TakeType DEF OnPlayerError
  <2>2. p' \in PlayerState /\ p'.status = ERROR /\ p'.isStart = p.isStart
    BY <1>0, <1>5, Statuses DEF OnPlayerError, PlayerState
  <2>3. ui' \in ControllerUI /\ (ui'.timer <=> ui'.icon = "pause")
    BY <1>0, <1>5, ViewsTyped DEF OnPlayerError
  <2>4. v' \in ViewState
    BY <1>5, FreshTyped DEF OnPlayerError
  <2>5. UNCHANGED <<ijk, surf, source, tick, crashed>>
    BY <1>5 DEF OnPlayerError
  <2>. QED  BY <2>1, <2>2, <2>3, <2>4, <2>5, Statuses DEF TypeOK
<1>. QED  BY <1>1, <1>2, <1>3, <1>4, <1>5 DEF Listen

(* The native player moves only while it is not idle, and never starts.     *)
LEMMA VideoNative ==
  ASSUME VideoInv, Native, UNCHANGED vvars
  PROVE  VideoInv'
<1>1. events' \in Seq(Events) /\ Len(events') <= MaxEvents
  BY PostType DEF VideoInv, Native, NativePrepared, NativeRendering, NativeBuffering,
      NativeComplete, NativeError, Events
<1>2. /\ ijk \notin NoPlayer /\ ijk' \in IjkStates \ NoPlayer
      /\ ijk' = "started" => ijk = "started"
      /\ source' \in SourceState /\ source'.given = source.given
  BY DEF VideoInv, TypeOK, Native, NativePrepared, NativeRendering, NativeBuffering,
      NativeComplete, NativeError, NoPlayer, IjkStates, SourceState
<1>3. UNCHANGED <<p, surf, ui, tick, crashed, v, tex, attached, full>>
  BY DEF Native, vvars
<1>. QED
  BY <1>1, <1>2, <1>3 DEF VideoInv, TypeOK, IdleIsQuiet, StatusIdle, SourceInv,
      ThrowsOnlyUnsourced, NothingUnasked, TimerWithIcon, FreshWhenIdle, NoPlayer

(* The timer: a stopped one may have left a runnable, which counts nothing  *)
(* and starts nothing.                                                      *)
LEMMA VideoTimer ==
  ASSUME VideoInv,
         \/ TimerFires /\ UNCHANGED vvars
         \/ RunTick /\ UNCHANGED <<tex, attached, full>>
  PROVE  VideoInv'
<1>. USE DEF VideoInv, ThrowsOnlyUnsourced, NothingUnasked, TimerWithIcon, FreshWhenIdle,
             IdleIsQuiet, StatusIdle, SourceInv, NoPlayer
<1>1. CASE TimerFires /\ UNCHANGED vvars
  BY <1>1 DEF TimerFires, vvars, TypeOK
<1>2. CASE RunTick /\ UNCHANGED <<tex, attached, full>>
  <2>1. /\ v' \in ViewState
        /\ v'.counting = v.counting /\ v'.isBuffering = v.isBuffering
    BY <1>2, VideoBounds DEF RunTick, TypeOK, ViewState
  <2>2. /\ ui' \in ControllerUI
        /\ ui'.icon = ui.icon /\ ui'.timer = ui.timer
    BY <1>2 DEF RunTick, TypeOK, ControllerUI, OnPlayComplete
  <2>3. /\ UNCHANGED <<p, ijk, surf, source, events, crashed, tex, attached, full>>
        /\ tick' = FALSE
    BY <1>2 DEF RunTick
  <2>4. TypeOK'
    BY <2>1, <2>2, <2>3 DEF TypeOK
  <2>. HIDE DEF VideoInv
  <2>5. VideoInv => IdleIsQuiet /\ StatusIdle /\ SourceInv /\ ThrowsOnlyUnsourced
                    /\ NothingUnasked /\ TimerWithIcon /\ FreshWhenIdle
    BY DEF VideoInv
  <2>. QED  BY <2>1, <2>2, <2>3, <2>4, <2>5 DEF VideoInv
<1>. QED  BY <1>1, <1>2

(* start and pause, by a client or by the button. *)
LEMMA VideoStart ==
  ASSUME VideoInv, ~crashed, PlayerStart, UNCHANGED <<surf, source, events, tick, vvars>>
  PROVE  VideoInv'
<1>. USE DEF VideoInv, ThrowsOnlyUnsourced, NothingUnasked, TimerWithIcon, FreshWhenIdle,
             IdleIsQuiet, StatusIdle, SourceInv, NoPlayer
<1>0. p \in PlayerState /\ ijk \in IjkStates /\ ui \in ControllerUI
  BY DEF TypeOK
<1>1. /\ ijk' \in IjkStates /\ crashed' = crashed
      /\ ijk' \in NoPlayer => ijk' = ijk
      /\ ijk \in NoPlayer => ijk' = ijk
  <2>1. CASE p.status \in {PREPARED, PAUSE}
    <3>1. ijk # "end"
      BY <2>1, Statuses
    <3>2. crashed' = FALSE /\ crashed = FALSE
      BY <2>1, <3>1 DEF PlayerStart, TypeOK
    <3>. QED  BY <1>0, <2>1, <3>1, <3>2 DEF PlayerStart, IjkStart, IjkStates
  <2>2. CASE p.status \notin {PREPARED, PAUSE}
    BY <1>0, <2>2 DEF PlayerStart
  <2>. QED  BY <2>1, <2>2
<1>2. p' \in PlayerState /\ p'.status = p.status /\ p'.isStart
  BY <1>0 DEF PlayerStart, PlayerState
<1>3. ui' \in ControllerUI /\ (ui'.timer <=> ui'.icon = "pause")
  <2>1. OnLoad(ui) \in ControllerUI
    BY <1>0, ViewsTyped
  <2>2. ui' \in {ui, OnPlay(ui), OnPlay(OnLoad(ui))}
    BY DEF PlayerStart
  <2>3. CASE ui' = ui
    BY <1>0, <2>3
  <2>4. CASE ui' = OnPlay(ui)
    BY <1>0, <2>4, ViewsTyped
  <2>5. CASE ui' = OnPlay(OnLoad(ui))
    BY <2>1, <2>5, ViewsTyped
  <2>. QED  BY <2>2, <2>3, <2>4, <2>5
<1>. QED  BY <1>1, <1>2, <1>3 DEF TypeOK, vvars

(* pause() as the other methods call it.                                   *)
LEMMA VideoPause ==
  ASSUME VideoInv, p.status # INIT, PlayerPause(p, ui),
         UNCHANGED <<crashed, surf, source, events, tick, vvars>>
  PROVE  VideoInv'
<1>. USE DEF VideoInv, ThrowsOnlyUnsourced, NothingUnasked, TimerWithIcon, FreshWhenIdle,
             IdleIsQuiet, StatusIdle, SourceInv, NoPlayer
<1>0. p \in PlayerState /\ ijk \in IjkStates /\ ui \in ControllerUI
  BY DEF TypeOK
<1>1. /\ ijk' \in IjkStates /\ ijk' # "started" /\ ijk' # "end"
      /\ ijk' \in NoPlayer => ijk' = ijk
      /\ ijk \in NoPlayer => ijk' = ijk
  BY <1>0 DEF PlayerPause, IsPlaying, IjkStates
<1>2. p' \in PlayerState /\ p'.status = PAUSE
  BY <1>0, Statuses DEF PlayerPause, PlayerState
<1>3. ui' \in ControllerUI /\ (ui'.timer <=> ui'.icon = "pause")
  BY <1>0, ViewsTyped DEF PlayerPause
<1>. QED  BY <1>1, <1>2, <1>3, Statuses DEF TypeOK, vvars

(* init, setDataSource, prepare, start, pause, stop and release by a client *)
(* that goes by status: what each needs of the native player is what        *)
(* StatusIdle says, but for the data source.                                *)
LEMMA VideoClient ==
  ASSUME VideoInv, ClientInit \/ ClientSetDataSource \/ ClientPrepare \/ ClientStart
                   \/ ClientPause \/ ClientStop \/ ClientRelease
  PROVE  VideoInv'
<1>. USE DEF VideoInv, ThrowsOnlyUnsourced, NothingUnasked, TimerWithIcon, FreshWhenIdle,
             IdleIsQuiet, StatusIdle, SourceInv, NoPlayer
<1>0. p \in PlayerState /\ ijk \in IjkStates /\ ui \in ControllerUI /\ source \in SourceState
  BY DEF TypeOK
<1>01. /\ NoSource \in SourceState /\ NoSource.given = "nothing"
       /\ \A live \in BOOLEAN :
            [NoSource EXCEPT !.given = "source", !.live = live] \in SourceState
       /\ [NoSource EXCEPT !.given = "refused"] \in SourceState
  BY DEF NoSource, SourceState
<1>1. CASE ClientInit
  <2>1. p' \in PlayerState /\ p'.status = INIT /\ p'.isStart = p.isStart
    BY <1>0, <1>1, Statuses DEF ClientInit, PlayerNew, PlayerState
  <2>2. /\ ijk' = "idle" /\ ijk' \in IjkStates /\ events' = <<>> /\ source' \in SourceState
        /\ source'.given = "nothing" /\ ijk \in NoPlayer /\ ~crashed
    BY <1>01, <1>1 DEF ClientInit, UserTurn, PlayerNew, IjkStates
  <2>3. UNCHANGED <<ui, tick, crashed, v, tex, attached, full>> /\ surf' \in {"live", "none"}
    BY <1>1 DEF ClientInit, PlayerNew, vvars
  <2>. QED  BY <2>1, <2>2, <2>3, EmptyType DEF TypeOK
<1>2. CASE ClientPrepare
  <2>1. /\ ijk \in {"idle", "initialized"} /\ ~crashed
        /\ ijk = "idle" => source.given = "refused"
    BY <1>0, <1>2 DEF ClientPrepare, UserTurn, SourceState
  <2>2. UNCHANGED <<source, surf, events, ui, tick, v, tex, attached, full>>
    BY <1>2 DEF ClientPrepare, PlayerPrepare, vvars
  <2>3. CASE ijk = "initialized"
    <3>1. /\ ijk' = "preparing" /\ ijk' \in IjkStates /\ UNCHANGED crashed
          /\ p' = [p EXCEPT !.status = PREPARING]
      BY <1>2, <2>3 DEF ClientPrepare, PlayerPrepare, IjkStates
    <3>2. p' \in PlayerState /\ p'.status = PREPARING /\ p'.isStart = p.isStart
      BY <1>0, <3>1, Statuses DEF PlayerState
    <3>. QED  BY <2>2, <2>3, <3>1, <3>2, Statuses DEF TypeOK
  <2>4. CASE ijk = "idle"
    <3>1. crashed' = TRUE /\ UNCHANGED <<ijk, p>>
      BY <1>2, <2>4 DEF ClientPrepare, PlayerPrepare
    <3>. QED  BY <2>1, <2>2, <2>4, <3>1 DEF TypeOK
  <2>. QED  BY <2>1, <2>3, <2>4
<1>3. CASE ClientSetDataSource
  <2>1. PICK live \in BOOLEAN : PlayerSetDataSource(live)
    BY <1>3 DEF ClientSetDataSource
  <2>2. ijk = "idle" /\ ~crashed
    BY <1>3 DEF ClientSetDataSource, UserTurn
  <2>3. UNCHANGED <<p, surf, events, ui, tick, crashed, v, tex, attached, full>>
    BY <1>3, <2>1, <2>2 DEF ClientSetDataSource, PlayerSetDataSource, vvars
  <2>4. source' \in SourceState /\ ijk' \in IjkStates
    BY <1>01, <2>1, <2>2 DEF PlayerSetDataSource, IjkStates
  <2>5. \/ ijk' = "initialized" /\ source'.given = "source"
        \/ ijk' = "idle" /\ source'.given = "refused" /\ "noSource" \in Faults
    BY <2>1, <2>2 DEF PlayerSetDataSource, NoSource
  <2>. QED  BY <2>2, <2>3, <2>4, <2>5 DEF TypeOK
<1>4. CASE ClientStart
  BY <1>4, VideoStart DEF ClientStart, UserTurn
<1>5. CASE ClientPause
  BY <1>5, VideoPause DEF ClientPause
<1>6. CASE ClientStop
  <2>1. v' \in ViewState /\ ~v'.counting /\ ~v'.isBuffering
    BY <1>6, FreshTyped DEF ClientStop
  <2>2. ui' \in ControllerUI /\ (ui'.timer <=> ui'.icon = "pause")
    BY <1>0, <1>6, ViewsTyped DEF ClientStop, PlayerStop
  <2>3. UNCHANGED <<tick, tex, attached, full>> /\ surf' \in {"live", "none", surf}
    BY <1>6 DEF ClientStop
  <2>4. CASE Resets
    <3>1. ijk' = "idle" /\ ijk' \in IjkStates /\ events' = <<>> /\ crashed' = FALSE
      BY <1>6, <2>4 DEF ClientStop, PlayerStop, IjkStates
    <3>2. p' \in PlayerState /\ p'.status = STOP
      BY <1>0, <1>6, <2>4, Statuses DEF ClientStop, PlayerStop, PlayerState
    <3>3. source' \in SourceState /\ source'.given = "nothing"
      BY <1>01, <1>6, <2>4 DEF ClientStop, PlayerStop
    <3>. QED  BY <2>1, <2>2, <2>3, <3>1, <3>2, <3>3, EmptyType, Statuses DEF TypeOK
  <2>5. CASE ~Resets
    <3>1. UNCHANGED <<ijk, source, events, crashed>> /\ ijk # "started"
      BY <1>6, <2>5 DEF ClientStop, PlayerStop, Resets, IsPlaying
    <3>2. p' \in PlayerState /\ p'.status = p.status
      BY <1>0, <1>6, <2>5 DEF ClientStop, PlayerStop, PlayerState
    <3>. QED  BY <2>1, <2>2, <2>3, <3>1, <3>2 DEF TypeOK
  <2>. QED  BY <2>4, <2>5
<1>7. CASE ClientRelease
  <2>1. crashed' = FALSE
    BY <1>7, Statuses DEF ClientRelease, PlayerRelease
  <2>2. /\ ijk' \in {"none", "end"} /\ ijk' \in IjkStates /\ events' = <<>>
        /\ surf' = "none" /\ source' \in SourceState /\ source'.given = "nothing"
    BY <1>01, <1>7 DEF ClientRelease, PlayerRelease, IjkStates
  <2>3. p' \in PlayerState /\ p'.status = INIT
    BY <1>0, <1>7, Statuses DEF ClientRelease, PlayerRelease, PlayerState
  <2>4. ui' \in ControllerUI /\ (ui'.timer <=> ui'.icon = "pause")
    BY <1>0, <1>7, ViewsTyped DEF ClientRelease, PlayerRelease
  <2>5. v' \in ViewState /\ ~v'.counting /\ ~v'.isBuffering
    BY <1>7, FreshTyped DEF ClientRelease
  <2>6. UNCHANGED <<tick, tex, attached, full>>
    BY <1>7 DEF ClientRelease
  <2>. QED  BY <2>1, <2>2, <2>3, <2>4, <2>5, <2>6, EmptyType DEF TypeOK
<1>. QED  BY <1>1, <1>2, <1>3, <1>4, <1>5, <1>6, <1>7

(* The start button.                                                       *)
LEMMA VideoClick ==
  ASSUME VideoInv, ClickStart
  PROVE  VideoInv'
<1>1. CASE IsPlaying
  <2>1. PlayerPause(p, ui) /\ UNCHANGED <<crashed, surf, source, events, tick, vvars>>
    BY <1>1 DEF ClickStart
  <2>2. p.status # INIT
    BY <1>1 DEF IsPlaying, VideoInv, StatusIdle, NoPlayer
  <2>. QED  BY <2>1, <2>2, VideoPause
<1>2. CASE ~IsPlaying
  BY <1>2, VideoStart DEF ClickStart, UserTurn
<1>. QED  BY <1>1, <1>2

(* Seeking, full screen, the window and the texture leave the player alone, *)
(* its surface apart.                                                       *)
LEMMA VideoWindow ==
  ASSUME VideoInv, Seek \/ ToggleFullScreen \/ Detach \/ Attach \/ TextureAvailable
  PROVE  VideoInv'
<1>1. UNCHANGED <<p, ijk, source, events, ui, tick, crashed>>
  BY DEF Seek, ToggleFullScreen, Detach, Attach, TextureAvailable, pvars
<1>2. /\ v' \in ViewState
      /\ v'.counting = v.counting /\ v'.isBuffering = v.isBuffering
  BY DEF VideoInv, TypeOK, Seek, ToggleFullScreen, Detach, Attach, TextureAvailable, vvars,
      ViewState
<1>3. surf' \in {"none", "live", "released"}
  BY DEF VideoInv, TypeOK, Seek, ToggleFullScreen, Detach, Attach, TextureAvailable, pvars
<1>4. tex' \in [available : BOOLEAN, saved : BOOLEAN]
  <2>1. tex \in [available : BOOLEAN, saved : BOOLEAN]
    BY DEF VideoInv, TypeOK
  <2>2. CASE tex' = tex
    BY <2>1, <2>2
  <2>3. CASE tex' = [tex EXCEPT !.available = FALSE]
    BY <2>1, <2>3
  <2>4. CASE \E b \in BOOLEAN : tex' = [available |-> b, saved |-> b]
    BY <2>4
  <2>. QED
    BY <2>2, <2>3, <2>4 DEF Seek, ToggleFullScreen, Detach, Attach, TextureAvailable
<1>5. attached' \in BOOLEAN /\ full' \in BOOLEAN
  <2>1. attached' \in {TRUE, FALSE, attached} /\ full' \in {full, ~full}
    BY DEF Seek, ToggleFullScreen, Detach, Attach, TextureAvailable
  <2>. QED  BY <2>1 DEF VideoInv, TypeOK
<1>. QED
  BY <1>1, <1>2, <1>3, <1>4, <1>5 DEF VideoInv, TypeOK, IdleIsQuiet, StatusIdle, SourceInv,
      ThrowsOnlyUnsourced, NothingUnasked, TimerWithIcon, FreshWhenIdle, NoPlayer

(* The invariant is inductive.                                             *)
LEMMA VideoStep == VideoInv /\ [Next]_vars => VideoInv'
<1>. SUFFICES ASSUME VideoInv, [Next]_vars PROVE VideoInv'
  OBVIOUS
<1>1. CASE (Listen \/ RunTick) /\ UNCHANGED <<tex, attached, full>>
  BY <1>1, VideoListen, VideoTimer
<1>2. CASE (Native \/ TimerFires) /\ UNCHANGED vvars
  BY <1>2, VideoNative, VideoTimer
<1>3. CASE TextureAvailable
  BY <1>3, VideoWindow
<1>4. CASE User
  BY <1>4, VideoClient, VideoClick, VideoWindow DEF User
<1>5. CASE UNCHANGED vars
  BY <1>5 DEF vars, pvars, vvars, VideoInv, TypeOK, IdleIsQuiet, StatusIdle, SourceInv,
      ThrowsOnlyUnsourced, NothingUnasked, TimerWithIcon, FreshWhenIdle
<1>. QED  BY <1>1, <1>2, <1>3, <1>4, <1>5 DEF Next

(* And it holds of every behaviour.                                        *)
LEMMA VideoInvariant == Spec => []VideoInv
BY VideoInit, VideoStep, PTL DEF Spec

(* The state of the view, the player, the controller and the looper is well *)
(* typed, whatever the lengths of queue and stream.                         *)
THEOREM VideoTypeCorrect == Spec => []TypeOK
<1>1. VideoInv => TypeOK
  BY DEF VideoInv
<1>. QED  BY <1>1, VideoInvariant, PTL

(* A client that goes by status and hasPrepared calls the native player in  *)
(* a state that throws only by preparing one whose setDataSource swallowed  *)
(* an IOException, whatever events are on their way (MVideoPlayer.stop,     *)
(* start, release, setDataSource and prepare).                              *)
THEOREM StatusProtects == Spec => []ThrowsOnlyUnsourced
<1>1. VideoInv => ThrowsOnlyUnsourced
  BY DEF VideoInv
<1>. QED  BY <1>1, VideoInvariant, PTL

(* Where the native player takes every data source, such a client never     *)
(* calls it in a state that throws: the catch of setDataSource is the only  *)
(* hole in what status says.                                                *)
THEOREM TakenSourcesNeverThrow ==
  ASSUME "noSource" \notin Faults
  PROVE  Spec => []NeverCrashes
<1>1. VideoInv => NeverCrashes
  BY DEF VideoInv, SourceInv, ThrowsOnlyUnsourced, NeverCrashes
<1>. QED  BY <1>1, VideoInvariant, PTL

(* The native player plays only after a start no pause, stop or release has *)
(* taken back, also when it gets prepared after them (onPreparedListener).  *)
THEOREM PlaysOnlyWhenAsked == Spec => []NothingUnasked
<1>1. VideoInv => NothingUnasked
  BY DEF VideoInv
<1>. QED  BY <1>1, VideoInvariant, PTL

(* The timer runs exactly while the button offers to pause, over every      *)
(* callback of the controller (MVideoController.onPlay, onPause, onStop).   *)
THEOREM TimerFollowsButton == Spec => []TimerWithIcon
<1>1. VideoInv => TimerWithIcon
  BY DEF VideoInv
<1>. QED  BY <1>1, VideoInvariant, PTL

(* What the view counts never survives into the next data source, because   *)
(* an idle player has no event left to deliver (MVideoView.stop, release).  *)
THEOREM NothingLeftOver == Spec => []FreshWhenIdle
<1>1. VideoInv => FreshWhenIdle
  BY DEF VideoInv
<1>. QED  BY <1>1, VideoInvariant, PTL

-----------------------------------------------------------------------------
(***************************************************************************)
(* The surface.  It is the player's as long as its texture is saved: a      *)
(* texture that comes back for a saved one is not given to the player anew. *)
(***************************************************************************)
SurfaceInv ==
  /\ tex.available => tex.saved
  /\ tex.saved => attached
  /\ tex.saved /\ ijk \notin {"none", "end"} => surf = "live"

(***************************************************************************)
(* The wish to play, of a user and a client who wait for the looper.  What  *)
(* is posted follows from what the native player does, and a player that    *)
(* rests with nothing posted was told to rest.                              *)
(***************************************************************************)
Resting(status) == p.status = status /\ ~p.isStart

WishInv ==
  /\ ui.icon = "pause" => p.isStart
  /\ ijk \in NoPlayer => p.status \in {INIT, STOP} /\ ui.icon = "play"
  /\ ijk = "preparing" => events = <<>>
  /\ ijk = "prepared" => IF events = <<>> THEN Resting(PREPARED)
                         ELSE events = <<"prepared">>
  /\ ijk = "started" => /\ events \in Seq({"rendering", "bufferStart", "bufferEnd"})
                        /\ ui.icon = "pause"
  /\ ijk = "paused" => events \in Seq({"bufferStart", "bufferEnd"}) /\ Resting(PAUSE)
  /\ ijk = "completed" =>
       /\ events \in Seq({"rendering", "bufferStart", "bufferEnd", "complete"})
       /\ IF events = <<>> THEN Resting(PAUSE) ELSE events[Len(events)] = "complete"

(* The surface follows the player and the texture.                         *)
LEMMA SurfaceStep ==
  ASSUME "resetInTransit" \notin Habits, TypeOK
  PROVE  SurfaceInv /\ [Next]_vars => SurfaceInv'
<1>. SUFFICES ASSUME SurfaceInv, [Next]_vars PROVE SurfaceInv'
  OBVIOUS
<1>. USE DEF SurfaceInv
<1>1. ASSUME UNCHANGED <<surf, tex, attached>>,
             ijk' \in {"none", "end"} \/ ijk \notin {"none", "end"}
      PROVE  SurfaceInv'
  BY <1>1
<1>2. CASE (Listen \/ RunTick) /\ UNCHANGED <<tex, attached, full>>
  <2>1. UNCHANGED surf
    BY <1>2 DEF Listen, OnPrepared, OnRendering, OnBuffering, OnCompletion, OnPlayerError,
                RunTick
  <2>2. ijk' \in {"none", "end"} \/ ijk \notin {"none", "end"}
    BY <1>2 DEF Listen, OnPrepared, OnRendering, OnBuffering, OnCompletion, OnPlayerError,
                RunTick, PlayerPause, IsPlaying, IjkStart
  <2>. QED  BY <1>1, <1>2, <2>1, <2>2
<1>3. CASE (Native \/ TimerFires) /\ UNCHANGED vvars
  <2>1. UNCHANGED <<surf, tex, attached>>
        /\ (ijk' \in {"none", "end"} \/ ijk \notin {"none", "end"})
    BY <1>3 DEF Native, NativePrepared, NativeRendering, NativeBuffering, NativeComplete,
                NativeError, TimerFires, vvars
  <2>. QED  BY <1>1, <2>1
<1>4. CASE TextureAvailable
  BY <1>4 DEF TextureAvailable
<1>5. CASE ClientInit
  BY <1>5 DEF ClientInit, MayReset, InTransit, vvars
<1>6. CASE ClientSetDataSource \/ ClientPrepare \/ ClientStart \/ ClientPause \/ ClickStart
  <2>1. UNCHANGED <<surf, tex, attached>>
        /\ (ijk' \in {"none", "end"} \/ ijk \notin {"none", "end"})
    BY <1>6 DEF ClientSetDataSource, PlayerSetDataSource, ClientPrepare, PlayerPrepare,
                ClientStart, PlayerStart, ClientPause, PlayerPause, ClickStart, IjkStart,
                IsPlaying, vvars
  <2>. QED  BY <1>1, <2>1
<1>7. CASE ClientStop
  <2>1. ijk' \in {"none", "end"} \/ ijk \notin {"none", "end"} \/ Resets
    BY <1>7 DEF ClientStop, PlayerStop
  <2>. QED  BY <1>7, <2>1 DEF ClientStop, MayReset, InTransit
<1>8. CASE ClientRelease
  BY <1>8 DEF ClientRelease, PlayerRelease
<1>9. CASE Seek \/ ToggleFullScreen \/ Detach \/ Attach
  <2>1. UNCHANGED ijk
    BY <1>9 DEF Seek, ToggleFullScreen, Detach, Attach, pvars
  <2>2. tex \in [available : BOOLEAN, saved : BOOLEAN]
    BY DEF TypeOK
  <2>. QED  BY <1>9, <2>1, <2>2 DEF Seek, ToggleFullScreen, Detach, Attach, pvars
<1>10. CASE UNCHANGED vars
  BY <1>10 DEF vars, pvars, vvars
<1>. QED  BY <1>2, <1>3, <1>4, <1>5, <1>6, <1>7, <1>8, <1>9, <1>10 DEF Next, User

(* Over stops, releases, detachments and full screen the player draws on    *)
(* the texture that is on the screen, if nobody makes or stops a player     *)
(* while the view is between two windows (MVideoView.init, stop).           *)
THEOREM DrawsOnTheTexture ==
  ASSUME "resetInTransit" \notin Habits
  PROVE  Spec => []SurfaceGiven
<1>1. Init => SurfaceInv
  BY DEF Init, PlayerInit, SurfaceInv
<1>2. TypeOK /\ SurfaceInv /\ [Next]_vars => SurfaceInv'
  BY SurfaceStep
<1>3. SurfaceInv => SurfaceGiven
  BY DEF SurfaceInv, SurfaceGiven
<1>. QED  BY <1>1, <1>2, <1>3, VideoTypeCorrect, PTL DEF Spec

-----------------------------------------------------------------------------
(* Taking the event that is due keeps the last one of the queue last.       *)
LEMMA TakeFrom ==
  ASSUME NEW S, events \in Seq(S), NEW e, Take(e)
  PROVE  /\ e \in S /\ events' \in Seq(S)
         /\ events' = <<>> => events[Len(events)] = e
         /\ events' # <<>> => events'[Len(events')] = events[Len(events)]
<1>1. events # <<>> /\ Head(events) = e /\ events' = Tail(events)
  BY DEF Take
<1>2. /\ Head(events) \in S /\ Tail(events) \in Seq(S)
      /\ Len(Tail(events)) = Len(events) - 1
      /\ \A i \in 1..Len(Tail(events)) : Tail(events)[i] = events[i + 1]
  BY <1>1, HeadTailProperties
<1>3. Len(events) \in Nat \ {0} /\ Len(Tail(events)) \in Nat
  BY <1>1, <1>2, EmptySeq, LenProperties
<1>4. ASSUME events' = <<>> PROVE events[Len(events)] = e
  <2>1. Len(events) = 1
    BY <1>1, <1>2, <1>3, <1>4
  <2>2. Head(events) = events[1]
    OBVIOUS
  <2>. QED  BY <1>1, <2>1, <2>2
<1>5. ASSUME events' # <<>> PROVE events'[Len(events')] = events[Len(events)]
  <2>1. Len(Tail(events)) # 0
    BY <1>1, <1>2, <1>5, EmptySeq
  <2>2. Len(Tail(events)) \in 1..Len(Tail(events))
    BY <1>3, <2>1
  <2>3. Tail(events)[Len(Tail(events))] = events[Len(Tail(events)) + 1]
    BY <1>2, <2>2
  <2>4. Len(Tail(events)) + 1 = Len(events)
    BY <1>2, <1>3
  <2>. QED  BY <1>1, <2>3, <2>4
<1>. QED  BY <1>1, <1>2, <1>4, <1>5

(* What is posted is last.                                                 *)
LEMMA PostTo ==
  ASSUME NEW S, events \in Seq(S), NEW e \in S, Post(e)
  PROVE  events' \in Seq(S) /\ events' # <<>> /\ events'[Len(events')] = e
<1>1. events' = Append(events, e)
  BY DEF Post
<1>. QED  BY <1>1, AppendProperties

(* The numbers of the states a client tells apart.                         *)
LEMMA StatusesDiffer == INIT # PREPARED /\ INIT # PAUSE /\ STOP # PREPARED
                        /\ STOP # PAUSE /\ PREPARED # PAUSE /\ STOP # INIT
BY DEF INIT, STOP, PREPARED, PAUSE

(* The listeners take only what the state of the native player has posted.  *)
LEMMA WishListen ==
  ASSUME VideoInv, WishInv, Listen
  PROVE  WishInv'
<1>. DEFINE Playing == {"rendering", "bufferStart", "bufferEnd"}
            Waiting == {"bufferStart", "bufferEnd"}
            Finished == Playing \cup {"complete"}
<1>0. p \in PlayerState /\ ijk \in IjkStates /\ ui \in ControllerUI
  BY DEF VideoInv, TypeOK
<1>1. PICK e : Take(e)
  BY DEF Listen, OnPrepared, OnRendering, OnBuffering, OnCompletion, OnPlayerError
<1>2. events # <<>>
  BY <1>1 DEF Take
<1>3. ijk \in {"prepared", "started", "paused", "completed", "error"}
  BY <1>0, <1>2 DEF VideoInv, IdleIsQuiet, NoPlayer, WishInv, IjkStates
<1>4. ASSUME NEW g, Take(g)
      PROVE  /\ ijk = "prepared" => g = "prepared" /\ events' = <<>>
             /\ ijk = "started" => g \in Playing /\ events' \in Seq(Playing)
             /\ ijk = "paused" => g \in Waiting /\ events' \in Seq(Waiting)
             /\ ijk = "completed" =>
                  /\ g \in Finished /\ events' \in Seq(Finished)
                  /\ events' = <<>> => g = "complete"
                  /\ events' # <<>> => events'[Len(events')] = "complete"
  <2>1. CASE ijk = "prepared"
    <3>1. events = <<"prepared">>
      BY <1>2, <2>1 DEF WishInv
    <3>2. Head(<<"prepared">>) = "prepared" /\ Tail(<<"prepared">>) = <<>>
      OBVIOUS
    <3>. QED  BY <1>4, <2>1, <3>1, <3>2 DEF Take
  <2>2. CASE ijk = "started"
    <3>1. events \in Seq(Playing)
      BY <2>2 DEF WishInv
    <3>. HIDE DEF Playing
    <3>. QED  BY <1>4, <2>2, <3>1, TakeFrom
  <2>3. CASE ijk = "paused"
    <3>1. events \in Seq(Waiting)
      BY <2>3 DEF WishInv
    <3>. HIDE DEF Waiting
    <3>. QED  BY <1>4, <2>3, <3>1, TakeFrom
  <2>4. CASE ijk = "completed"
    <3>1. Finished = {"rendering", "bufferStart", "bufferEnd", "complete"}
      OBVIOUS
    <3>2. events \in Seq(Finished) /\ events[Len(events)] = "complete"
      BY <1>2, <2>4, <3>1 DEF WishInv
    <3>. HIDE DEF Finished
    <3>. QED  BY <1>4, <2>4, <3>2, TakeFrom
  <2>. QED  BY <1>3, <2>1, <2>2, <2>3, <2>4
<1>5. CASE OnPrepared
  <2>1. Take("prepared")
    BY <1>5 DEF OnPrepared
  <2>2. ijk \in {"prepared", "error"} /\ (ijk = "prepared" => events' = <<>>)
    BY <1>3, <1>4, <2>1
  <2>3. p'.isStart = p.isStart /\ p'.status = PREPARED
    BY <1>0, <1>5 DEF OnPrepared, PlayerState
  <2>4. CASE p.isStart
    <3>1. ijk' \in {"started", "error"} /\ (ijk' = "started" => events' = <<>>)
      BY <1>5, <2>2, <2>4 DEF OnPrepared, IjkStart
    <3>2. ui'.icon = "pause"
      <4>1. OnLoad(ui) \in ControllerUI
        BY <1>0, ViewsTyped
      <4>2. ui' = OnPlay(OnLoad(ui))
        BY <1>5, <2>4 DEF OnPrepared
      <4>. QED  BY <4>1, <4>2, ViewsTyped
    <3>3. <<>> \in Seq(Playing)
      OBVIOUS
    <3>. QED  BY <2>3, <2>4, <3>1, <3>2, <3>3 DEF WishInv, NoPlayer
  <2>5. CASE ~p.isStart
    <3>1. ijk' = ijk /\ ui' = ui
      BY <1>5, <2>5 DEF OnPrepared
    <3>. QED  BY <2>2, <2>3, <2>5, <3>1 DEF WishInv, NoPlayer, Resting
  <2>. QED  BY <2>4, <2>5
<1>6. CASE OnRendering \/ OnBuffering
  <2>1. PICK g \in Playing : Take(g)
    BY <1>6 DEF OnRendering, OnBuffering
  <2>2. ijk' = ijk /\ ijk # "prepared"
    BY <1>4, <1>6, <2>1 DEF OnRendering, OnBuffering
  <2>3. p'.isStart = p.isStart
    BY <1>0, <1>6 DEF OnRendering, OnBuffering, PlayerState
  <2>4. ui'.icon = ui.icon
    <3>1. ui' \in {OnRenderingStart(ui), OnBufferStart(ui), OnBufferComplete(ui)}
      BY <1>6 DEF OnRendering, OnBuffering
    <3>2. CASE ui' = OnRenderingStart(ui)
      BY <1>0, <3>2, ViewsTyped
    <3>3. CASE ui' = OnBufferStart(ui)
      BY <1>0, <3>3, ViewsTyped
    <3>4. CASE ui' = OnBufferComplete(ui)
      BY <1>0, <3>4, ViewsTyped
    <3>. QED  BY <3>1, <3>2, <3>3, <3>4
  <2>5. CASE ijk = "started"
    BY <1>4, <2>1, <2>2, <2>3, <2>4, <2>5 DEF WishInv, NoPlayer
  <2>6. CASE ijk = "paused"
    <3>1. OnBuffering
      BY <1>4, <1>6, <2>6 DEF OnRendering
    <3>2. p'.status = p.status
      BY <1>0, <3>1 DEF OnBuffering, PlayerState
    <3>3. events' \in Seq(Waiting)
      BY <1>4, <2>1, <2>6
    <3>. QED  BY <2>2, <2>3, <2>4, <2>6, <3>2, <3>3 DEF WishInv, NoPlayer, Resting
  <2>7. CASE ijk = "completed"
    <3>1. events' \in Seq(Finished) /\ events' # <<>> /\ events'[Len(events')] = "complete"
      BY <1>4, <2>1, <2>7
    <3>2. Finished = {"rendering", "bufferStart", "bufferEnd", "complete"}
      OBVIOUS
    <3>. QED  BY <2>2, <2>3, <2>4, <2>7, <3>1, <3>2 DEF WishInv, NoPlayer
  <2>8. CASE ijk = "error"
    BY <2>2, <2>3, <2>4, <2>8 DEF WishInv, NoPlayer
  <2>. QED  BY <1>3, <2>2, <2>5, <2>6, <2>7, <2>8
<1>7. CASE OnCompletion
  <2>1. Take("complete")
    BY <1>7 DEF OnCompletion
  <2>2. ijk \in {"completed", "error"} /\ ijk' = ijk
    BY <1>3, <1>4, <1>7, <2>1 DEF OnCompletion, PlayerPause, IsPlaying
  <2>3. p'.status = PAUSE /\ ~p'.isStart
    BY <1>0, <1>7 DEF OnCompletion, PlayerPause, PlayerState
  <2>4. ui'.icon = "play"
    <3>1. OnPlayComplete(ui) \in ControllerUI
      BY <1>0, ViewsTyped
    <3>. QED  BY <1>7, <3>1, ViewsTyped, ZenonT(40) DEF OnCompletion, PlayerPause
  <2>5. CASE ijk = "completed"
    <3>1. /\ events' \in Seq(Finished)
          /\ events' # <<>> => events'[Len(events')] = "complete"
      BY <1>4, <2>1, <2>5
    <3>2. Finished = {"rendering", "bufferStart", "bufferEnd", "complete"}
      OBVIOUS
    <3>. QED  BY <2>2, <2>3, <2>4, <2>5, <3>1, <3>2 DEF WishInv, NoPlayer, Resting
  <2>6. CASE ijk = "error"
    BY <2>2, <2>4, <2>6 DEF WishInv, NoPlayer
  <2>. QED  BY <2>2, <2>5, <2>6
<1>8. CASE OnPlayerError
  <2>1. Take("error")
    BY <1>8 DEF OnPlayerError
  <2>2. ijk = "error" /\ ijk' = ijk
    BY <1>3, <1>4, <1>8, <2>1 DEF OnPlayerError
  <2>3. p'.isStart = p.isStart
    BY <1>0, <1>8 DEF OnPlayerError, PlayerState
  <2>4. ui'.icon = ui.icon
    BY <1>0, <1>8, ViewsTyped DEF OnPlayerError
  <2>. QED  BY <2>2, <2>3, <2>4 DEF WishInv, NoPlayer
<1>. QED  BY <1>5, <1>6, <1>7, <1>8 DEF Listen

(* The native player posts what its state admits.                          *)
LEMMA WishNative ==
  ASSUME VideoInv, WishInv, Native
  PROVE  WishInv'
<1>. DEFINE Playing == {"rendering", "bufferStart", "bufferEnd"}
            Waiting == {"bufferStart", "bufferEnd"}
            Finished == {"rendering", "bufferStart", "bufferEnd", "complete"}
<1>1. UNCHANGED <<p, ui>>
  BY DEF Native
<1>2. CASE NativePrepared
  <2>1. events = <<>> /\ events' = Append(events, "prepared") /\ ijk' = "prepared"
    BY <1>2 DEF NativePrepared, WishInv, Post
  <2>2. events' = <<"prepared">> /\ events' # <<>>
    BY <2>1
  <2>. QED  BY <1>1, <2>1, <2>2 DEF WishInv, NoPlayer
<1>3. CASE NativeRendering \/ NativeBuffering
  <2>1. ijk' = ijk /\ ijk \in {"started", "paused"}
    BY <1>3 DEF NativeRendering, NativeBuffering
  <2>2. CASE ijk = "started"
    <3>1. PICK g \in Playing : Post(g)
      BY <1>3 DEF NativeRendering, NativeBuffering
    <3>2. events \in Seq(Playing)
      BY <2>2 DEF WishInv
    <3>3. events' \in Seq(Playing)
      <4>. HIDE DEF Playing
      <4>. QED  BY <3>1, <3>2, PostTo
    <3>. QED  BY <1>1, <2>1, <2>2, <3>3 DEF WishInv, NoPlayer
  <2>3. CASE ijk = "paused"
    <3>1. PICK g \in Waiting : Post(g)
      BY <1>3, <2>3 DEF NativeRendering, NativeBuffering
    <3>2. events \in Seq(Waiting)
      BY <2>3 DEF WishInv
    <3>3. events' \in Seq(Waiting)
      <4>. HIDE DEF Waiting
      <4>. QED  BY <3>1, <3>2, PostTo
    <3>. QED  BY <1>1, <2>1, <2>3, <3>3 DEF WishInv, NoPlayer, Resting
  <2>. QED  BY <2>1, <2>2, <2>3
<1>4. CASE NativeComplete
  <2>1. ijk = "started" /\ ijk' = "completed" /\ Post("complete")
    BY <1>4 DEF NativeComplete
  <2>2. events \in Seq(Playing)
    BY <2>1 DEF WishInv
  <2>3. events \in Seq(Finished)
    <3>1. Playing \subseteq Finished
      OBVIOUS
    <3>. HIDE DEF Playing, Finished
    <3>. QED  BY <2>2, <3>1, SeqMonotonic
  <2>4. events' \in Seq(Finished) /\ events' # <<>> /\ events'[Len(events')] = "complete"
    <3>1. "complete" \in Finished
      OBVIOUS
    <3>. HIDE DEF Finished
    <3>. QED  BY <2>1, <2>3, <3>1, PostTo
  <2>. QED  BY <1>1, <2>1, <2>4 DEF WishInv, NoPlayer
<1>5. CASE NativeError
  <2>1. ijk' = "error"
    BY <1>5 DEF NativeError
  <2>. QED  BY <1>1, <2>1 DEF WishInv, NoPlayer
<1>. QED  BY <1>2, <1>3, <1>4, <1>5 DEF Native

(* start and pause, with nothing waiting in the looper.                    *)
LEMMA WishStartPause ==
  ASSUME VideoInv, WishInv, events = <<>>, UNCHANGED events,
         \/ PlayerStart
         \/ PlayerPause(p, ui) /\ p.status \notin {INIT, STOP}
  PROVE  WishInv'
<1>0. /\ p \in PlayerState /\ ijk \in IjkStates /\ ui \in ControllerUI
      /\ \A S : <<>> \in Seq(S)
  BY DEF VideoInv, TypeOK
<1>1. CASE PlayerStart
  <2>1. p'.isStart /\ p'.status = p.status
    BY <1>0, <1>1 DEF PlayerStart, PlayerState
  <2>2. CASE p.status \in {PREPARED, PAUSE}
    <3>1. ijk \notin NoPlayer
      BY <2>2, StatusesDiffer DEF WishInv
    <3>2. ijk' \in {"preparing", "started", "error"}
      BY <1>0, <1>1, <2>2, <3>1 DEF PlayerStart, IjkStart, IjkStates, NoPlayer
    <3>3. ui'.icon = "pause"
      <4>1. OnLoad(ui) \in ControllerUI
        BY <1>0, ViewsTyped
      <4>2. ui' \in {OnPlay(ui), OnPlay(OnLoad(ui))}
        BY <1>1, <2>2 DEF PlayerStart
      <4>3. CASE ui' = OnPlay(ui)
        BY <1>0, <4>3, ViewsTyped
      <4>4. CASE ui' = OnPlay(OnLoad(ui))
        BY <4>1, <4>4, ViewsTyped
      <4>. QED  BY <4>2, <4>3, <4>4
    <3>4. events' = <<>> /\ events' \in Seq({"rendering", "bufferStart", "bufferEnd"})
      BY <1>0
    <3>. QED  BY <2>1, <3>2, <3>3, <3>4 DEF WishInv, NoPlayer
  <2>3. CASE p.status \notin {PREPARED, PAUSE}
    <3>1. ijk' = ijk /\ ui' = ui
      BY <1>1, <2>3 DEF PlayerStart
    <3>2. ijk \in NoPlayer \cup {"preparing", "started", "error"}
      BY <1>0, <2>3 DEF WishInv, Resting, IjkStates, NoPlayer
    <3>3. events' = <<>> /\ events' \in Seq({"rendering", "bufferStart", "bufferEnd"})
      BY <1>0
    <3>. QED  BY <2>1, <3>1, <3>2, <3>3 DEF WishInv, NoPlayer
  <2>. QED  BY <2>2, <2>3
<1>2. CASE PlayerPause(p, ui) /\ p.status \notin {INIT, STOP}
  <2>1. ijk \notin NoPlayer
    BY <1>2 DEF WishInv
  <2>2. ijk' \in {"preparing", "paused", "completed", "error"}
    BY <1>0, <1>2, <2>1 DEF PlayerPause, IsPlaying, IjkStates, NoPlayer
  <2>3. p'.status = PAUSE /\ ~p'.isStart
    BY <1>0, <1>2 DEF PlayerPause, PlayerState
  <2>4. ui'.icon = "play"
    BY <1>0, <1>2, ViewsTyped DEF PlayerPause
  <2>5. /\ events' = <<>> /\ events' \in Seq({"bufferStart", "bufferEnd"})
        /\ events' \in Seq({"rendering", "bufferStart", "bufferEnd", "complete"})
    BY <1>0
  <2>. QED  BY <2>2, <2>3, <2>4, <2>5 DEF WishInv, NoPlayer, Resting
<1>. QED  BY <1>1, <1>2

(* Every step of the patient environment keeps it.                         *)
LEMMA WishStep ==
  ASSUME Habits \cap {"raceEvents", "pauseStopped"} = {}, VideoInv
  PROVE  WishInv /\ [Next]_vars => WishInv'
<1>. SUFFICES ASSUME WishInv, [Next]_vars PROVE WishInv'
  OBVIOUS
<1>0. p \in PlayerState /\ ijk \in IjkStates /\ ui \in ControllerUI
  BY DEF VideoInv, TypeOK
<1>1. ASSUME UNCHANGED <<p, ijk, events>>, ui'.icon = ui.icon PROVE WishInv'
  BY <1>1 DEF WishInv, Resting
<1>2. UserTurn => events = <<>>
  BY DEF UserTurn
<1>3. CASE Listen
  BY <1>3, WishListen
<1>4. CASE RunTick
  <2>1. ui'.icon = ui.icon
    BY <1>0, <1>4 DEF RunTick, OnPlayComplete, ControllerUI
  <2>. QED  BY <1>1, <1>4, <2>1 DEF RunTick
<1>5. CASE Native
  BY <1>5, WishNative
<1>6. CASE TimerFires
  BY <1>1, <1>6 DEF TimerFires
<1>7. CASE TextureAvailable \/ Seek \/ ToggleFullScreen \/ Detach \/ Attach
  BY <1>1, <1>7 DEF TextureAvailable, Seek, ToggleFullScreen, Detach, Attach, pvars
<1>8. CASE ClientInit
  <2>1. ijk' = "idle" /\ ui' = ui /\ ui.icon = "play"
    BY <1>8 DEF ClientInit, PlayerNew, WishInv, NoPlayer
  <2>2. p'.status = INIT
    BY <1>0, <1>8 DEF ClientInit, PlayerNew, PlayerState
  <2>. QED  BY <2>1, <2>2 DEF WishInv
<1>9. CASE ClientPrepare
  <2>1. events = <<>> /\ events' = events /\ ui' = ui
    BY <1>2, <1>9 DEF ClientPrepare, PlayerPrepare
  <2>2. CASE ijk = "initialized"
    <3>1. ijk' = "preparing"
      BY <1>9, <2>2 DEF ClientPrepare, PlayerPrepare
    <3>2. p'.isStart = p.isStart
      BY <1>0, <1>9, <2>2 DEF ClientPrepare, PlayerPrepare, PlayerState
    <3>. QED  BY <2>1, <3>1, <3>2 DEF WishInv, NoPlayer
  <2>3. CASE ijk # "initialized"
    BY <1>1, <1>9, <2>1, <2>3 DEF ClientPrepare, PlayerPrepare
  <2>. QED  BY <2>2, <2>3
<1>10. CASE ClientSetDataSource
  <2>1. PICK live \in BOOLEAN : PlayerSetDataSource(live)
    BY <1>10 DEF ClientSetDataSource
  <2>2. p' = p /\ events' = events /\ ui' = ui
    BY <2>1 DEF PlayerSetDataSource
  <2>3. CASE ijk' = ijk
    BY <1>1, <2>2, <2>3
  <2>4. CASE ijk = "idle" /\ ijk' = "initialized"
    BY <2>2, <2>4 DEF WishInv, NoPlayer
  <2>. QED  BY <2>1, <2>3, <2>4 DEF PlayerSetDataSource
<1>11. CASE ClientStart
  BY <1>2, <1>11, WishStartPause DEF ClientStart
<1>12. CASE ClientPause
  BY <1>2, <1>12, WishStartPause DEF ClientPause
<1>13. CASE ClickStart
  <2>1. events = <<>> /\ UNCHANGED events
    BY <1>2, <1>13 DEF ClickStart
  <2>2. CASE IsPlaying
    <3>1. p.status \notin {INIT, STOP}
      BY <2>2 DEF IsPlaying, VideoInv, StatusIdle, NoPlayer
    <3>. QED  BY <1>13, <2>1, <2>2, <3>1, WishStartPause DEF ClickStart
  <2>3. CASE ~IsPlaying
    BY <1>13, <2>1, <2>3, WishStartPause DEF ClickStart
  <2>. QED  BY <2>2, <2>3
<1>14. CASE ClientStop
  <2>1. ui'.icon = "play"
    BY <1>0, <1>14, ViewsTyped DEF ClientStop, PlayerStop
  <2>2. events = <<>>
    BY <1>2, <1>14 DEF ClientStop
  <2>3. CASE Resets
    <3>1. ijk' \in {"idle", "end"}
      BY <1>14, <2>3 DEF ClientStop, PlayerStop
    <3>2. p'.status = STOP
      BY <1>0, <1>14, <2>3 DEF ClientStop, PlayerStop, PlayerState
    <3>. QED  BY <2>1, <3>1, <3>2 DEF WishInv
  <2>4. CASE ~Resets
    <3>1. /\ ijk' = ijk /\ events' = <<>>
          /\ ijk \in NoPlayer \cup {"preparing", "error"}
      BY <1>0, <1>14, <2>2, <2>4
         DEF ClientStop, PlayerStop, Resets, IsPlaying, IjkStates, NoPlayer, WishInv, Resting
    <3>2. p'.status = p.status
      BY <1>0, <1>14, <2>4 DEF ClientStop, PlayerStop, PlayerState
    <3>. QED  BY <2>1, <3>1, <3>2 DEF WishInv, NoPlayer
  <2>. QED  BY <2>3, <2>4
<1>15. CASE ClientRelease
  <2>1. ijk' \in NoPlayer
    BY <1>15 DEF ClientRelease, PlayerRelease, NoPlayer
  <2>2. p'.status = INIT
    BY <1>0, <1>15 DEF ClientRelease, PlayerRelease, PlayerState
  <2>3. ui'.icon = "play"
    BY <1>0, <1>15, ViewsTyped DEF ClientRelease, PlayerRelease
  <2>. QED  BY <2>1, <2>2, <2>3 DEF WishInv, NoPlayer
<1>16. CASE UNCHANGED vars
  BY <1>1, <1>16 DEF vars, pvars
<1>. QED
  BY <1>3, <1>4, <1>5, <1>6, <1>7, <1>8, <1>9, <1>10, <1>11, <1>12, <1>13, <1>14, <1>15,
     <1>16
     DEF Next, User

(* And it holds of every behaviour of the patient environment.             *)
LEMMA WishInvariant ==
  ASSUME Habits \cap {"raceEvents", "pauseStopped"} = {}
  PROVE  Spec => []WishInv
<1>1. Init => WishInv
  BY DEF Init, PlayerInit, WishInv, NoPlayer
<1>2. VideoInv /\ WishInv /\ [Next]_vars => WishInv'
  BY WishStep
<1>. QED  BY <1>1, <1>2, VideoInvariant, PTL DEF Spec

(* A wish to play is never left over when the looper has delivered what the *)
(* native player posted: a player that is prepared, paused or at its end    *)
(* was told to rest (MVideoPlayer.onPreparedListener, start, pause and      *)
(* onCompletionListener), for a user and a client who wait for the looper   *)
(* and do not pause a stopped player.                                       *)
THEOREM NoWishIsLeftOver ==
  ASSUME Habits \cap {"raceEvents", "pauseStopped"} = {}
  PROVE  Spec => []WishFulfilled
<1>1. WishInv => WishFulfilled
  BY DEF WishInv, WishFulfilled, Settled, Resting
<1>. QED  BY <1>1, WishInvariant, PTL

(* The button shows what the player does (MVideoController.onPlay, onPause, *)
(* onStop and the calls of them in MVideoPlayer), under the same condition. *)
THEOREM ButtonIsHonest ==
  ASSUME Habits \cap {"raceEvents", "pauseStopped"} = {}
  PROVE  Spec => []IconHonest
<1>1. VideoInv /\ WishInv => IconHonest
  <2>. SUFFICES ASSUME VideoInv, WishInv, Settled PROVE IconHonest
    BY DEF IconHonest
  <2>1. ijk \in IjkStates
    BY DEF VideoInv, TypeOK
  <2>2. ijk \in {"prepared", "paused", "completed"} => ~p.isStart
    BY DEF WishInv, Settled, Resting
  <2>. QED  BY <2>1, <2>2 DEF WishInv, IconHonest, IjkStates, NoPlayer
<1>. QED  BY <1>1, VideoInvariant, WishInvariant, PTL
=============================================================================
