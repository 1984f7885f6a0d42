----------------------------- MODULE ArenaStage -----------------------------
(***************************************************************************)
(* The two stages a match is drawn on: the canvas of features/arena.js and *)
(* the scene of plugins/arena3d/app.js, imported when it is first wanted,  *)
(* mounted by whatever draws and taken down when the page leaves.          *)
(***************************************************************************)
EXTENDS Integers

CONSTANT MaxQueued  \* bound: drawings that wait for the import at once

VARIABLE
  stage       \* a record:
              \*   on, whether the page is on screen; drawn, whether the match
              \*     was since it came there; still, the wish for less motion
              \*   mode3d; here, whether the import has landed; queued, the
              \*     drawings that wait for it
              \*   scene, whether S is mounted; canvases, in its host
              \*   raf, the frame of the canvas asked for; loop, S.raf
              \*   twice, two drawings waited at once

Init ==
  \E m, q \in BOOLEAN :
    stage = [on |-> TRUE, drawn |-> FALSE, still |-> q, mode3d |-> m,
             here |-> FALSE, queued |-> 0, scene |-> FALSE, canvases |-> 0,
             raf |-> FALSE, loop |-> FALSE, twice |-> FALSE]

-----------------------------------------------------------------------------
(* The scene.                                                               *)

mountArena3D(s) ==
  [s EXCEPT !.scene = TRUE, !.canvases = IF s.scene THEN @ ELSE @ + 1]
updateArena3D(s) == [s EXCEPT !.loop = ~s.still]
unmountArena3D(s) ==
  [s EXCEPT !.scene = FALSE, !.loop = FALSE,
            !.canvases = IF s.scene THEN @ - 1 ELSE @]

\* Nothing is mounted until the import lands, whoever asks meanwhile.
ensure3d(s) ==
  IF s.here \/ s.scene
  THEN updateArena3D(mountArena3D(s))
  ELSE [s EXCEPT !.queued = @ + 1, !.twice = @ \/ s.queued > 0]

-----------------------------------------------------------------------------
(* The match is drawn: by a poll, a pick, a theme or a toggle.              *)

Drawn(s) ==
  LET d == [s EXCEPT !.drawn = s.on]
  IN IF s.mode3d THEN ensure3d([d EXCEPT !.raf = FALSE])
     ELSE [d EXCEPT !.raf = ~s.still]
Room == stage.mode3d /\ ~stage.here => stage.queued < MaxQueued
renderMatch == Room /\ stage' = Drawn(stage)

toggle3d ==
  LET s == [stage EXCEPT !.mode3d = ~@]
  IN /\ stage.on /\ (~stage.here => stage.queued < MaxQueued)
     /\ stage' = Drawn(IF s.mode3d THEN s ELSE unmountArena3D(s))

prefersReducedMotion ==
  Room /\ stage' = Drawn([stage EXCEPT !.still = ~@])

\* Every drawing that waited found no scene, so each mounts one of its own;
\* the host drops none of them.
ImportLands ==
  LET s == [stage EXCEPT !.here = TRUE, !.queued = 0, !.scene = TRUE,
                         !.canvases = @ + stage.queued]
  IN /\ stage.queued > 0
     /\ stage' = IF stage.mode3d THEN updateArena3D(s) ELSE s

\* Without the plugin, three.js or WebGL the canvas is used instead.
ImportFails ==
  /\ stage.queued > 0
  /\ stage' = Drawn([stage EXCEPT !.queued = 0, !.mode3d = FALSE])

-----------------------------------------------------------------------------
(* Frames, which ask for the next one unless the page has gone.             *)

frame == /\ stage.raf /\ ~stage.on
         /\ stage' = [stage EXCEPT !.raf = FALSE]
tick == /\ stage.loop /\ ~stage.on
        /\ stage' = [stage EXCEPT !.loop = FALSE]

stopArena ==
  /\ stage.on
  /\ stage' = [unmountArena3D(stage) EXCEPT !.on = FALSE, !.drawn = FALSE,
                                            !.raf = FALSE]
Enter == ~stage.on /\ stage' = [stage EXCEPT !.on = TRUE]

Next ==
  \/ renderMatch \/ toggle3d \/ prefersReducedMotion
  \/ ImportLands \/ ImportFails \/ frame \/ tick \/ stopArena \/ Enter
-----------------------------------------------------------------------------
\* A match drawn on screen is drawn on the stage chosen: the scene is mounted
\* or its import is on the way, and what moves has a frame asked for.
Settled ==
  stage.on /\ stage.drawn =>
    IF stage.mode3d
    THEN stage.queued > 0 \/ (stage.scene /\ stage.loop = ~stage.still)
    ELSE stage.raf = ~stage.still

\* The host has the canvas of the scene and no other, unless two drawings
\* waited for the import.
Truthful ==
  stage.twice \/ stage.canvases = (IF stage.scene THEN 1 ELSE 0)
=============================================================================
