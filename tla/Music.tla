-------------------------------- MODULE Music --------------------------------
(***************************************************************************)
(* The music player (plugins/music/app.js): a playlist of addresses, kept  *)
(* in the browser's store, and of local files, each an object URL of its   *)
(* own, with one audio element that plays the track of an index.           *)
(***************************************************************************)
EXTENDS Integers, Sequences, Functions

CONSTANTS
  Urls,         \* addresses one may add
  Blobs,        \* object URLs the browser hands out
  MaxTracks     \* bound: the tracks of the playlist

\* The list without its i-th element.
Without(q, i) ==
  [k \in 1..(Len(q) - 1) |-> IF k < i THEN q[k] ELSE q[k + 1]]

VARIABLE
  music       \* a record:
              \*   tracks, a sequence of sources; index, 0 for none
              \*   src, what the audio element plays, 0 if nothing; paused
              \*   stored, the addresses in the store; given, the object
              \*     URLs handed out, and live, those not revoked
              \*   note, a message of an error is shown
              \*   asked, the track whose removal is being confirmed

current(s) == IF s.index = 0 THEN 0 ELSE s.tracks[s.index]

\* The addresses of the playlist, each at its place.
Addresses(tracks) ==
  [i \in {j \in DOMAIN tracks : tracks[j] \in Urls} |-> tracks[i]]
persistUrls(s) == [s EXCEPT !.stored = Addresses(s.tracks)]

\* The store is read once; nothing is chosen until the user plays.
loadSaved ==
  \E saved \in {<<>>} \cup {<<u>> : u \in Urls} :
    music = [tracks |-> saved, index |-> 0, src |-> 0, paused |-> TRUE,
             stored |-> Addresses(saved), given |-> {}, live |-> {},
             note |-> FALSE, asked |-> 0]

Init == loadSaved

\* Another source stops the element, unless it is told to play.
load(s, i, play) ==
  [s EXCEPT !.index = i, !.src = s.tracks[i], !.paused = ~play,
            !.note = FALSE]
step(s, delta) ==
  LET n == Len(s.tracks)
      next == IF s.index = 0 THEN 1 ELSE ((s.index - 1 + delta) % n) + 1
  IN load(s, next, TRUE)

-----------------------------------------------------------------------------
(* The user; while a removal is confirmed only the audio goes on.           *)

Free == music.asked = 0

playPause ==
  /\ Free
  /\ \/ music.index = 0 /\ music.tracks # <<>> /\ music' = load(music, 1, TRUE)
     \/ music.index # 0 /\ music' = [music EXCEPT !.paused = ~@]
Step(delta) == /\ Free /\ music.tracks # <<>>
               /\ music' = step(music, delta)
Pick(i) == Free /\ i \in DOMAIN music.tracks /\ music' = load(music, i, TRUE)

\* The files picked at once: those that are audio, and whether some are not.
addFiles(fs, skipped) ==
  LET s == [music EXCEPT !.tracks = @ \o fs,
                         !.given = @ \cup Range(fs),
                         !.live = @ \cup Range(fs)]
      t == IF s.index = 0 /\ s.tracks # <<>> THEN load(s, 1, FALSE) ELSE s
  IN /\ Free /\ Range(fs) \cap music.given = {}
     /\ Len(s.tracks) <= MaxTracks
     /\ music' = [t EXCEPT !.note = IF fs # <<>> THEN FALSE ELSE @ \/ skipped]

addUrl(u, full) ==
  LET s == persistUrls([music EXCEPT !.tracks = Append(@, u), !.note = FALSE])
  IN /\ Free /\ Len(s.tracks) <= MaxTracks
     /\ music' = IF ~full THEN [music EXCEPT !.note = TRUE]
                 ELSE IF s.index = 0 THEN load(s, Len(s.tracks), FALSE) ELSE s

\* The row's button asks first, and acts on the row's number.
Drop(i) == /\ Free /\ i \in DOMAIN music.tracks
           /\ music' = [music EXCEPT !.asked = i]
Keep == ~Free /\ music' = [music EXCEPT !.asked = 0]
removed(s, i) ==
  LET gone == s.tracks[i]
      t == persistUrls([s EXCEPT !.tracks = Without(@, i),
                                 !.live = @ \ {gone}, !.asked = 0])
      n == Len(t.tracks)
  IN IF n = 0 THEN [t EXCEPT !.index = 0, !.src = 0, !.paused = TRUE]
     ELSE IF i < t.index THEN [t EXCEPT !.index = @ - 1]
     ELSE IF i = t.index THEN load(t, IF i > n THEN n ELSE i, ~t.paused)
     ELSE t
removeAt == ~Free /\ music' = removed(music, music.asked)

-----------------------------------------------------------------------------
(* The audio element.                                                       *)

Ended == /\ music.src # 0 /\ ~music.paused
         /\ music' = step(music, 1)
Fails == music.src # 0 /\ music' = [music EXCEPT !.note = TRUE]

Next == \/ playPause \/ Keep \/ removeAt \/ Ended \/ Fails
        \/ \E delta \in {-1, 1} : Step(delta)
        \/ \E i \in 1..MaxTracks : Pick(i) \/ Drop(i)
        \/ \E u \in Urls, full \in BOOLEAN : addUrl(u, full)
        \/ \E fs \in {<<>>} \cup {<<b>> : b \in Blobs} \cup (Blobs \X Blobs) :
             IsInjective(fs) /\ addFiles(fs, TRUE)

-----------------------------------------------------------------------------

\* The audio plays the track the index names, and none only when the index
\* names none; what is stored is the addresses of the playlist in its order.
InStep == /\ music.index \in 0..Len(music.tracks)
          /\ music.src = current(music)
          /\ music.src = 0 => music.paused
          /\ music.stored = Addresses(music.tracks)

\* Of the object URLs handed out those of the playlist live, and no others:
\* none leaks, and the one being played is not revoked.
Kept == music.live = Range(music.tracks) \cap Blobs

=============================================================================
