------------------------------- MODULE Attach -------------------------------
(***************************************************************************)
(* The images attached to the next message (core/attachments.js, and the   *)
(* paste, drop and submit of app.js).  A picture is read, a video is       *)
(* sampled frame by frame, each in its own time; all of them go to one     *)
(* list, which a run is given and which its end empties.                   *)
(***************************************************************************)
EXTENDS Integers, Sequences

CONSTANTS
  Files,      \* what may be pasted or dropped
  MaxImages,  \* max_images
  MaxFrames   \* max_video_frames

Off == 0      \* the length of a video not known yet

\* The list without its i-th element.
Without(q, i) ==
  [k \in 1..(Len(q) - 1) |-> IF k < i THEN q[k] ELSE q[k + 1]]

VARIABLE
  clip        \* a record:
              \*   images, pendingImages: the file of each
              \*   drawn, the files of the thumbnails, in order
              \*   reading, the pictures being read
              \*   videos, the videos being sampled: the frames to come, Off
              \*     when not known
              \*   busy, a run is on; given, how many images it got
              \*   cut, a video broke off in the middle and nothing was drawn
              \*     since

Init == clip = [images |-> <<>>, drawn |-> <<>>, reading |-> {}, videos |-> {},
                busy |-> FALSE, given |-> 0, cut |-> FALSE]

renderAttachments(s) == [s EXCEPT !.drawn = s.images, !.cut = FALSE]
Full(s) == Len(s.images) >= MaxImages
Pushes(s, f) == [s EXCEPT !.images = Append(@, f)]

\* A picture pasted or dropped; a list that is full refuses it here.
addImageFile(f) ==
  /\ f \notin clip.reading /\ ~Full(clip)
  /\ clip' = [clip EXCEPT !.reading = @ \cup {f}]

\* Mutant: only the way in is tested, where none of the others is read yet.
BugOnload(f, fits) ==
  LET s == [clip EXCEPT !.reading = @ \ {f}]
  IN /\ f \in clip.reading
     /\ clip' = IF fits THEN renderAttachments(Pushes(s, f)) ELSE s

\* It is read: too large, or one too many by now, it is left out.
Onload(f, fits) ==
  LET s == [clip EXCEPT !.reading = @ \ {f}]
  IN /\ f \in clip.reading
     /\ clip' = IF fits /\ ~Full(s) THEN renderAttachments(Pushes(s, f)) ELSE s

\* A video is not refused for a list that is full.
Of(f) == {v \in clip.videos : v.of = f}
addVideoFile(f) ==
  /\ Of(f) = {}
  /\ clip' = [clip EXCEPT !.videos = @ \cup {[of |-> f, left |-> Off]}]
Onloadedmetadata(v, n) ==
  /\ v \in clip.videos /\ v.left = Off
  /\ clip' = [clip EXCEPT !.videos = (@ \ {v}) \cup {[v EXCEPT !.left = n]}]
\* One that cannot be read on draws nothing, not even the frames it gave.
Onerror(v) ==
  /\ v \in clip.videos
  /\ clip' = [clip EXCEPT !.videos = @ \ {v}, !.cut = @ \/ v.left # Off]
\* One frame; the thumbnails are drawn after the last.
grab(v, fits) ==
  LET s == IF fits /\ ~Full(clip) THEN Pushes(clip, v.of) ELSE clip
      rest == clip.videos \ {v}
  IN /\ v \in clip.videos /\ v.left # Off
     /\ clip' = IF v.left = 1
                THEN renderAttachments([s EXCEPT !.videos = rest])
                ELSE [s EXCEPT !.videos =
                        rest \cup {[v EXCEPT !.left = @ - 1]}]

\* The button of a thumbnail removes by its place.
Strike(i) ==
  /\ i \in DOMAIN clip.drawn
  /\ clip' = renderAttachments([clip EXCEPT !.images = Without(@, i)])

\* The list goes with the run and stays until the run is through: what was
\* attached meanwhile goes with it, and a run that fails leaves it all.
Submit == /\ ~clip.busy
          /\ clip' = [clip EXCEPT !.busy = TRUE, !.given = Len(clip.images)]
Ends(ok) ==
  LET s == [clip EXCEPT !.busy = FALSE, !.given = 0]
  IN /\ clip.busy
     /\ clip' = IF ok THEN renderAttachments([s EXCEPT !.images = <<>>]) ELSE s

Next ==
  \/ \E f \in Files : addImageFile(f) \/ addVideoFile(f)
  \/ \E f \in clip.reading, fits \in BOOLEAN : Onload(f, fits)
  \/ \E v \in clip.videos :
       \/ Onerror(v)
       \/ \E n \in 1..MaxFrames : Onloadedmetadata(v, n)
       \/ \E fits \in BOOLEAN : grab(v, fits)
  \/ \E i \in 1..MaxImages : Strike(i)
  \/ Submit \/ \E ok \in BOOLEAN : Ends(ok)

-----------------------------------------------------------------------------

\* However many files come at once and in whatever order they are read, no run
\* is given more than the server takes (attachments.js:86-92; cli.zig answers
\* 400 to more).
Sound == Len(clip.images) <= MaxImages /\ clip.given <= MaxImages

\* A thumbnail's button removes the picture it shows: what is drawn is what the
\* list begins with, and all of it when no video is being sampled or was cut
\* short.
InStep ==
  /\ Len(clip.drawn) <= Len(clip.images)
  /\ \A i \in DOMAIN clip.drawn : clip.drawn[i] = clip.images[i]
  /\ clip.videos = {} => clip.cut \/ clip.drawn = clip.images

=============================================================================
