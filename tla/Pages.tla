-------------------------------- MODULE Pages -------------------------------
(***************************************************************************)
(* The pages of the web UI that share nothing with each other but the      *)
(* window: each is a module of its own over one record, and a behaviour    *)
(* here is a behaviour of the page that is `subject`.  What is said of     *)
(* them all is said once, page by page.                                    *)
(***************************************************************************)
EXTENDS Integers

CONSTANTS
  Things,     \* what the pages list, draw and write, two of everything
  More,       \* as many other ones
  MaxOut,     \* bound: requests of one kind out at once
  MaxLoads,   \* bound: loads of one list out at once, where others write it
  MaxRuns, MaxSteps, MaxVer, MaxTracks, MaxCount, MaxPiles,
  MaxSaved,   \* bounds: how far what is recorded, edited or counted goes
  MaxClicks,  \* bound: what the user does on a page with much to do
  MaxWaits,   \* bound: what waits for one import
  GiveUp,     \* arena.js, POLL_GIVE_UP
  LastSecond, PerSecond,       \* bound: the log the office replays
  Lives,      \* bound: the lives of the server
  RoomCount,  \* the rooms of the office page, in order
  Width, Height, MaxBlocked    \* the tiles of one of them, and bound: walls

ASSUME PagesAssumption ==
  /\ Things \subseteq Nat \ {0} /\ More \subseteq Nat \ {0}
  /\ 1 \in Things /\ Things \cap More = {}
  /\ {MaxOut, MaxLoads, MaxRuns, MaxSteps, MaxVer, MaxTracks, MaxWaits, GiveUp,
      PerSecond, Lives, RoomCount, Width, Height} \subseteq Nat \ {0}
  /\ {MaxCount, MaxPiles, MaxSaved, MaxClicks, LastSecond, MaxBlocked}
       \subseteq Nat

VARIABLES
  subject,    \* the page this is a behaviour of
  view        \* its record

vars == <<subject, view>>

ARuns == INSTANCE Runs WITH
  runs <- view, Hits <- {1}, MaxAsked <- MaxOut
AGraph == INSTANCE Graph WITH graph <- view
AModelTable == INSTANCE ModelTable WITH models <- view
AModelSearch == INSTANCE ModelSearch WITH
  search <- view, Providers <- Things, Queries <- Things
ACardDetail == INSTANCE CardDetail WITH
  card <- view, Cards <- Things, Texts <- Things, MaxPosts <- MaxOut
ACardParts == INSTANCE CardParts WITH parts <- view, Colors <- Things
AnArena == INSTANCE Arena WITH
  arena <- view, Matches <- Things, MaxAsks <- MaxOut
AStage == INSTANCE ArenaStage WITH stage <- view, MaxQueued <- MaxWaits
AnOffice == INSTANCE Office WITH office <- view
AFiles == INSTANCE Files WITH files <- view
AMusic == INSTANCE Music WITH music <- view, Urls <- Things, Blobs <- More
AToolRow == INSTANCE ToolRow WITH tool <- view, MaxPosts <- MaxOut
AShell == INSTANCE Shell WITH shell <- view
AKnowledge == INSTANCE Knowledge WITH
  know <- view, Cols <- Things, MaxOpens <- MaxOut
AHealth == INSTANCE Health WITH health <- view, MaxLives <- MaxOut
AJanitor == INSTANCE Janitor WITH janitor <- view, Rooms <- RoomCount
APath == INSTANCE Paths WITH way <- view
ACompare == INSTANCE Compare WITH
  cmp <- view, Docs <- Things, Answers <- Things, MaxAsks <- MaxLoads
ASearches == INSTANCE Searches WITH find <- view, Phrases <- Things
ASchedulePage == INSTANCE SchedulePage WITH
  sched <- view, Plans <- Things, MaxLoads <- MaxOut
AMentions == INSTANCE Mentions WITH say <- view, Names <- Things
APicker == INSTANCE Picker WITH
  pick <- view, Offers <- Things, MaxLoads <- MaxOut
ARail == INSTANCE Rail WITH rail <- view, Chats <- Things
ASettings == INSTANCE Settings WITH
  sys <- view, Servers <- {1}, MaxLoads <- MaxOut, MaxLists <- MaxLoads
AMesh == INSTANCE Mesh WITH mesh <- view, Peers <- {1}
AnAttach == INSTANCE Attach WITH
  clip <- view, Files <- Things, MaxImages <- MaxOut, MaxFrames <- MaxCount
AThreads == INSTANCE Threads WITH
  msg <- view, Rows <- Things, Mine <- 1, Texts <- Things

Init ==
  \/ subject = "runs"       /\ ARuns!Init
  \/ subject = "graph"      /\ AGraph!Init
  \/ subject = "models"     /\ AModelTable!Init
  \/ subject = "search"     /\ AModelSearch!Init
  \/ subject = "card"       /\ ACardDetail!Init
  \/ subject = "parts"      /\ ACardParts!Init
  \/ subject = "arena"      /\ AnArena!Init
  \/ subject = "stage"      /\ AStage!Init
  \/ subject = "office"     /\ AnOffice!Init
  \/ subject = "files"      /\ AFiles!Init
  \/ subject = "music"      /\ AMusic!Init
  \/ subject = "tool"       /\ AToolRow!Init
  \/ subject = "shell"      /\ AShell!Init
  \/ subject = "knowledge"  /\ AKnowledge!Init
  \/ subject = "health"     /\ AHealth!Init
  \/ subject = "janitor"    /\ AJanitor!Init
  \/ subject = "path"       /\ APath!Init
  \/ subject = "compare"    /\ ACompare!Init
  \/ subject = "find"       /\ ASearches!Init
  \/ subject = "schedule"   /\ ASchedulePage!Init
  \/ subject = "mentions"   /\ AMentions!Init
  \/ subject = "picker"     /\ APicker!Init
  \/ subject = "rail"       /\ ARail!Init
  \/ subject = "system"     /\ ASettings!Init
  \/ subject = "mesh"       /\ AMesh!Init
  \/ subject = "attach"     /\ AnAttach!Init
  \/ subject = "thread"     /\ AThreads!Init

Next ==
  \/ subject = "runs"       /\ ARuns!Next /\ UNCHANGED subject
  \/ subject = "graph"      /\ AGraph!Next /\ UNCHANGED subject
  \/ subject = "models"     /\ AModelTable!Next /\ UNCHANGED subject
  \/ subject = "search"     /\ AModelSearch!Next /\ UNCHANGED subject
  \/ subject = "card"       /\ ACardDetail!Next /\ UNCHANGED subject
  \/ subject = "parts"      /\ ACardParts!Next /\ UNCHANGED subject
  \/ subject = "arena"      /\ AnArena!Next /\ UNCHANGED subject
  \/ subject = "stage"      /\ AStage!Next /\ UNCHANGED subject
  \/ subject = "office"     /\ AnOffice!Next /\ UNCHANGED subject
  \/ subject = "files"      /\ AFiles!Next /\ UNCHANGED subject
  \/ subject = "music"      /\ AMusic!Next /\ UNCHANGED subject
  \/ subject = "tool"       /\ AToolRow!Next /\ UNCHANGED subject
  \/ subject = "shell"      /\ AShell!Next /\ UNCHANGED subject
  \/ subject = "knowledge"  /\ AKnowledge!Next /\ UNCHANGED subject
  \/ subject = "health"     /\ AHealth!Next /\ UNCHANGED subject
  \/ subject = "janitor"    /\ AJanitor!Next /\ UNCHANGED subject
  \/ subject = "path"       /\ APath!Next /\ UNCHANGED subject
  \/ subject = "compare"    /\ ACompare!Next /\ UNCHANGED subject
  \/ subject = "find"       /\ ASearches!Next /\ UNCHANGED subject
  \/ subject = "schedule"   /\ ASchedulePage!Next /\ UNCHANGED subject
  \/ subject = "mentions"   /\ AMentions!Next /\ UNCHANGED subject
  \/ subject = "picker"     /\ APicker!Next /\ UNCHANGED subject
  \/ subject = "rail"       /\ ARail!Next /\ UNCHANGED subject
  \/ subject = "system"     /\ ASettings!Next /\ UNCHANGED subject
  \/ subject = "mesh"       /\ AMesh!Next /\ UNCHANGED subject
  \/ subject = "attach"     /\ AnAttach!Next /\ UNCHANGED subject
  \/ subject = "thread"     /\ AThreads!Next /\ UNCHANGED subject

Spec == Init /\ [][Next]_vars

-----------------------------------------------------------------------------

\* Nothing waits for what will not come: wherever a page says that it loads,
\* keeps a button disabled or shows a field in flight, the request that ends it
\* is out, and once every answer is in the page shows what was asked for last
\* or an error to try again from.  Each page has its own code for that (the
\* finally of a fetch, a ticket, a flag) and its own exceptions: the module
\* named says which.
Settled ==
  /\ subject = "runs"       => ARuns!Settled
  /\ subject = "models"     => AModelTable!Settled
  /\ subject = "search"     => AModelSearch!Settled
  /\ subject = "card"       => ACardDetail!Settled
  /\ subject = "arena"      => AnArena!Settled
  /\ subject = "stage"      => AStage!Settled
  /\ subject = "office"     => AnOffice!Settled
  /\ subject = "files"      => AFiles!Settled
  /\ subject = "tool"       => AToolRow!Settled
  /\ subject = "shell"      => AShell!Settled
  /\ subject = "knowledge"  => AKnowledge!Settled
  /\ subject = "compare"    => ACompare!Settled
  /\ subject = "find"       => ASearches!Settled
  /\ subject = "schedule"   => ASchedulePage!Settled
  /\ subject = "mesh"       => AMesh!Settled
  /\ subject = "thread"     => AThreads!Settled

\* What is drawn is of the thing it is drawn for: the step shown is one of the
\* run shown, a hit answers the text that was searched, a provider's list is
\* offered as that provider's, a preview is of the file it names.  Most of
\* these requests carry no token, so that what keeps it true is a field read
\* when the answer comes (runs.js 388-412, models.js 987-1010, files/app.js
\* load and open); the exceptions are the orders the code does let through.
Truthful ==
  /\ subject = "runs"       => ARuns!Truthful
  /\ subject = "search"     => AModelSearch!Truthful
  /\ subject = "card"       => ACardDetail!Truthful
  /\ subject = "parts"      => ACardParts!Truthful
  /\ subject = "arena"      => AnArena!Truthful
  /\ subject = "stage"      => AStage!Truthful
  /\ subject = "files"      => AFiles!Truthful
  /\ subject = "tool"       => AToolRow!Truthful
  /\ subject = "shell"      => AShell!Truthful
  /\ subject = "knowledge"  => AKnowledge!Truthful
  /\ subject = "health"     => AHealth!Truthful
  /\ subject = "compare"    => ACompare!Truthful
  /\ subject = "find"       => ASearches!Truthful
  /\ subject = "rail"       => ARail!Truthful
  /\ subject = "system"     => ASettings!Truthful
  /\ subject = "mesh"       => AMesh!Truthful
  /\ subject = "thread"     => AThreads!Truthful

\* Two pieces of state that are written by different handlers agree whenever
\* the user can see both: the rows and the filter above them, the row and the
\* file behind it, the index and the track that plays, the thumbnails and the
\* images a run will be given.
InStep ==
  /\ subject = "models"     => AModelTable!InStep
  /\ subject = "files"      => AFiles!InStep
  /\ subject = "music"      => AMusic!InStep
  /\ subject = "knowledge"  => AKnowledge!InStep
  /\ subject = "health"     => AHealth!InStep
  /\ subject = "janitor"    => AJanitor!InStep
  /\ subject = "find"       => ASearches!InStep
  /\ subject = "schedule"   => ASchedulePage!InStep
  /\ subject = "mentions"   => AMentions!InStep
  /\ subject = "picker"     => APicker!InStep
  /\ subject = "rail"       => ARail!InStep
  /\ subject = "attach"     => AnAttach!InStep
  /\ subject = "thread"     => AThreads!InStep

\* Nothing the user did is undone by an answer: what was typed stays typed, a
\* label stays set, a pick stays the one picked, an object URL lives as long as
\* its track, whatever loads, redraws and late answers come between.
Kept ==
  /\ subject = "card"       => ACardDetail!Kept
  /\ subject = "parts"      => ACardParts!Kept
  /\ subject = "office"     => AnOffice!Kept
  /\ subject = "music"      => AMusic!Kept
  /\ subject = "shell"      => AShell!Kept
  /\ subject = "knowledge"  => AKnowledge!Kept
  /\ subject = "health"     => AHealth!Kept
  /\ subject = "janitor"    => AJanitor!Kept
  /\ subject = "compare"    => ACompare!Kept
  /\ subject = "picker"     => APicker!Kept
  /\ subject = "rail"       => ARail!Kept

\* What is computed is right: the graph of a run (lib/graph.js) has a place for
\* every step and one way from the question to the answer; the walk of an agent
\* (office/app.js findPath) leads over free tiles and is missing only when
\* there is none; a message never gets more images than max_images, however
\* many are read at once (core/attachments.js 86-92).
Sound ==
  /\ subject = "graph"      => AGraph!Sound
  /\ subject = "path"       => APath!Sound
  /\ subject = "attach"     => AnAttach!Sound

=============================================================================
