---------------------------- MODULE BlueprintWatch ----------------------------
(***************************************************************************)
(* The file watcher of internal/blueprint/watch.go: fsnotify events, the   *)
(* debounce timer, the rebuild of the watches after the root directory has *)
(* gone, and Close.  The contents of the directory are a version number;   *)
(* onReload is one read of them (BlueprintStore has what it does).         *)
(***************************************************************************)
EXTENDS Integers, Sequences

CONSTANTS
    MaxWrites    \* bound on changes of the directory

ASSUME WatchConstants == MaxWrites \in Nat

VARIABLES
    root,       \* does the watched directory exist?
    content,    \* version of what is in it
    unheard,    \* history: the last change is one no watch reports
    loaded,     \* version the last reload has read
    open,       \* w.watcher is not nil
    watched,    \* does fsnotify report changes in the directory?
    known,      \* is the directory in watchedDirs?
    events,     \* events of the current fsnotify watcher
    loop,       \* does watchLoop run?
    adding,     \* the directory a watchLoop is about to watch
    stopped,    \* is the current stopChan closed?
    reinit,     \* the goroutine of scheduleReinit
    armed,      \* is the debounce timer armed?
    fired,      \* timer functions that have not looked at w.closed yet
    flying,     \* onReload calls in flight (reloadWg)
    closing     \* Close: not called, waiting, returned; or the process died

disk      == <<root, content, unheard>>
watch     == <<open, watched, known, events, loop, adding, stopped, reinit>>
reload    == <<armed, fired, flying>>
watchVars == <<disk, loaded, watch, reload, closing>>

WatchTypeOK ==
    /\ root \in BOOLEAN /\ content \in 0..MaxWrites /\ loaded \in 0..content
    /\ {unheard, open, watched, known, loop, stopped, armed} \subseteq BOOLEAN
    /\ events \in Seq({"yaml", "gone", "new", "dir"}) /\ Len(events) <= MaxWrites
    /\ adding \in {"nothing", "new", "dir"}
    /\ reinit \in {"none", "sleeping", "closed", "opened"}
    /\ fired \in Nat /\ flying \in Nat
    /\ closing \in {"no", "waiting", "returned", "panicked"}

\* The initial load, Setup and the first watches.
WatchInit ==
    /\ root = TRUE /\ content = 0 /\ unheard = FALSE /\ loaded = 0
    /\ open = TRUE /\ watched = TRUE /\ known = TRUE /\ events = <<>>
    /\ loop = TRUE /\ adding = "nothing" /\ stopped = FALSE /\ reinit = "none"
    /\ armed = FALSE /\ fired = 0 /\ flying = 0
    /\ closing = "no"

-----------------------------------------------------------------------------
(* The directory.  The parent is watched, so the root's own fate is seen   *)
(* as long as there is an fsnotify watcher.                                *)

Notify(seen, e) == events' = IF seen THEN Append(events, e) ELSE events
Changes == content < MaxWrites /\ content' = content + 1

\* No rebuild of the watches, which ends in a reload, is on its way.
NoRebuild == reinit = "none" /\ \A i \in 1..Len(events) : events[i] # "gone"

\* A YAML file is written, or the ..data link of a ConfigMap is flipped.
WriteFile ==
    /\ root /\ Changes
    /\ Notify(watched, "yaml")
    /\ unheard' = (NoRebuild /\ ~watched)
    /\ UNCHANGED <<root, loaded, open, watched, known, loop, adding, stopped, reinit, reload, closing>>

\* A directory appears below the root with its files already in it: its name
\* is not that of a YAML file, and nothing reports the files.
MoveIn ==
    /\ root /\ Changes
    /\ Notify(watched, "dir")
    /\ unheard' = NoRebuild
    /\ UNCHANGED <<root, loaded, open, watched, known, loop, adding, stopped, reinit, reload, closing>>

RemoveRoot ==
    /\ root /\ Changes
    /\ root' = FALSE /\ watched' = FALSE
    /\ Notify(loop, "gone")
    /\ UNCHANGED <<unheard, loaded, open, known, loop, adding, stopped, reinit, reload, closing>>

\* The root appears again, with files or without.
CreateRoot ==
    /\ ~root /\ Changes
    /\ root' = TRUE
    /\ Notify(loop, "new")
    /\ unheard' = NoRebuild
    /\ UNCHANGED <<loaded, open, watched, known, loop, adding, stopped, reinit, reload, closing>>

-----------------------------------------------------------------------------
(* watchLoop and scheduleReinit.                                           *)

Alive      == closing # "panicked"
Receive(e) == /\ Alive /\ loop /\ adding = "nothing"
              /\ events # <<>> /\ Head(events) = e /\ events' = Tail(events)

\* scheduleReload: Stop and a new AfterFunc.
OnYAML ==
    /\ Receive("yaml")
    /\ armed' = TRUE
    /\ UNCHANGED <<disk, loaded, open, watched, known, loop, adding, stopped, reinit, fired, flying, closing>>

OnGone ==
    /\ Receive("gone")
    /\ reinit' = IF reinit = "none" THEN "sleeping" ELSE reinit
    /\ UNCHANGED <<disk, loaded, open, watched, known, loop, adding, stopped, reload, closing>>

\* A directory was created, and os.Stat finds it.  Its name is not that of a
\* YAML file, so nothing is reloaded.
OnNew(e) ==
    /\ e \in {"new", "dir"} /\ Receive(e)
    /\ adding' = IF root THEN e ELSE "nothing"
    /\ UNCHANGED <<disk, loaded, open, watched, known, loop, stopped, reinit, reload, closing>>

\* addWatch, under w.mu: unless watchedDirs has it, the directory is added to
\* w.watcher, with a warning when it is gone.  After Close, or while the
\* watches are rebuilt, w.watcher is nil: the process panics.
AddWatch ==
    /\ Alive /\ adding # "nothing" /\ adding' = "nothing"
    /\ \/ /\ ~open /\ closing' = "panicked"
          /\ UNCHANGED <<watched, known>>
       \/ /\ open /\ UNCHANGED closing
          /\ watched' = (watched \/ (adding = "new" /\ root /\ ~known))
          /\ known' = (known \/ (adding = "new" /\ root))
    /\ UNCHANGED <<disk, loaded, open, events, loop, stopped, reinit, reload>>

LoopEnds ==
    /\ Alive /\ loop /\ stopped /\ adding = "nothing"
    /\ loop' = FALSE /\ watched' = FALSE /\ events' = <<>>
    /\ UNCHANGED <<disk, loaded, open, known, adding, stopped, reinit, reload, closing>>

\* Two seconds later: the fsnotify watcher is closed, which ends its loop,
\* and there is a new stopChan.
ReinitClose ==
    /\ Alive /\ reinit = "sleeping"
    /\ reinit' = "closed"
    /\ open' = FALSE /\ known' = FALSE
    /\ loop' = FALSE /\ watched' = FALSE /\ events' = <<>>
    /\ stopped' = FALSE
    /\ UNCHANGED <<disk, loaded, adding, reload, closing>>

\* Setup opens a new fsnotify watcher.  When that fails there is none from
\* then on, only the reload that follows.
ReinitOpen ==
    /\ Alive /\ reinit = "closed"
    /\ \/ /\ reinit' = "opened" /\ open' = TRUE /\ known' = FALSE
          /\ UNCHANGED armed
       \/ /\ reinit' = "none" /\ armed' = TRUE
          /\ UNCHANGED <<open, known>>
    /\ UNCHANGED <<disk, loaded, watched, events, loop, adding, stopped, fired, flying, closing>>

SetupSilently ==   \* mutant: no reload after the new watches
    /\ Alive /\ reinit = "opened"
    /\ reinit' = "none"
    /\ loop' = TRUE /\ watched' = root /\ known' = root
    /\ UNCHANGED <<disk, loaded, open, events, adding, stopped, reload, closing>>

\* addInitialWatches, the new loop and scheduleReload, whether the root is
\* back or not: a missing one gives a warning.  A Close in between has set
\* w.watcher to nil, and the process panics.
ReinitSetup ==
    /\ Alive /\ reinit = "opened"
    /\ reinit' = "none"
    /\ \/ /\ open /\ UNCHANGED closing
          /\ loop' = TRUE /\ watched' = root /\ known' = root
          /\ armed' = TRUE
       \/ /\ ~open /\ closing' = "panicked"
          /\ UNCHANGED <<loop, watched, known, armed>>
    /\ UNCHANGED <<disk, loaded, open, events, adding, stopped, fired, flying>>

-----------------------------------------------------------------------------
(* The timer's function, and Close.                                        *)

TimerFires ==
    /\ Alive /\ armed /\ armed' = FALSE
    /\ fired' = fired + 1
    /\ UNCHANGED <<disk, loaded, watch, flying, closing>>

TakeOffBlindly ==   \* mutant: w.closed is not looked at
    /\ Alive /\ fired > 0 /\ fired' = fired - 1
    /\ flying' = flying + 1
    /\ UNCHANGED <<disk, loaded, watch, armed, closing>>

\* Under w.mu: nothing after Close, otherwise reloadWg.Add.
TakeOff ==
    /\ Alive /\ fired > 0 /\ fired' = fired - 1
    /\ flying' = IF closing = "no" THEN flying + 1 ELSE flying
    /\ UNCHANGED <<disk, loaded, watch, armed, closing>>

\* onReload; it fails without the directory, and the old blueprints stay.
Load ==
    /\ Alive /\ flying > 0 /\ flying' = flying - 1
    /\ loaded' = IF root THEN content ELSE loaded
    /\ UNCHANGED <<disk, watch, armed, fired, closing>>

Close ==
    /\ closing = "no"
    /\ closing' = "waiting"
    /\ armed' = FALSE /\ stopped' = TRUE
    /\ open' = FALSE /\ known' = FALSE
    /\ UNCHANGED <<disk, loaded, watched, events, loop, adding, reinit, fired, flying>>

CloseReturns ==
    /\ closing = "waiting" /\ flying = 0
    /\ closing' = "returned"
    /\ UNCHANGED <<disk, loaded, watch, reload>>

Idle == (~Alive \/ (~armed /\ fired = 0 /\ flying = 0)) /\ UNCHANGED watchVars

Disk      == WriteFile \/ MoveIn \/ RemoveRoot \/ CreateRoot
Watcher   == \/ OnYAML \/ OnGone \/ OnNew("new") \/ OnNew("dir") \/ AddWatch \/ LoopEnds
             \/ ReinitClose \/ ReinitOpen \/ ReinitSetup
             \/ TimerFires \/ TakeOff \/ Load \/ CloseReturns
WatchNext == Disk \/ Watcher \/ Close \/ Idle

WatchSpec     == WatchInit /\ [][WatchNext]_watchVars
FairWatchSpec == WatchSpec /\ WF_watchVars(Watcher)

-----------------------------------------------------------------------------
(* Properties.                                                             *)

\* Once Close has returned, no reload runs.
ClosedIsQuiet == closing = "returned" => flying = 0

\* What the root holds in the end is loaded, whatever happened to it and to
\* the watches on the way, unless the last change is one the watcher cannot
\* hear of: a directory that comes with its files, or a root that comes back
\* after the watches were rebuilt without it.
ChangesLoaded == <>[](closing = "no" /\ root /\ ~unheard => loaded = content)
=============================================================================
