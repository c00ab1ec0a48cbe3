--------------------------- MODULE SettingsManager ---------------------------
(***************************************************************************)
(* The settings manager: internal/config/manager.go and watch.go, with the *)
(* two files it works on, the administrator who edits one of them, and the *)
(* death and restart of the process.                                       *)
(*                                                                         *)
(* Load runs once, before Start, and Reload only on the watcher goroutine, *)
(* so reloadMu is never contended; what interleaves with a load are edits  *)
(* of the file, file events, readers of the two atomics, and crashes.  One *)
(* action per file operation or atomic store.                              *)
(*                                                                         *)
(* A file is abstracted to what it parses to.  encode and Parse are        *)
(* inverse on settings, so the last-valid copy is the settings themselves; *)
(* SHA-256 is taken to be injective, so a hash is what was hashed.         *)
(***************************************************************************)
CONSTANTS
  Docs,           \* settings an administrator may write down
  Defaults,       \* Defaults()
  Broken,         \* contents Parse rejects, half-written files among them
  Unreadable,     \* what readSettingsFile rejects before reading
  Absent,         \* no file
  Unset,          \* a nil pointer, or hashSet = false
  PersistMayFail, \* whether writeLastValid can fail
  EventsMayDrop   \* whether fsnotify can report an error for an event

Settings == Docs \cup {Defaults}
Contents == Settings \cup Broken \cup Unreadable \cup {Absent}
Readable == Settings \cup Broken

ASSUME ContentsAssumption ==
  /\ Settings \cap (Broken \cup Unreadable \cup {Absent, Unset}) = {}
  /\ Broken \cap (Unreadable \cup {Absent, Unset}) = {}
  /\ Unreadable \cap {Absent, Unset} = {}
  /\ Absent # Unset
  /\ PersistMayFail \in BOOLEAN /\ EventsMayDrop \in BOOLEAN

VARIABLES
  active,     \* the settings file
  lastValid,  \* the last-valid file
  pc,         \* where the goroutine that owns the manager is
  candidate,  \* its candidate and the status to commit with it
  settings,   \* Manager.settings
  status,     \* Manager.status
  hash,       \* Manager.lastHash, Unset without hashSet
  watching,   \* Manager.watching
  events,     \* whether file events wait in watcher.Events
  timer,      \* the debounce timer: off, armed or expired
  outcome,    \* the Outcome of the last Load or Reload that ended
  excuses     \* history: "untold" of an edit the watcher was not told of and
              \* has not read since, "unsaved" of a copy that was not written

fileVars == <<active, lastValid>>
memoryVars == <<settings, status, hash>>
watchVars == <<watching, events, timer>>
vars == <<active, lastValid, pc, candidate, settings, status, hash, watching,
          events, timer, outcome, excuses>>

-----------------------------------------------------------------------------
\* A status: for is the settings that LoadedAt is the load time of.
Status(state, source, for) == [state |-> state, source |-> source, for |-> for]
Unavailable == Status("unavailable", "none", Unset)
NoCandidate == [doc |-> Unset, source |-> "none", state |-> "unavailable",
                outcome |-> "unavailable"]
Valid(doc, source, how) ==
  [doc |-> doc, source |-> source, state |-> "valid", outcome |-> how]

Init ==
  /\ active \in Contents /\ lastValid \in Contents
  /\ pc = "down" /\ candidate = NoCandidate
  /\ settings = Unset /\ status = Unavailable /\ hash = Unset
  /\ watching = FALSE /\ events = FALSE /\ timer = "off"
  /\ outcome = "none" /\ excuses = {}

Goto(from, to) == pc = from /\ pc' = to

-----------------------------------------------------------------------------
(***************************************************************************)
(* Load.                                                                   *)
(***************************************************************************)

\* The process starts: Run creates a manager and calls Load.
Boot ==
  /\ Goto("down", "loading")
  /\ UNCHANGED <<fileVars, candidate, memoryVars, watchVars, outcome, excuses>>

\* The active file is read, and remembered if that succeeds, then parsed.
LoadActive ==
  /\ pc = "loading"
  /\ hash' = IF active \in Readable THEN active ELSE Unset
  /\ excuses' = {}
  /\ \/ /\ active \in Settings
        /\ candidate' = Valid(active, "active", "applied")
        /\ pc' = "persisting"
     \/ /\ active \notin Settings
        /\ candidate' = NoCandidate
        /\ pc' = IF active = Absent THEN "recovering_absent" ELSE "recovering"
  /\ UNCHANGED <<fileVars, settings, status, watchVars, outcome>>

\* The last-valid copy is tried.  Without one, and without an active file,
\* the defaults are taken; else Load fails and the process exits.
LoadLastValid ==
  /\ pc \in {"recovering", "recovering_absent"}
  /\ \/ /\ lastValid \in Settings
        /\ candidate' = [doc |-> lastValid, source |-> "last_valid",
                         state |-> "using_previous", outcome |-> "recovered"]
        /\ pc' = "storing"
        /\ UNCHANGED <<status, outcome>>
     \/ /\ lastValid = Absent /\ pc = "recovering_absent"
        /\ candidate' = Valid(Defaults, "defaults", "used_defaults")
        /\ pc' = "persisting"
        /\ UNCHANGED <<status, outcome>>
     \/ /\ lastValid \notin Settings
        /\ ~(lastValid = Absent /\ pc = "recovering_absent")
        /\ candidate' = NoCandidate /\ pc' = "failed"
        /\ status' = Unavailable /\ outcome' = "unavailable"
  /\ UNCHANGED <<fileVars, settings, hash, watchVars, excuses>>

-----------------------------------------------------------------------------
(***************************************************************************)
(* Persisting and committing, shared by Load and Reload.                   *)
(***************************************************************************)

\* Mutant: the rejection is reported and the status left alone.
RejectReloadSilently ==
  /\ status' = status
  /\ outcome' = "rejected"

\* rejectReload: some settings are always in force when the watcher runs.
RejectReload ==
  /\ status' = Status("using_previous", "last_valid", status.for)
  /\ outcome' = "rejected"

\* Mutant: the copy is written after the settings are in force.
PersistLate ==
  /\ Goto("persisting", "storing")
  /\ UNCHANGED <<fileVars, candidate, memoryVars, watchVars, outcome, excuses>>

\* writeLastValid: a temporary file renamed over the old copy, so that the
\* copy is the old one or the new one at every moment.
Persist ==
  /\ Goto("persisting", "storing")
  /\ lastValid' = candidate.doc
  /\ UNCHANGED <<active, candidate, memoryVars, watchVars, outcome, excuses>>

\* writeLastValid fails: Reload forgets the hash and rejects the candidate;
\* Load falls back to the copy, or fails if it was to store the defaults.
PersistFails ==
  /\ PersistMayFail
  /\ pc = "persisting"
  /\ candidate' = NoCandidate
  /\ excuses' = excuses \cup {"unsaved"}
  /\ \/ /\ watching
        /\ hash' = Unset
        /\ RejectReload
        /\ pc' = "selecting"
     \/ /\ ~watching /\ candidate.source = "active"
        /\ pc' = "recovering"
        /\ UNCHANGED <<hash, status, outcome>>
     \/ /\ ~watching /\ candidate.source = "defaults"
        /\ status' = Unavailable /\ outcome' = "unavailable"
        /\ pc' = "failed"
        /\ UNCHANGED hash
  /\ UNCHANGED <<fileVars, settings, watchVars>>

\* commit: settings.Store
StoreSettings ==
  /\ Goto("storing", "dating")
  /\ settings' = candidate.doc
  /\ UNCHANGED <<fileVars, candidate, status, hash, watchVars, outcome, excuses>>

\* commit: status.Store, and the event is published.
StoreStatus ==
  /\ Goto("dating", IF watching THEN "selecting" ELSE "starting")
  /\ status' = Status(candidate.state, candidate.source, candidate.doc)
  /\ outcome' = candidate.outcome
  /\ candidate' = NoCandidate
  /\ UNCHANGED <<fileVars, settings, hash, watchVars, excuses>>

-----------------------------------------------------------------------------
(***************************************************************************)
(* Start and watch.                                                        *)
(***************************************************************************)

\* watcher.Add and the goroutine; Run has opened its databases in between.
Start ==
  /\ Goto("starting", "selecting")
  /\ watching' = TRUE
  /\ UNCHANGED <<fileVars, candidate, memoryVars, events, timer, outcome, excuses>>

\* Mutant: an event that comes while the timer runs is ignored and its timer
\* is stopped for good.
HandleEventStopping ==
  /\ pc = "selecting" /\ events
  /\ events' = FALSE
  /\ timer' = IF timer = "off" THEN "armed" ELSE "off"
  /\ UNCHANGED <<fileVars, pc, candidate, memoryVars, watching, outcome, excuses>>

\* A relevant event arms the debounce timer anew, whatever its state.
HandleEvent ==
  /\ pc = "selecting" /\ events
  /\ events' = FALSE
  /\ timer' = "armed"
  /\ UNCHANGED <<fileVars, pc, candidate, memoryVars, watching, outcome, excuses>>

\* fsnotify reports an error in place of the event: only an event is
\* published, nothing is read again.
WatchError ==
  /\ EventsMayDrop
  /\ pc = "selecting" /\ events
  /\ events' = FALSE
  /\ excuses' = excuses \cup {"untold"}
  /\ UNCHANGED <<fileVars, pc, candidate, memoryVars, watching, timer, outcome>>

TimerExpires ==
  /\ timer = "armed"
  /\ timer' = "expired"
  /\ UNCHANGED <<fileVars, pc, candidate, memoryVars, watching, events, outcome,
                 excuses>>

\* The select takes the timer case.
TimerFires ==
  /\ timer = "expired"
  /\ Goto("selecting", "reloading")
  /\ timer' = "off"
  /\ UNCHANGED <<fileVars, candidate, memoryVars, watching, events, outcome, excuses>>

\* Mutant: an invalid candidate is parsed as far as possible and the rest is
\* taken from the defaults.
ReloadLenient ==
  /\ pc = "reloading"
  /\ excuses' = {}
  /\ hash' = IF active \in Readable THEN active ELSE hash
  /\ candidate' = Valid(IF active \in Settings THEN active ELSE Defaults,
                        "active", "applied")
  /\ pc' = "persisting"
  /\ UNCHANGED <<fileVars, settings, status, watchVars, outcome>>

\* Reload up to writeLastValid: the file cannot be read, or has not changed
\* since the last attempted load, or does not parse, or is a candidate.
Reload ==
  /\ pc = "reloading"
  /\ excuses' = IF active \in Readable \ {hash} THEN {} ELSE excuses \ {"untold"}
  /\ \/ /\ active \notin Readable
        /\ RejectReload
        /\ pc' = "selecting"
        /\ UNCHANGED <<candidate, hash>>
     \/ /\ active \in Readable /\ active = hash
        /\ outcome' = "unchanged"
        /\ pc' = "selecting"
        /\ UNCHANGED <<candidate, status, hash>>
     \/ /\ active \in Broken /\ active # hash
        /\ hash' = active
        /\ RejectReload
        /\ pc' = "selecting"
        /\ UNCHANGED candidate
     \/ /\ active \in Settings /\ active # hash
        /\ hash' = active
        /\ candidate' = Valid(active, "active", "applied")
        /\ pc' = "persisting"
        /\ UNCHANGED <<status, outcome>>
  /\ UNCHANGED <<fileVars, settings, watchVars>>

-----------------------------------------------------------------------------
(***************************************************************************)
(* The environment.                                                        *)
(***************************************************************************)

\* The administrator, an editor or a tool changes the file.  A save that is
\* not atomic is several edits, a half-written file among them.
Edit ==
  /\ \E c \in Contents \ {active} : active' = c
  /\ events' = watching
  /\ excuses' = IF watching THEN excuses ELSE excuses \cup {"untold"}
  /\ UNCHANGED <<lastValid, pc, candidate, memoryVars, watching, timer, outcome>>

\* The process dies, or exits because Load failed: the files are what is left.
Crash ==
  /\ pc # "down"
  /\ pc' = "down" /\ candidate' = NoCandidate
  /\ settings' = Unset /\ status' = Unavailable /\ hash' = Unset
  /\ watching' = FALSE /\ events' = FALSE /\ timer' = "off"
  /\ outcome' = "none"
  /\ UNCHANGED <<fileVars, excuses>>

-----------------------------------------------------------------------------
ManagerStep ==
  \/ LoadActive \/ LoadLastValid \/ Persist \/ PersistFails
  \/ StoreSettings \/ StoreStatus \/ Start
  \/ HandleEvent \/ WatchError \/ TimerFires \/ Reload

Next == Boot \/ ManagerStep \/ TimerExpires \/ Edit \/ Crash

Spec == Init /\ [][Next]_vars

\* The goroutine keeps running and timers expire.  The select is fair to a
\* timer that is ready again and again.  A start, an edit and a crash are
\* owed to nobody.
FairSpec ==
  Spec /\ WF_vars(ManagerStep) /\ WF_vars(TimerExpires) /\ SF_vars(TimerFires)

-----------------------------------------------------------------------------
(***************************************************************************)
(* Properties.                                                             *)
(***************************************************************************)

PCs == {"down", "loading", "recovering", "recovering_absent", "persisting",
        "storing", "dating", "failed", "starting", "selecting", "reloading"}
States == {"valid", "using_previous", "unavailable"}
Sources == {"active", "last_valid", "defaults", "none"}
Outcomes == {"none", "applied", "rejected", "recovered", "used_defaults",
             "unchanged", "unavailable"}

TypeOK ==
  /\ active \in Contents /\ lastValid \in Contents
  /\ pc \in PCs
  /\ candidate \in [doc : Settings \cup {Unset}, source : Sources, state : States,
                    outcome : Outcomes]
  /\ settings \in Settings \cup {Unset}
  /\ status \in [state : States, source : Sources, for : Settings \cup {Unset}]
  /\ hash \in Readable \cup {Unset}
  /\ watching \in BOOLEAN /\ events \in BOOLEAN
  /\ timer \in {"off", "armed", "expired"}
  /\ outcome \in Outcomes
  /\ excuses \subseteq {"untold", "unsaved"}

\* "startup can use the last-valid copy": a crash at any moment, also between
\* the rename and the commit, leaves a copy of the settings in force or of
\* the ones about to be, so a broken active file cannot lose them.
CopyFollowsSettings ==
  settings # Unset =>
    \/ lastValid = settings
    \/ pc = "storing" /\ lastValid = candidate.doc

\* A reader that finds the configuration usable finds settings.
UsableMeansLoaded ==
  status.state # "unavailable" => settings # Unset

\* Outside commit the status is about the settings in force.
StatusOutsideCommit ==
  pc \in {"starting", "selecting", "reloading"} =>
    /\ status.for = settings
    /\ status.state = "valid" /\ status.source = "active" =>
         hash = settings
    /\ status.state = "unavailable" <=> settings = Unset

\* Status and settings are two atomics, and /ready looks at the first alone.  At
\* any moment a usable status has settings; outside commit LoadedAt is the time
\* of their load, a valid status from the file names the bytes that were last
\* attempted, and readers are never told "valid" of a rejected file.
StatusDescribesSettings == UsableMeansLoaded /\ StatusOutsideCommit

\* "invalid edits leave all previous settings active": while the process
\* lives, settings in force are replaced only by the active file, as it was
\* read whole, never by defaults or an older copy.
InvalidEditsChangeNothing ==
  [][settings # Unset /\ settings' # settings /\ pc' # "down" =>
       candidate.source = "active" /\ settings' = hash]_vars

\* "Valid edits take effect without restart": valid settings that stay in the
\* file come into force, provided the watcher was told of the edit and the
\* copy could be written.
WatchedEditsTakeEffect ==
  \A d \in Docs :
    <>[](active = d /\ pc \notin {"down", "failed"} /\ excuses = {}) =>
      <>[](settings = d)

\* The same without the proviso.
EditsTakeEffect ==
  \A d \in Docs :
    <>[](active = d /\ pc \notin {"down", "failed"}) => <>[](settings = d)

\* "A persistence failure is retryable even when file contents do not change":
\* a reload that leaves valid bytes alone as unchanged finds them in force.
UnchangedIsInForce ==
  [][outcome # "unchanged" /\ outcome' = "unchanged" /\ active \in Settings =>
       settings = active]_vars
=============================================================================
