------------------------ MODULE SettingsManager_proofs ------------------------
(***************************************************************************)
(* Proofs about SettingsManager, for every set of documents and contents.  *)
(***************************************************************************)
EXTENDS SettingsManager, TLAPS

Before == {"down", "loading", "recovering", "recovering_absent", "failed"}
Committing == {"persisting", "storing", "dating"}

\* What the goroutine knows at each place.  The candidate is settings that
\* were read or are the defaults; a reload has one only from the file it
\* hashed; the copy is written before the settings are.
CandidateInv ==
  pc \in Committing =>
    /\ candidate.doc \in Settings
    /\ candidate.state \in {"valid", "using_previous"}
    /\ candidate.source \in {"active", "last_valid", "defaults"}
    /\ candidate.source = "active" => hash = candidate.doc
    /\ watching => candidate.source = "active"
    /\ pc # "persisting" => lastValid = candidate.doc
    /\ pc = "dating" => settings = candidate.doc

\* Nothing is in force until the first commit, and something is from then on.
LifeInv ==
  /\ pc \in Before \cup {"starting"} => ~watching
  /\ pc \in Before => settings = Unset
  /\ ~watching /\ pc \in {"persisting", "storing"} => settings = Unset
  /\ pc = "starting" => settings # Unset
  /\ pc \in {"selecting", "reloading"} => watching
  /\ watching =>
       settings # Unset /\ status.state # "unavailable"
         /\ (pc # "dating" => status.for = settings)

IInv ==
  /\ TypeOK
  /\ CandidateInv
  /\ LifeInv
  /\ CopyFollowsSettings
  /\ UsableMeansLoaded
  /\ StatusOutsideCommit

LEMMA InitInv == Init => IInv
<1> SUFFICES ASSUME Init PROVE IInv
  OBVIOUS
<1> USE ContentsAssumption
    DEF Init, NoCandidate, Unavailable, Status, Contents, Readable, Settings, PCs,
        States, Sources, Outcomes, Committing, Before
<1>1. candidate \in [doc : Settings \cup {Unset}, source : Sources, state : States,
                    outcome : Outcomes]
  OBVIOUS
<1>2. status \in [state : States, source : Sources, for : Settings \cup {Unset}]
  OBVIOUS
<1>3. watching \in BOOLEAN /\ events \in BOOLEAN
        /\ excuses \subseteq {"untold", "unsaved"}
  OBVIOUS
<1>4. TypeOK
  BY <1>1, <1>2, <1>3 DEF TypeOK
<1>5. CandidateInv /\ LifeInv
  BY DEF CandidateInv, LifeInv
<1>6. CopyFollowsSettings /\ UsableMeansLoaded /\ StatusOutsideCommit
  BY DEF CopyFollowsSettings, UsableMeansLoaded, StatusOutsideCommit
<1> QED
  BY <1>4, <1>5, <1>6 DEF IInv

LEMMA StepInv == IInv /\ [Next]_vars => IInv'
<1> USE ContentsAssumption
    DEF IInv, Contents, Readable, Settings, PCs, States, Sources, Outcomes,
        Committing, Before, Goto, fileVars, memoryVars, watchVars
<1> SUFFICES ASSUME IInv, [Next]_vars PROVE IInv'
  OBVIOUS
<1>1. CASE Boot
  BY <1>1 DEF Boot, TypeOK, CandidateInv, LifeInv, CopyFollowsSettings,
              UsableMeansLoaded, StatusOutsideCommit
<1>2. CASE LoadActive
  <2>1. TypeOK'
    BY <1>2 DEF LoadActive, TypeOK, Valid, NoCandidate
  <2>2. CandidateInv'
    BY <1>2 DEF LoadActive, TypeOK, CandidateInv, LifeInv, Valid, NoCandidate
  <2>3. LifeInv' /\ CopyFollowsSettings' /\ UsableMeansLoaded'
    BY <1>2 DEF LoadActive, LifeInv, CopyFollowsSettings, UsableMeansLoaded
  <2>4. StatusOutsideCommit'
    BY <1>2 DEF LoadActive, StatusOutsideCommit
  <2> QED  BY <2>1, <2>2, <2>3, <2>4
<1>3. CASE LoadLastValid
  <2>1. TypeOK'
    BY <1>3 DEF LoadLastValid, TypeOK, Valid, NoCandidate, Unavailable, Status
  <2>2. CandidateInv'
    BY <1>3 DEF LoadLastValid, TypeOK, CandidateInv, LifeInv, Valid, NoCandidate
  <2>3. LifeInv' /\ CopyFollowsSettings' /\ UsableMeansLoaded'
    BY <1>3 DEF LoadLastValid, LifeInv, CopyFollowsSettings, UsableMeansLoaded,
                Unavailable, Status
  <2>4. StatusOutsideCommit'
    BY <1>3 DEF LoadLastValid, StatusOutsideCommit
  <2> QED  BY <2>1, <2>2, <2>3, <2>4
<1>4. CASE Persist
  BY <1>4 DEF Persist, TypeOK, CandidateInv, LifeInv, CopyFollowsSettings,
              UsableMeansLoaded, StatusOutsideCommit
<1>5. CASE PersistFails
  <2>1. TypeOK'
    BY <1>5 DEF PersistFails, TypeOK, NoCandidate, Unavailable, Status, RejectReload
  <2>2. CandidateInv'
    BY <1>5 DEF PersistFails, CandidateInv
  <2>3. LifeInv'
    BY <1>5 DEF PersistFails, LifeInv, RejectReload, Status
  <2>4. CopyFollowsSettings' /\ UsableMeansLoaded'
    BY <1>5 DEF PersistFails, LifeInv, CopyFollowsSettings, UsableMeansLoaded,
                Unavailable, Status, RejectReload
  <2>5. StatusOutsideCommit'
    BY <1>5 DEF PersistFails, LifeInv, StatusOutsideCommit, Status, RejectReload
  <2> QED  BY <2>1, <2>2, <2>3, <2>4, <2>5
<1>6. CASE StoreSettings
  <2>1. TypeOK' /\ CandidateInv'
    BY <1>6 DEF StoreSettings, TypeOK, CandidateInv
  <2>2. LifeInv' /\ CopyFollowsSettings' /\ UsableMeansLoaded'
    BY <1>6 DEF StoreSettings, CandidateInv, LifeInv, CopyFollowsSettings,
                UsableMeansLoaded
  <2>3. StatusOutsideCommit'
    BY <1>6 DEF StoreSettings, StatusOutsideCommit
  <2> QED  BY <2>1, <2>2, <2>3
<1>7. CASE StoreStatus
  <2>1. TypeOK'
    BY <1>7 DEF StoreStatus, TypeOK, CandidateInv, Status, NoCandidate
  <2>2. CandidateInv'
    BY <1>7 DEF StoreStatus, CandidateInv
  <2>3. LifeInv' /\ CopyFollowsSettings' /\ UsableMeansLoaded'
    BY <1>7 DEF StoreStatus, CandidateInv, LifeInv, CopyFollowsSettings,
                UsableMeansLoaded, Status
  <2>4. StatusOutsideCommit'
    BY <1>7 DEF StoreStatus, CandidateInv, StatusOutsideCommit, Status
  <2> QED  BY <2>1, <2>2, <2>3, <2>4
<1>8. CASE Start
  BY <1>8 DEF Start, TypeOK, CandidateInv, LifeInv, CopyFollowsSettings,
              UsableMeansLoaded, StatusOutsideCommit
<1>9. CASE HandleEvent \/ WatchError \/ TimerExpires \/ TimerFires \/ Edit
  <2> DEFINE Still ==
        UNCHANGED <<lastValid, candidate, settings, status, hash, watching>>
  <2>1. ASSUME HandleEvent PROVE TypeOK' /\ Still /\ pc' = pc
    <3>1. Still /\ pc' = pc
      BY <2>1 DEF HandleEvent
    <3>2. events' \in BOOLEAN /\ timer' \in {"off", "armed", "expired"}
      BY <2>1 DEF HandleEvent, TypeOK
    <3>3. excuses' \subseteq {"untold", "unsaved"}
      BY <2>1 DEF HandleEvent, TypeOK
    <3> QED
      BY <2>1, <3>1, <3>2, <3>3 DEF HandleEvent, TypeOK
  <2>2. ASSUME WatchError PROVE TypeOK' /\ Still /\ pc' = pc
    <3>1. Still /\ pc' = pc
      BY <2>2 DEF WatchError
    <3>2. events' \in BOOLEAN /\ timer' \in {"off", "armed", "expired"}
      BY <2>2 DEF WatchError, TypeOK
    <3>3. excuses' \subseteq {"untold", "unsaved"}
      BY <2>2 DEF WatchError, TypeOK
    <3> QED
      BY <2>2, <3>1, <3>2, <3>3 DEF WatchError, TypeOK
  <2>3. ASSUME TimerExpires PROVE TypeOK' /\ Still /\ pc' = pc
    BY <2>3 DEF TimerExpires, TypeOK
  <2>4. ASSUME TimerFires
        PROVE  TypeOK' /\ Still /\ pc = "selecting" /\ pc' = "reloading"
    BY <2>4 DEF TimerFires, TypeOK
  <2>5. ASSUME Edit PROVE TypeOK' /\ Still /\ pc' = pc
    BY <2>5 DEF Edit, TypeOK
  <2>6. /\ TypeOK' /\ Still
        /\ \/ pc' = pc
           \/ pc = "selecting" /\ pc' = "reloading"
    BY <1>9, <2>1, <2>2, <2>3, <2>4, <2>5
  <2>7. CandidateInv' /\ LifeInv' /\ CopyFollowsSettings' /\ UsableMeansLoaded'
          /\ StatusOutsideCommit'
    BY <2>6 DEF CandidateInv, LifeInv, CopyFollowsSettings, UsableMeansLoaded,
                StatusOutsideCommit
  <2> QED  BY <2>6, <2>7
<1>10. CASE Reload
  <2>1. TypeOK'
    <3>1. excuses' \subseteq {"untold", "unsaved"}
      BY <1>10 DEF Reload, TypeOK
    <3>2. status' \in [state : States, source : Sources, for : Settings \cup {Unset}]
            /\ outcome' \in Outcomes
      BY <1>10 DEF Reload, TypeOK, RejectReload, Status
    <3>3. candidate' \in [doc : Settings \cup {Unset}, source : Sources,
                          state : States, outcome : Outcomes]
            /\ hash' \in Readable \cup {Unset}
      BY <1>10 DEF Reload, TypeOK, Valid
    <3> QED
      BY <1>10, <3>1, <3>2, <3>3 DEF Reload, TypeOK
  <2>2. CandidateInv'
    BY <1>10 DEF Reload, TypeOK, CandidateInv, Valid
  <2>3. LifeInv' /\ CopyFollowsSettings' /\ UsableMeansLoaded'
    BY <1>10 DEF Reload, LifeInv, CopyFollowsSettings, UsableMeansLoaded, Status,
                 RejectReload
  <2>4. StatusOutsideCommit'
    BY <1>10 DEF Reload, LifeInv, StatusOutsideCommit, Status, RejectReload
  <2> QED  BY <2>1, <2>2, <2>3, <2>4
<1>11. CASE Crash
  BY <1>11 DEF Crash, TypeOK, CandidateInv, LifeInv, CopyFollowsSettings,
               UsableMeansLoaded, StatusOutsideCommit, NoCandidate, Unavailable,
               Status
<1>12. CASE UNCHANGED vars
  BY <1>12 DEF vars, TypeOK, CandidateInv, LifeInv, CopyFollowsSettings,
               UsableMeansLoaded, StatusOutsideCommit
<1> QED
  BY <1>1, <1>2, <1>3, <1>4, <1>5, <1>6, <1>7, <1>8, <1>9, <1>10, <1>11, <1>12
  DEF Next, ManagerStep

LEMMA Invariant == Spec => []IInv
  BY InitInv, StepInv, PTL DEF Spec

\* The pointers, files and flags of the manager keep their types, so in
\* particular no candidate that was rejected is ever stored.
THEOREM SettingsTypeCorrect == Spec => []TypeOK
  BY Invariant, PTL DEF IInv

\* "startup can use the last-valid copy": whatever moment the process dies at,
\* the copy writeProtectedFile leaves is of the settings in force or about to
\* be.
THEOREM CopyAlwaysFollows == Spec => []CopyFollowsSettings
  BY Invariant, PTL DEF IInv

\* The order of commit's two stores keeps /ready from reporting a usable
\* configuration before there are settings, and between loads the published
\* status is about the settings in force.
THEOREM StatusIsOfSettings == Spec => []StatusDescribesSettings
  BY Invariant, PTL DEF IInv, StatusDescribesSettings

\* "invalid edits leave all previous settings active", as a property of every
\* step of Load, Reload and the watcher.
THEOREM OnlyValidEditsApply == Spec => InvalidEditsChangeNothing
<1> DEFINE Kept ==
      settings # Unset /\ settings' # settings /\ pc' # "down" =>
        candidate.source = "active" /\ settings' = hash
<1>1. IInv /\ [Next]_vars => Kept
  <2> SUFFICES ASSUME IInv, [Next]_vars, settings # Unset,
                      settings' # settings, pc' # "down"
               PROVE  candidate.source = "active" /\ settings' = hash
    OBVIOUS
  <2>1. StoreSettings
    BY DEF Next, ManagerStep, Boot, LoadActive, LoadLastValid, Persist,
           PersistFails, StoreStatus, Start, HandleEvent, WatchError, TimerFires,
           Reload, TimerExpires, Edit, Crash, memoryVars, vars
  <2>2. watching
    BY <2>1 DEF IInv, LifeInv, StoreSettings, Goto
  <2> QED
    BY <2>1, <2>2 DEF IInv, CandidateInv, StoreSettings, Goto, Committing
<1>2. IInv /\ [Next]_vars => [Kept]_vars
  BY <1>1
<1> QED
  BY <1>2, Invariant, PTL DEF Spec, InvalidEditsChangeNothing
===============================================================================
