---------------------------- MODULE DatabaseOpen ----------------------------
(*****************************************************************************)
(* storage.Open (storage/sqlite.go) and the migrations under it              *)
(* (storage/migrations/migrations.go): one database file, opened by several  *)
(* goroutines, as history or as audit, for writing or for reading only, by   *)
(* one version of the application after another, with a failure at any step  *)
(* and a crash between any two.                                              *)
(*                                                                           *)
(* A path is locked under its absolute spelling, so one file that has two    *)
(* names (a link on the way to it) is not protected by the lock: `name` is   *)
(* part of what is asked for.  The second lock, that of migrations.Apply, is *)
(* taken under the first with the same key and is never waited for.          *)
(*                                                                           *)
(* The file is kept as what Open and goose read of it: whether goose's table *)
(* exists and which version it has, the row of schema_compatibility, and     *)
(* whether the journal is a WAL.  Rows of other tables are left out.         *)
(*****************************************************************************)
EXTENDS Integers, FiniteSets

CONSTANTS
  Openers,   \* the goroutines that open the file
  Names,     \* the spellings of its path
  Versions,  \* the versions of the application
  Target,    \* of each version: the last migration of each kind it embeds
  Found,     \* what the file may be at first
  None       \* no row

Kinds == {"history", "audit"}
Modes == {"read_write", "read_only"}

\* history.Open, history.OpenReadOnly and audit.Open.
Asks ==
  {a \in [kind : Kinds, mode : Modes, name : Names] :
     a.kind = "audit" => a.mode = "read_write"}

\* The version of a file in which goose has no table, and of one in which goose
\* has applied nothing.
NoTable == -1
NoVersion == 0

\* Migrations are numbered from 1 without holes, and each sets current_version,
\* minimum_reader_version and backward_compatible_from_version to its own number.
Rows == [kind : Kinds, version : Nat \ {0}]

\* A file in which a migration was applied has both its version and its row.
Consistent(f) ==
  /\ f.row = None <=> f.version \in {NoTable, NoVersion}
  /\ f.row # None => f.row.version = f.version

Files ==
  [exists : BOOLEAN, version : Nat \cup {NoTable}, row : Rows \cup {None}, wal : BOOLEAN]

\* None of the application's versions is called None.
ASSUME OpenAssumption ==
  /\ Target \in [Versions -> [Kinds -> Nat \ {0}]]
  /\ Found \subseteq Files
  /\ \A f \in Found : Consistent(f)
  /\ None \notin Rows \cup Versions

VARIABLES
  file,      \* the database file
  exposed,   \* which of the file and its sidecars are not owner-only
  app,       \* the version that runs, or None
  ask,       \* of each opener: what it asks for
  place,     \* of each opener: where it is in Open
  next,      \* of each opener: the migration that is its turn in Up
  holder,    \* of each name: the openers that hold its lock
  connected, \* the openers with a connection pool
  reason     \* of each opener: why it failed

vars == <<file, exposed, app, ask, place, next, holder, connected, reason>>

Init ==
  /\ file \in Found
  /\ exposed \in {{}, {"database", "sidecars"}}
  /\ app \in Versions
  /\ ask \in [Openers -> {[kind |-> "history", mode |-> "read_write", name |-> n] : n \in Names}]
  /\ place = [o \in Openers |-> "idle"]
  /\ next = [o \in Openers |-> 0]
  /\ holder = [n \in Names |-> {}]
  /\ connected = {}
  /\ reason = [o \in Openers |-> "none"]

-----------------------------------------------------------------------------
(***************************************************************************)
(* The ways on and out.                                                    *)
(***************************************************************************)

TargetOf(o) == Target[app][ask[o].kind]

\* The deferred unlock.
Unlock(o) == holder' = [holder EXCEPT ![ask[o].name] = @ \ {o}]

\* Mutant: the lock is released by an open that succeeds only.
FailLocked(o, why) ==
  /\ place' = [place EXCEPT ![o] = "failed"]
  /\ reason' = [reason EXCEPT ![o] = why]
  /\ connected' = connected \ {o}
  /\ UNCHANGED <<app, ask, next, holder>>

\* closeWithError, where there is something to close, and the deferred unlock.
Fail(o, why) ==
  /\ place' = [place EXCEPT ![o] = "failed"]
  /\ reason' = [reason EXCEPT ![o] = why]
  /\ connected' = connected \ {o}
  /\ Unlock(o)
  /\ UNCHANGED <<app, ask, next>>

Continue(o, to) ==
  /\ place' = [place EXCEPT ![o] = to]
  /\ UNCHANGED <<app, ask, holder, reason>>

\* The file system, the driver or the context ends a step.
Broken(o) == Fail(o, "io") /\ UNCHANGED <<file, exposed>>

-----------------------------------------------------------------------------
(***************************************************************************)
(* Open.                                                                   *)
(***************************************************************************)

\* storage.Open is called, or called again after it failed.
Open(o) ==
  /\ app # None
  /\ place[o] \in {"idle", "failed"}
  /\ \E a \in Asks : ask' = [ask EXCEPT ![o] = a]
  /\ place' = [place EXCEPT ![o] = "waiting"]
  /\ reason' = [reason EXCEPT ![o] = "none"]
  /\ UNCHANGED <<file, exposed, app, next, holder, connected>>

\* Mutant: nothing is locked.
LockNothing(o) ==
  /\ place[o] = "waiting"
  /\ Continue(o, "preparing")
  /\ UNCHANGED <<file, exposed, next, connected>>

\* lockOpenPath.
Lock(o) ==
  /\ place[o] = "waiting"
  /\ holder[ask[o].name] = {}
  /\ holder' = [holder EXCEPT ![ask[o].name] = {o}]
  /\ place' = [place EXCEPT ![o] = "preparing"]
  /\ UNCHANGED <<file, exposed, app, ask, next, connected, reason>>

\* preparePath: a missing file is created, unless it is to be read only, and
\* made owner-only.  A file that another goroutine creates first is as good.
Prepare(o) ==
  /\ place[o] = "preparing"
  /\ \/ Broken(o)
     \/ /\ ~file.exists /\ ask[o].mode = "read_only"
        /\ Fail(o, "missing")
        /\ UNCHANGED <<file, exposed>>
     \/ /\ file.exists \/ ask[o].mode = "read_write"
        /\ file' = [file EXCEPT !.exists = TRUE]
        /\ exposed' = exposed \ {"database"}
        /\ Continue(o, "connecting")
        /\ UNCHANGED <<next, connected>>

\* The first connection, with the pragmas of dataSourceName: only one that may
\* write changes the journal.
Connect(o) ==
  /\ place[o] = "connecting"
  /\ \/ Broken(o)
     \/ /\ connected' = connected \cup {o}
        /\ file' = [file EXCEPT !.wal = @ \/ ask[o].mode = "read_write"]
        /\ Continue(o, IF ask[o].mode = "read_write" THEN "versions" ELSE "validating")
        /\ UNCHANGED <<exposed, next>>

\* GetVersions: goose makes its table if there is none.
Versioned == IF file.version = NoTable THEN NoVersion ELSE file.version

\* Apply: a file of a newer application is refused before anything is applied.
GetVersions(o) ==
  /\ place[o] = "versions"
  /\ \/ Broken(o)
     \/ /\ file' = [file EXCEPT !.version = Versioned]
        /\ IF Versioned > TargetOf(o)
           THEN Fail(o, "too_new")
           ELSE Continue(o, "listing") /\ UNCHANGED <<next, connected>>
        /\ UNCHANGED exposed

\* Up lists what has not been applied.
ListPending(o) ==
  /\ place[o] = "listing"
  /\ \/ Broken(o)
     \/ /\ next' = [next EXCEPT ![o] = file.version + 1]
        /\ Continue(o, "upgrading")
        /\ UNCHANGED <<file, exposed, connected>>

\* Mutant: a migration that alters only what both kinds have.
AppliesToBoth(k, m) ==
  IF m = 1 THEN file.row = None ELSE file.row # None /\ file.row.version = m - 1

\* Migration m of a kind alters what migration m-1 of it made; the first makes
\* its tables and fails if they are there.
Applies(k, m) ==
  IF m = 1 THEN file.row = None
  ELSE file.row # None /\ file.row.kind = k /\ file.row.version = m - 1

Upgraded(k, m) == [file EXCEPT !.version = m, !.row = [kind |-> k, version |-> m]]

\* One migration is one transaction, with goose's own row of it.
Migrate(o) ==
  /\ place[o] = "upgrading"
  /\ next[o] <= TargetOf(o)
  /\ \/ Broken(o)
     \/ /\ ~Applies(ask[o].kind, next[o])
        /\ Fail(o, "conflict")
        /\ UNCHANGED <<file, exposed>>
     \/ /\ Applies(ask[o].kind, next[o])
        /\ file' = Upgraded(ask[o].kind, next[o])
        /\ next' = [next EXCEPT ![o] = @ + 1]
        /\ UNCHANGED <<exposed, app, ask, place, holder, connected, reason>>

Migrated(o) ==
  /\ place[o] = "upgrading"
  /\ next[o] > TargetOf(o)
  /\ Continue(o, "validating")
  /\ UNCHANGED <<file, exposed, next, connected>>

\* Validate, for both modes: the version has to be the last one.
Validate(o) ==
  /\ place[o] = "validating"
  /\ \/ Fail(o, "io")
     \/ file.version > TargetOf(o) /\ Fail(o, "too_new")
     \/ file.version < TargetOf(o) /\ Fail(o, "incomplete")
     \/ /\ file.version = TargetOf(o)
        /\ Continue(o, "comparing")
        /\ UNCHANGED <<next, connected>>
  /\ UNCHANGED <<file, exposed>>

\* Mutant: the kind is not compared.
CompatibleVersion(o) == file.row # None /\ file.row.version = TargetOf(o)

\* ReadCompatibility and the comparison that follows.
Compatible(o) == file.row = [kind |-> ask[o].kind, version |-> TargetOf(o)]

CheckCompatibility(o) ==
  /\ place[o] = "comparing"
  /\ \/ Fail(o, "io")
     \/ ~Compatible(o) /\ Fail(o, "incompatible")
     \/ Compatible(o) /\ Continue(o, "verifying") /\ UNCHANGED <<next, connected>>
  /\ UNCHANGED <<file, exposed>>

\* verifyConnectionPolicy.
VerifyPolicy(o) ==
  /\ place[o] = "verifying"
  /\ \/ Fail(o, "io")
     \/ ~file.wal /\ Fail(o, "policy")
     \/ file.wal /\ Continue(o, "protecting") /\ UNCHANGED <<next, connected>>
  /\ UNCHANGED <<file, exposed>>

\* protectDatabaseFiles, and the handle is returned.
Protect(o) ==
  /\ place[o] = "protecting"
  /\ \/ Broken(o)
     \/ /\ exposed' = {}
        /\ place' = [place EXCEPT ![o] = "open"]
        /\ Unlock(o)
        /\ UNCHANGED <<file, app, ask, next, connected, reason>>

\* Database.Close takes no lock.
Close(o) ==
  /\ place[o] = "open"
  /\ place' = [place EXCEPT ![o] = "idle"]
  /\ connected' = connected \ {o}
  /\ UNCHANGED <<file, exposed, app, ask, next, holder, reason>>

-----------------------------------------------------------------------------
(***************************************************************************)
(* The process.                                                            *)
(***************************************************************************)

\* The process dies: SQLite takes back what was not committed, and what was
\* locked in memory is free.
Crash ==
  /\ app # None
  /\ app' = None
  /\ place' = [o \in Openers |-> "idle"]
  /\ holder' = [n \in Names |-> {}]
  /\ connected' = {}
  /\ reason' = [o \in Openers |-> "none"]
  /\ UNCHANGED <<file, exposed, ask, next>>

\* An upgrade, a rollback, or the same application again.
Restart ==
  /\ app = None
  /\ app' \in Versions
  /\ UNCHANGED <<file, exposed, ask, place, next, holder, connected, reason>>

OpenStep(o) ==
  \/ Prepare(o) \/ Connect(o) \/ GetVersions(o) \/ ListPending(o)
  \/ Migrate(o) \/ Migrated(o) \/ Validate(o) \/ CheckCompatibility(o)
  \/ VerifyPolicy(o) \/ Protect(o)

Next ==
  \/ \E o \in Openers : Open(o) \/ Lock(o) \/ OpenStep(o) \/ Close(o)
  \/ Crash \/ Restart

Spec == Init /\ [][Next]_vars

\* A goroutine in Open goes on; a mutex is given to whoever waits long enough.
Fairness == \A o \in Openers : SF_vars(Lock(o)) /\ WF_vars(OpenStep(o))

FairSpec == Spec /\ Fairness

-----------------------------------------------------------------------------
(***************************************************************************)
(* Properties.                                                             *)
(***************************************************************************)

\* The places in which the lock of the name is held.
Locked ==
  {"preparing", "connecting", "versions", "listing", "upgrading", "validating",
   "comparing", "verifying", "protecting"}
Places == Locked \cup {"idle", "waiting", "open", "failed"}
Reasons ==
  {"none", "io", "missing", "too_new", "conflict", "incomplete", "incompatible", "policy"}

TypeOK ==
  /\ file \in Files
  /\ exposed \subseteq {"database", "sidecars"}
  /\ app \in Versions \cup {None}
  /\ ask \in [Openers -> Asks]
  /\ place \in [Openers -> Places]
  /\ next \in [Openers -> Nat]
  /\ holder \in [Names -> SUBSET Openers]
  /\ connected \subseteq Openers
  /\ reason \in [Openers -> Reasons]

\* docs/storage-schema.md: "A binary refuses a database newer than its embedded
\* migrations, and read-only mode refuses incomplete schemas".  As long as a
\* handle is open its file is of the kind and the version that the application
\* expects, in WAL mode and owner-only, whoever else opens it by whatever name.
HandleIsCurrent ==
  \A o \in Openers :
    place[o] = "open" =>
      /\ app # None
      /\ file.row = [kind |-> ask[o].kind, version |-> TargetOf(o)]
      /\ file.version = TargetOf(o)
      /\ file.wal /\ exposed = {}

\* What a file is it remains: it is never taken for the other kind, never goes
\* back, and gets a migration whole and in its turn or not at all, whatever
\* fails, crashes or is restarted in another version.
FileMovesForward ==
  [][file'.version # file.version \/ file'.row # file.row =>
       \/ file.version = NoTable /\ file'.version = NoVersion /\ file'.row = file.row
       \/ /\ file'.version = file.version + 1
          /\ file'.row.version = file'.version
          /\ file.row # None => file'.row.kind = file.row.kind]_vars

\* What an open found of the schema is not changed under it: while it is at
\* work, only a goroutine that came by another name of the file can apply a
\* migration, and none of its own name can do so however they interleave.
SchemaHeldStill ==
  [][file'.row # file.row =>
       \A o \in Openers :
         place[o] \in Locked /\ next'[o] = next[o] =>
           \E p \in Openers : ask[p].name # ask[o].name /\ next'[p] # next[p]]_vars

\* An open that fails leaves neither a connection nor a lock behind.
NothingLeftOpen ==
  /\ \A o \in connected : place[o] \in Locked \cup {"open"}
  /\ \A n \in Names, o \in Openers :
       o \in holder[n] <=> place[o] \in Locked /\ ask[o].name = n

\* Whoever asks is answered, unless the process dies: nobody waits for ever for
\* a lock that a failed open has kept.
OpensEnd ==
  \A o \in Openers :
    place[o] = "waiting" ~> place[o] \in {"open", "failed", "idle"}
=============================================================================
