------------------------- MODULE DatabaseOpen_proofs -------------------------
(*****************************************************************************)
(* Proofs about DatabaseOpen, for any number of goroutines, any spellings of *)
(* the path and any versions of the application.                             *)
(*****************************************************************************)
EXTENDS DatabaseOpen, TLAPS

LEMMA NoneIsNoRow == None \notin Rows /\ None \notin Versions
BY OpenAssumption

\* TypeOK with the conjunct of the file spelled out.
LEMMA FileType ==
  file \in Files <=>
    /\ file = [exists |-> file.exists, version |-> file.version,
               row |-> file.row, wal |-> file.wal]
    /\ file.exists \in BOOLEAN /\ file.wal \in BOOLEAN
    /\ file.version \in Nat \cup {NoTable}
    /\ file.row \in Rows \cup {None}
BY DEF Files

-----------------------------------------------------------------------------
(***************************************************************************)
(* The type invariant, and the file by itself.                             *)
(***************************************************************************)

\* An opener that is anywhere was let in by a running application.
AppRuns == \A o \in Openers : place[o] \notin {"idle"} => app # None

TypeInv == TypeOK /\ Consistent(file) /\ AppRuns

LEMMA FailType ==
  ASSUME TypeOK, NEW o \in Openers, NEW why \in Reasons, Fail(o, why)
  PROVE  /\ app' = app /\ ask' = ask /\ next' = next
         /\ place' \in [Openers -> Places]
         /\ place' = [place EXCEPT ![o] = "failed"]
         /\ holder' \in [Names -> SUBSET Openers]
         /\ connected' \subseteq Openers
         /\ reason' \in [Openers -> Reasons]
BY DEF TypeOK, Fail, Unlock, Places

LEMMA ContinueType ==
  ASSUME TypeOK, NEW o \in Openers, NEW to \in Places, Continue(o, to)
  PROVE  /\ app' = app /\ ask' = ask /\ holder' = holder /\ reason' = reason
         /\ place' \in [Openers -> Places]
         /\ place' = [place EXCEPT ![o] = to]
BY DEF TypeOK, Continue

LEMMA TargetType ==
  ASSUME TypeInv, NEW o \in Openers, place[o] # "idle"
  PROVE  app \in Versions /\ TargetOf(o) \in Nat \ {0}
<1>1. app \in Versions
  BY DEF TypeInv, TypeOK, AppRuns
<1>2. ask[o].kind \in Kinds
  BY DEF TypeInv, TypeOK, Asks
<1> QED
  BY <1>1, <1>2, OpenAssumption DEF TargetOf

\* What each step does to the file: nothing, or one of four things.
FileStep ==
  \/ file' = file
  \/ file' = [file EXCEPT !.exists = TRUE]
  \/ \E w \in BOOLEAN : file' = [file EXCEPT !.wal = file.wal \/ w]
  \/ file' = [file EXCEPT !.version = Versioned]
  \/ \E o \in Openers :
       /\ place[o] = "upgrading" /\ next[o] <= TargetOf(o)
       /\ Applies(ask[o].kind, next[o])
       /\ file' = Upgraded(ask[o].kind, next[o])
       /\ next' = [next EXCEPT ![o] = next[o] + 1]

LEMMA EveryFileStep == [Next]_vars => FileStep
<1> SUFFICES ASSUME [Next]_vars PROVE FileStep
  OBVIOUS
<1>1. CASE UNCHANGED vars
  BY <1>1 DEF vars, FileStep
<1>2. CASE Crash \/ Restart
  BY <1>2 DEF Crash, Restart, FileStep
<1>3. ASSUME NEW o \in Openers, Open(o) \/ Lock(o) \/ OpenStep(o) \/ Close(o)
      PROVE  FileStep
  <2>1. CASE Open(o) \/ Lock(o) \/ Close(o) \/ ListPending(o) \/ Migrated(o)
             \/ Validate(o) \/ CheckCompatibility(o) \/ VerifyPolicy(o) \/ Protect(o)
    BY <2>1 DEF Open, Lock, Close, ListPending, Migrated, Validate,
                CheckCompatibility, VerifyPolicy, Protect, Broken, FileStep
  <2>2. CASE Prepare(o)
    BY <2>2 DEF Prepare, Broken, FileStep
  <2>3. CASE Connect(o)
    <3>1. (ask[o].mode = "read_write") \in BOOLEAN
      OBVIOUS
    <3> QED
      BY <2>3, <3>1 DEF Connect, Broken, FileStep
  <2>4. CASE GetVersions(o)
    BY <2>4 DEF GetVersions, Broken, FileStep
  <2>5. CASE Migrate(o)
    BY <2>5 DEF Migrate, Broken, FileStep
  <2> QED
    BY <1>3, <2>1, <2>2, <2>3, <2>4, <2>5 DEF OpenStep
<1> QED
  BY <1>1, <1>2, <1>3 DEF Next

LEMMA FileKeepsType ==
  ASSUME TypeInv, FileStep
  PROVE  file' \in Files /\ Consistent(file')
<1> USE NoneIsNoRow DEF TypeInv, TypeOK, NoTable, NoVersion
<1>1. CASE file' = file
  BY <1>1
<1>2. CASE file' = [file EXCEPT !.exists = TRUE]
  BY <1>2 DEF Files, Consistent
<1>3. CASE \E w \in BOOLEAN : file' = [file EXCEPT !.wal = file.wal \/ w]
  <2>1. PICK w \in BOOLEAN : file' = [file EXCEPT !.wal = file.wal \/ w]
    BY <1>3
  <2>2. (file.wal \/ w) \in BOOLEAN
    OBVIOUS
  <2> DEFINE b == file.wal \/ w
  <2> HIDE DEF b
  <2>3. b \in BOOLEAN /\ file' = [file EXCEPT !.wal = b]
    BY <2>1, <2>2 DEF b
  <2> QED
    BY <2>3 DEF Files, Consistent
<1>4. CASE file' = [file EXCEPT !.version = Versioned]
  BY <1>4 DEF Files, Consistent, Versioned
<1>5. ASSUME NEW o \in Openers,
             place[o] = "upgrading", next[o] <= TargetOf(o),
             Applies(ask[o].kind, next[o]),
             file' = Upgraded(ask[o].kind, next[o])
      PROVE  file' \in Files /\ Consistent(file')
  <2>1. ask[o].kind \in Kinds /\ next[o] \in Nat
    BY DEF Asks
  <2>2. next[o] # 0
    <3>1. file.row \in Rows \cup {None}
      BY FileType
    <3> QED
      BY <1>5, <2>1, <3>1 DEF Applies, Rows
  <2>3. [kind |-> ask[o].kind, version |-> next[o]] \in Rows
    BY <2>1, <2>2 DEF Rows
  <2> DEFINE row == [kind |-> ask[o].kind, version |-> next[o]]
  <2>4. row \in Rows /\ row.version = next[o]
    BY <2>3
  <2>5. file' = [file EXCEPT !.version = next[o], !.row = row]
    BY <1>5 DEF Upgraded
  <2> HIDE DEF row
  <2>6. file'.version = next[o] /\ file'.row = row /\ file' \in Files
    BY <2>1, <2>4, <2>5 DEF Files
  <2> QED
    BY <2>1, <2>2, <2>4, <2>6 DEF Consistent
<1> QED
  BY <1>1, <1>2, <1>3, <1>4, <1>5 DEF FileStep

LEMMA AppRunsKept ==
  ASSUME TypeOK, AppRuns, app' = app,
         NEW o \in Openers, NEW to, place' = [place EXCEPT ![o] = to],
         app # None
  PROVE  AppRuns'
BY DEF AppRuns, TypeOK

LEMMA TypeNext == TypeInv /\ [Next]_vars => TypeInv'
<1> SUFFICES ASSUME TypeInv, [Next]_vars PROVE TypeInv'
  OBVIOUS
<1> USE DEF TypeInv
<1>1. file' \in Files /\ Consistent(file')
  BY EveryFileStep, FileKeepsType
<1>2. CASE UNCHANGED vars
  BY <1>1, <1>2 DEF vars, TypeOK, AppRuns
<1>3. CASE Crash
  BY <1>1, <1>3 DEF Crash, TypeOK, AppRuns, Places, Reasons
<1>4. CASE Restart
  BY <1>1, <1>4, NoneIsNoRow DEF Restart, TypeOK, AppRuns
<1>5. ASSUME NEW o \in Openers, Open(o)
      PROVE  TypeInv'
  BY <1>1, <1>5 DEF Open, TypeOK, AppRuns, Places, Reasons
<1>6. ASSUME NEW o \in Openers, Lock(o) \/ OpenStep(o) \/ Close(o)
      PROVE  TypeInv'
  <2>0. app # None
    BY <1>6 DEF Lock, OpenStep, Close, Prepare, Connect, GetVersions, ListPending,
                Migrate, Migrated, Validate, CheckCompatibility, VerifyPolicy, Protect,
                AppRuns
  <2>1. ASSUME NEW why \in Reasons, Fail(o, why), exposed' \subseteq {"database", "sidecars"}
        PROVE  TypeInv'
    <3>1. AppRuns'
      BY <2>0, <2>1, FailType, AppRunsKept
    <3> QED
      BY <1>1, <2>1, <3>1, FailType DEF TypeOK
  <2>2. ASSUME NEW to \in Places, Continue(o, to), next' \in [Openers -> Nat],
               connected' \subseteq Openers, exposed' \subseteq {"database", "sidecars"}
        PROVE  TypeInv'
    <3>1. AppRuns'
      BY <2>0, <2>2, ContinueType, AppRunsKept
    <3> QED
      BY <1>1, <2>2, <3>1, ContinueType DEF TypeOK
  <2>3. CASE Broken(o)
    BY <2>1, <2>3 DEF Broken, Reasons, TypeOK
  <2>4. CASE Lock(o)
    BY <1>1, <2>0, <2>4 DEF Lock, TypeOK, AppRuns, Places, Locked, Asks
  <2>5. CASE Prepare(o)
    BY <2>1, <2>2, <2>3, <2>5 DEF Prepare, Reasons, Places, Locked, TypeOK
  <2>6. CASE Connect(o)
    BY <2>2, <2>3, <2>6 DEF Connect, Places, Locked, TypeOK
  <2>7. CASE GetVersions(o)
    BY <2>1, <2>2, <2>3, <2>7 DEF GetVersions, Reasons, Places, Locked, TypeOK
  <2>8. CASE ListPending(o)
    <3>1. CASE Broken(o)
      BY <2>3, <3>1
    <3>2. CASE ~Broken(o)
      <4>1. file.version + 1 \in Nat
        BY FileType DEF TypeOK, NoTable
      <4>2. /\ next' = [next EXCEPT ![o] = file.version + 1]
            /\ Continue(o, "upgrading")
            /\ UNCHANGED <<file, exposed, connected>>
        BY <2>8, <3>2 DEF ListPending
      <4>3. next' \in [Openers -> Nat]
        BY <4>1, <4>2 DEF TypeOK
      <4> QED
        BY <2>2, <4>2, <4>3 DEF Places, Locked, TypeOK
    <3> QED
      BY <3>1, <3>2
  <2>9. CASE Migrate(o)
    <3>1. CASE Broken(o)
      BY <2>3, <3>1
    <3>2. CASE Fail(o, "conflict") /\ UNCHANGED <<file, exposed>>
      BY <2>1, <3>2 DEF Reasons, TypeOK
    <3>3. CASE /\ next' = [next EXCEPT ![o] = @ + 1]
               /\ UNCHANGED <<exposed, app, ask, place, holder, connected, reason>>
      BY <1>1, <3>3 DEF TypeOK, AppRuns
    <3> QED
      BY <2>9, <3>1, <3>2, <3>3, Zenon DEF Migrate
  <2>10. CASE Migrated(o)
    BY <2>2, <2>10 DEF Migrated, Places, Locked, TypeOK
  <2>11. CASE Validate(o)
    BY <2>1, <2>2, <2>11 DEF Validate, Reasons, Places, Locked, TypeOK
  <2>12. CASE CheckCompatibility(o)
    BY <2>1, <2>2, <2>12 DEF CheckCompatibility, Reasons, Places, Locked, TypeOK
  <2>13. CASE VerifyPolicy(o)
    BY <2>1, <2>2, <2>13 DEF VerifyPolicy, Reasons, Places, Locked, TypeOK
  <2>14. CASE Protect(o)
    <3>1. CASE Broken(o)
      BY <2>3, <3>1
    <3>2. CASE ~Broken(o)
      BY <1>1, <2>0, <2>14, <3>2 DEF Protect, Unlock, TypeOK, AppRuns, Places
    <3> QED
      BY <3>1, <3>2
  <2>15. CASE Close(o)
    BY <1>1, <2>0, <2>15 DEF Close, TypeOK, AppRuns, Places
  <2> QED
    BY <1>6, <2>4, <2>5, <2>6, <2>7, <2>8, <2>9, <2>10, <2>11, <2>12, <2>13, <2>14,
       <2>15 DEF OpenStep
<1> QED
  BY <1>2, <1>3, <1>4, <1>5, <1>6 DEF Next

-----------------------------------------------------------------------------
(***************************************************************************)
(* The locks.                                                              *)
(***************************************************************************)

OneHolder == \A n \in Names : \A o, p \in holder[n] : o = p

Locks == NothingLeftOpen /\ OneHolder

\* What a step of an opener that holds the lock does to it: it goes on in the
\* lock, or gives it back and is out.
StaysIn(o) ==
  /\ place' = [place EXCEPT ![o] = place'[o]] /\ place'[o] \in Locked
  /\ ask' = ask /\ holder' = holder
  /\ connected' \in {connected, connected \cup {o}}
GetsOut(o) ==
  /\ place' = [place EXCEPT ![o] = place'[o]]
  /\ ask' = ask
  /\ holder' = [holder EXCEPT ![ask[o].name] = @ \ {o}]
  /\ \/ place'[o] = "failed" /\ connected' = connected \ {o}
     \/ place'[o] = "open" /\ connected' = connected

LEMMA StaysOrGetsOut ==
  ASSUME TypeInv, NEW o \in Openers, OpenStep(o)
  PROVE  place[o] \in Locked /\ (StaysIn(o) \/ GetsOut(o))
<1> USE DEF TypeInv, TypeOK
<1>1. ASSUME NEW why, Fail(o, why) PROVE GetsOut(o)
  BY <1>1 DEF Fail, Unlock, GetsOut
<1>2. ASSUME NEW to \in Locked, Continue(o, to), connected' \in {connected, connected \cup {o}}
      PROVE  StaysIn(o)
  BY <1>2 DEF Continue, StaysIn
<1>3. Broken(o) => GetsOut(o)
  BY <1>1 DEF Broken
<1>4. CASE Prepare(o)
  BY <1>1, <1>2, <1>3, <1>4 DEF Prepare, Locked
<1>5. CASE Connect(o)
  BY <1>2, <1>3, <1>5 DEF Connect, Locked
<1>6. CASE GetVersions(o)
  BY <1>1, <1>2, <1>3, <1>6 DEF GetVersions, Locked
<1>7. CASE ListPending(o)
  BY <1>2, <1>3, <1>7 DEF ListPending, Locked
<1>8. CASE Migrate(o)
  <2>1. CASE UNCHANGED <<exposed, app, ask, place, holder, connected, reason>>
    BY <1>8, <2>1 DEF Migrate, StaysIn, Locked
  <2>2. CASE Broken(o) \/ Fail(o, "conflict")
    BY <1>1, <1>3, <1>8, <2>2 DEF Migrate, Locked
  <2> QED
    BY <1>8, <2>1, <2>2, Zenon DEF Migrate
<1>9. CASE Migrated(o)
  BY <1>2, <1>9 DEF Migrated, Locked
<1>10. CASE Validate(o)
  BY <1>1, <1>2, <1>10 DEF Validate, Locked
<1>11. CASE CheckCompatibility(o)
  BY <1>1, <1>2, <1>11 DEF CheckCompatibility, Locked
<1>12. CASE VerifyPolicy(o)
  BY <1>1, <1>2, <1>12 DEF VerifyPolicy, Locked
<1>13. CASE Protect(o)
  <2>1. CASE Broken(o)
    BY <1>3, <1>13, <2>1 DEF Protect, Locked
  <2>2. CASE ~Broken(o)
    BY <1>13, <2>2 DEF Protect, Unlock, GetsOut, Locked
  <2> QED
    BY <2>1, <2>2
<1> QED
  BY <1>4, <1>5, <1>6, <1>7, <1>8, <1>9, <1>10, <1>11, <1>12, <1>13 DEF OpenStep

LEMMA LocksNext == TypeInv /\ Locks /\ [Next]_vars => Locks'
<1> SUFFICES ASSUME TypeInv, Locks, [Next]_vars PROVE Locks'
  OBVIOUS
<1> USE DEF TypeInv, TypeOK, Locks, NothingLeftOpen, OneHolder
<1>1. CASE UNCHANGED vars
  BY <1>1 DEF vars
<1>2. CASE Crash
  BY <1>2 DEF Crash, Locked
<1>3. CASE Restart
  BY <1>3 DEF Restart
<1>4. ASSUME NEW o \in Openers, Open(o)
      PROVE  Locks'
  BY <1>4 DEF Open, Locked
<1>5. ASSUME NEW o \in Openers, Lock(o)
      PROVE  Locks'
  BY <1>5 DEF Lock, Locked, Asks
<1>6. ASSUME NEW o \in Openers, OpenStep(o)
      PROVE  Locks'
  <2>1. place[o] \in Locked /\ (StaysIn(o) \/ GetsOut(o))
    BY <1>6, StaysOrGetsOut
  <2>2. CASE StaysIn(o)
    BY <2>1, <2>2 DEF StaysIn
  <2>3. CASE GetsOut(o)
    <3>1. place'[o] \in {"failed", "open"} /\ place'[o] \notin Locked
      BY <2>3 DEF GetsOut, Locked
    <3>2. ask[o].name \in Names /\ o \in holder[ask[o].name]
      BY <2>1 DEF Asks
    <3> QED
      BY <2>1, <2>3, <3>1, <3>2 DEF GetsOut
  <2> QED
    BY <2>1, <2>2, <2>3
<1>7. ASSUME NEW o \in Openers, Close(o)
      PROVE  Locks'
  BY <1>7 DEF Close, Locked
<1> QED
  BY <1>1, <1>2, <1>3, <1>4, <1>5, <1>6, <1>7 DEF Next

-----------------------------------------------------------------------------
(***************************************************************************)
(* What an opener has made sure of stays so while others are at work.      *)
(***************************************************************************)

Made(o) ==
  /\ place[o] \in {"listing", "upgrading"} => file.version # NoTable
  /\ place[o] \in {"verifying", "protecting", "open"} =>
       file.row = [kind |-> ask[o].kind, version |-> TargetOf(o)]
  /\ place[o] \in {"protecting", "open"} => file.wal
  /\ place[o] = "open" => exposed = {}

Passed == \A o \in Openers : Made(o)

\* The table and the journal are there for good.
LEMMA TableAndJournalStay ==
  ASSUME TypeInv, FileStep
  PROVE  /\ file.version # NoTable => file'.version # NoTable
         /\ file.wal => file'.wal
<1> USE DEF TypeInv, TypeOK, NoTable, NoVersion
<1>1. CASE \E o \in Openers : place[o] = "upgrading" /\ file' = Upgraded(ask[o].kind, next[o])
  <2>1. PICK o \in Openers : file' = Upgraded(ask[o].kind, next[o])
    BY <1>1
  <2> DEFINE row == [kind |-> ask[o].kind, version |-> next[o]]
  <2>2. file' = [file EXCEPT !.version = next[o], !.row = row]
    BY <2>1 DEF Upgraded
  <2> HIDE DEF row
  <2>3. file'.version = next[o] /\ file'.wal = file.wal
    BY <2>2 DEF Files
  <2> QED
    BY <2>3
<1>2. CASE \E w \in BOOLEAN : file' = [file EXCEPT !.wal = file.wal \/ w]
  <2>1. PICK w \in BOOLEAN : file' = [file EXCEPT !.wal = file.wal \/ w]
    BY <1>2
  <2> DEFINE b == file.wal \/ w
  <2>2. file' = [file EXCEPT !.wal = b] /\ (file.wal => b)
    BY <2>1
  <2> HIDE DEF b
  <2> QED
    BY <2>2 DEF Files
<1>3. CASE file' = file \/ file' = [file EXCEPT !.exists = TRUE]
  BY <1>3 DEF Files
<1>4. CASE file' = [file EXCEPT !.version = Versioned]
  BY <1>4 DEF Files, Versioned
<1> QED
  BY <1>1, <1>2, <1>3, <1>4 DEF FileStep

\* A file that is at the target of its kind is migrated by nobody.
LEMMA TargetStays ==
  ASSUME TypeInv, FileStep, NEW o \in Openers, place[o] # "idle",
         file.row = [kind |-> ask[o].kind, version |-> TargetOf(o)]
  PROVE  file'.row = file.row
<1> USE DEF TypeInv, TypeOK
<1>1. ASSUME NEW p \in Openers,
             place[p] = "upgrading", next[p] <= TargetOf(p),
             Applies(ask[p].kind, next[p])
      PROVE  FALSE
  <2>1. ask[o].kind \in Kinds /\ ask[p].kind \in Kinds /\ next[p] \in Nat
    BY DEF Asks
  <2>2. TargetOf(o) \in Nat \ {0}
    BY TargetType
  <2>3. file.row \in Rows /\ file.row.kind = ask[o].kind /\ file.row.version = TargetOf(o)
    BY <2>1, <2>2 DEF Rows
  <2>4. file.row # None
    BY <2>3, NoneIsNoRow
  <2>5. ask[p].kind = ask[o].kind /\ TargetOf(o) = next[p] - 1
    BY <1>1, <2>3, <2>4 DEF Applies
  <2>6. TargetOf(p) = TargetOf(o)
    BY <2>5 DEF TargetOf
  <2> QED
    BY <1>1, <2>1, <2>2, <2>5, <2>6
<1>2. \/ file' = file
      \/ file' = [file EXCEPT !.exists = TRUE]
      \/ \E w \in BOOLEAN : file' = [file EXCEPT !.wal = file.wal \/ w]
      \/ file' = [file EXCEPT !.version = Versioned]
  BY <1>1 DEF FileStep
<1>3. CASE \E w \in BOOLEAN : file' = [file EXCEPT !.wal = file.wal \/ w]
  <2>1. PICK w \in BOOLEAN : file' = [file EXCEPT !.wal = file.wal \/ w]
    BY <1>3
  <2> DEFINE b == file.wal \/ w
  <2>2. file' = [file EXCEPT !.wal = b]
    BY <2>1
  <2> HIDE DEF b
  <2> QED
    BY <2>2 DEF Files
<1> QED
  BY <1>2, <1>3 DEF Files

LEMMA ExposedShrinks == TypeInv /\ [Next]_vars => exposed' \subseteq exposed
<1> SUFFICES ASSUME TypeInv, [Next]_vars PROVE exposed' \subseteq exposed
  OBVIOUS
<1>1. CASE UNCHANGED vars
  BY <1>1 DEF vars
<1>2. CASE Crash \/ Restart
  BY <1>2 DEF Crash, Restart
<1>3. ASSUME NEW o \in Openers, Open(o) \/ Lock(o) \/ OpenStep(o) \/ Close(o)
      PROVE  exposed' \subseteq exposed
  <2>1. CASE Broken(o)
    BY <2>1 DEF Broken
  <2>2. CASE Prepare(o)
    BY <2>1, <2>2 DEF Prepare
  <2>3. CASE Connect(o)
    BY <2>1, <2>3 DEF Connect
  <2>4. CASE GetVersions(o)
    BY <2>1, <2>4 DEF GetVersions
  <2>5. CASE Migrate(o)
    BY <2>1, <2>5, Zenon DEF Migrate
  <2>6. CASE Open(o) \/ Lock(o) \/ Close(o) \/ ListPending(o) \/ Migrated(o)
             \/ Validate(o) \/ CheckCompatibility(o) \/ VerifyPolicy(o) \/ Protect(o)
    BY <2>1, <2>6 DEF Open, Lock, Close, ListPending, Migrated, Validate,
                      CheckCompatibility, VerifyPolicy, Protect
  <2> QED
    BY <1>3, <2>2, <2>3, <2>4, <2>5, <2>6 DEF OpenStep
<1> QED
  BY <1>1, <1>2, <1>3 DEF Next

\* An opener that does not move loses nothing.
LEMMA MadeByOthers ==
  ASSUME TypeInv, [Next]_vars, NEW o \in Openers, Made(o),
         place'[o] = place[o], ask'[o] = ask[o], app' = app
  PROVE  Made(o)'
<1>1. FileStep /\ exposed' \subseteq exposed
  BY EveryFileStep, ExposedShrinks
<1>2. TargetOf(o)' = TargetOf(o)
  BY DEF TargetOf
<1>3. place[o] \in {"verifying", "protecting", "open"} =>
        file'.row = [kind |-> ask[o].kind, version |-> TargetOf(o)]
  BY <1>1, TargetStays DEF Made
<1> QED
  BY <1>1, <1>2, <1>3, TableAndJournalStay DEF Made

LEMMA PassedNext == TypeInv /\ Passed /\ [Next]_vars => Passed'
<1> SUFFICES ASSUME TypeInv, Passed, [Next]_vars PROVE Passed'
  OBVIOUS
<1> USE DEF TypeInv, TypeOK
<1>1. CASE UNCHANGED vars
  BY <1>1, MadeByOthers DEF vars, Passed
<1>2. CASE Crash \/ Restart
  <2>1. \A o \in Openers : place'[o] = "idle"
    BY <1>2, NoneIsNoRow DEF Crash, Restart, AppRuns
  <2> QED
    BY <2>1 DEF Passed, Made
<1>3. ASSUME NEW o \in Openers, Open(o) \/ Lock(o) \/ OpenStep(o) \/ Close(o)
      PROVE  Passed'
  <2>1. /\ app' = app
        /\ \A p \in Openers \ {o} : place'[p] = place[p] /\ ask'[p] = ask[p]
    <3>1. CASE OpenStep(o)
      <4>1. app' = app
        BY <3>1, Zenon
           DEF OpenStep, Prepare, Connect, GetVersions, ListPending, Migrate, Migrated,
               Validate, CheckCompatibility, VerifyPolicy, Protect, Broken, Fail, Continue
      <4> QED
        BY <3>1, <4>1, StaysOrGetsOut DEF StaysIn, GetsOut
    <3> QED
      BY <1>3, <3>1 DEF Open, Lock, Close
  <2>2. \A p \in Openers \ {o} : Made(p)'
    BY <2>1, MadeByOthers DEF Passed
  <2> SUFFICES Made(o)'
    BY <2>2 DEF Passed
  <2>3. place'[o] \in {"waiting", "preparing", "connecting", "versions", "validating",
                       "comparing", "idle", "failed"} => Made(o)'
    BY DEF Made
  <2>4. ASSUME NEW why, Fail(o, why) PROVE place'[o] = "failed"
    BY <2>4 DEF Fail
  <2>5. ASSUME NEW to, Continue(o, to) PROVE place'[o] = to
    BY <2>5 DEF Continue
  <2>6. ASSUME UNCHANGED <<file, exposed, app, ask>>
        PROVE  TargetOf(o)' = TargetOf(o)
    BY <2>6 DEF TargetOf
  <2>7. Made(o)
    BY DEF Passed
  <2>8. CASE Open(o) \/ Lock(o) \/ Close(o)
    BY <2>3, <2>8 DEF Open, Lock, Close
  <2>9. CASE Broken(o)
    BY <2>3, <2>4, <2>9 DEF Broken
  <2>10. CASE Prepare(o)
    BY <2>3, <2>4, <2>5, <2>9, <2>10 DEF Prepare
  <2>11. CASE Connect(o)
    BY <2>3, <2>5, <2>9, <2>11 DEF Connect
  <2>12. CASE GetVersions(o)
    <3>1. CASE place'[o] = "failed" \/ Broken(o)
      BY <2>3, <2>9, <3>1
    <3>2. CASE place'[o] = "listing" /\ file' = [file EXCEPT !.version = Versioned]
      BY <3>2 DEF Made, Versioned, NoTable, NoVersion, Files
    <3> QED
      BY <2>4, <2>5, <2>12, <3>1, <3>2 DEF GetVersions
  <2>13. CASE ListPending(o)
    <3>1. CASE Broken(o)
      BY <2>9, <3>1
    <3>2. CASE ~Broken(o)
      BY <2>5, <2>7, <2>13, <3>2 DEF ListPending, Made
    <3> QED
      BY <3>1, <3>2
  <2>14. CASE Migrate(o)
    <3>1. CASE Broken(o) \/ Fail(o, "conflict")
      BY <2>3, <2>4, <2>9, <3>1
    <3>2. CASE UNCHANGED <<exposed, app, ask, place, holder, connected, reason>>
      BY <2>7, <3>2, MadeByOthers
    <3> QED
      BY <2>14, <3>1, <3>2, Zenon DEF Migrate
  <2>15. CASE Migrated(o)
    BY <2>3, <2>5, <2>15 DEF Migrated
  <2>16. CASE Validate(o)
    BY <2>3, <2>4, <2>5, <2>16 DEF Validate
  <2>17. CASE CheckCompatibility(o)
    <3>1. CASE Fail(o, "io") \/ Fail(o, "incompatible")
      BY <2>3, <2>4, <3>1
    <3>2. CASE Compatible(o) /\ Continue(o, "verifying") /\ UNCHANGED <<file, exposed>>
      BY <2>5, <2>6, <3>2 DEF Compatible, Continue, Made
    <3> QED
      BY <2>17, <3>1, <3>2 DEF CheckCompatibility
  <2>18. CASE VerifyPolicy(o)
    <3>1. CASE Fail(o, "io") \/ Fail(o, "policy")
      BY <2>3, <2>4, <3>1
    <3>2. CASE file.wal /\ Continue(o, "protecting") /\ UNCHANGED <<file, exposed>>
      BY <2>5, <2>6, <2>7, <2>18, <3>2 DEF VerifyPolicy, Continue, Made
    <3> QED
      BY <2>18, <3>1, <3>2 DEF VerifyPolicy
  <2>19. CASE Protect(o)
    <3>1. CASE Broken(o)
      BY <2>9, <3>1
    <3>2. CASE ~Broken(o)
      BY <2>7, <2>19, <3>2 DEF Protect, TargetOf, Made
    <3> QED
      BY <3>1, <3>2
  <2> QED
    BY <1>3, <2>8, <2>10, <2>11, <2>12, <2>13, <2>14, <2>15, <2>16, <2>17, <2>18, <2>19
       DEF OpenStep
<1> QED
  BY <1>1, <1>2, <1>3 DEF Next

-----------------------------------------------------------------------------
(***************************************************************************)
(* The theorems.                                                           *)
(***************************************************************************)

IInv == TypeInv /\ Locks /\ Passed

LEMMA InvariantHolds == Spec => []IInv
<1>1. Init => IInv
  <2> SUFFICES ASSUME Init PROVE IInv
    OBVIOUS
  <2>1. ask \in [Openers -> Asks]
    <3>1. ASSUME NEW n \in Names
          PROVE  [kind |-> "history", mode |-> "read_write", name |-> n] \in Asks
      BY DEF Asks, Kinds, Modes
    <3> QED
      BY <3>1 DEF Init
  <2>2. TypeInv
    BY <2>1, OpenAssumption, NoneIsNoRow
       DEF Init, TypeInv, TypeOK, AppRuns, Places, Reasons
  <2> QED
    BY <2>2 DEF Init, IInv, Locks, NothingLeftOpen, OneHolder, Locked, Passed, Made
<1>2. IInv /\ [Next]_vars => IInv'
  BY TypeNext, LocksNext, PassedNext DEF IInv
<1> QED
  BY <1>1, <1>2, PTL DEF Spec

\* The file, the locks and the openers keep their types.
THEOREM OpenTypeCorrect == Spec => []TypeOK
<1>1. IInv => TypeOK
  BY DEF IInv, TypeInv
<1> QED
  BY InvariantHolds, <1>1, PTL

\* No failed open leaves a lock or a connection behind.
THEOREM NothingIsLeft == Spec => []NothingLeftOpen
<1>1. IInv => NothingLeftOpen
  BY DEF IInv, Locks
<1> QED
  BY InvariantHolds, <1>1, PTL

\* A handle is of the kind and version that the application expects for as long
\* as it is open, also under names that the lock does not connect.
THEOREM HandlesAreCurrent == Spec => []HandleIsCurrent
<1>1. IInv => HandleIsCurrent
  <2> SUFFICES ASSUME IInv, NEW o \in Openers, place[o] = "open"
               PROVE  /\ app # None
                      /\ file.row = [kind |-> ask[o].kind, version |-> TargetOf(o)]
                      /\ file.version = TargetOf(o)
                      /\ file.wal /\ exposed = {}
    BY DEF HandleIsCurrent
  <2>1. /\ file.row = [kind |-> ask[o].kind, version |-> TargetOf(o)]
        /\ file.wal /\ exposed = {}
    BY DEF IInv, Passed, Made
  <2>2. TargetOf(o) \in Nat \ {0} /\ ask[o].kind \in Kinds
    BY TargetType DEF IInv, TypeInv, TypeOK, Asks
  <2>3. file.row # None
    BY <2>1, <2>2, NoneIsNoRow DEF Rows
  <2> QED
    BY <2>1, <2>3 DEF IInv, TypeInv, AppRuns, Consistent
<1> QED
  BY InvariantHolds, <1>1, PTL

\* The schema of a file keeps its kind and goes forward one whole migration at a
\* time, through failures, crashes and other versions of the application.
THEOREM FilesMoveForward == Spec => FileMovesForward
<1>1. IInv /\ [Next]_vars =>
        [ file'.version # file.version \/ file'.row # file.row =>
            \/ file.version = NoTable /\ file'.version = NoVersion /\ file'.row = file.row
            \/ /\ file'.version = file.version + 1
               /\ file'.row.version = file'.version
               /\ file.row # None => file'.row.kind = file.row.kind ]_vars
  <2> SUFFICES ASSUME IInv, [Next]_vars,
                      file'.version # file.version \/ file'.row # file.row
               PROVE  \/ file.version = NoTable /\ file'.version = NoVersion /\ file'.row = file.row
                      \/ /\ file'.version = file.version + 1
                         /\ file'.row.version = file'.version
                         /\ file.row # None => file'.row.kind = file.row.kind
    OBVIOUS
  <2> USE DEF IInv, TypeInv, TypeOK, NoTable, NoVersion
  <2>1. FileStep
    BY EveryFileStep
  <2>2. CASE file' = [file EXCEPT !.version = Versioned]
    BY <2>2 DEF Files, Versioned
  <2>3. CASE \E o \in Openers :
               /\ place[o] = "upgrading" /\ next[o] <= TargetOf(o)
               /\ Applies(ask[o].kind, next[o])
               /\ file' = Upgraded(ask[o].kind, next[o])
               /\ next' = [next EXCEPT ![o] = next[o] + 1]
    <3>1. PICK o \in Openers :
            /\ place[o] = "upgrading" /\ Applies(ask[o].kind, next[o])
            /\ file' = Upgraded(ask[o].kind, next[o])
      BY <2>3
    <3> DEFINE row == [kind |-> ask[o].kind, version |-> next[o]]
    <3>2. file' = [file EXCEPT !.version = next[o], !.row = row]
      BY <3>1 DEF Upgraded
    <3>3. row.version = next[o] /\ row.kind = ask[o].kind
      OBVIOUS
    <3> HIDE DEF row
    <3>4. file'.version = next[o] /\ file'.row = row
      BY <3>2 DEF Files
    <3>5. file.version # NoTable
      BY <3>1 DEF Passed, Made
    <3>6. next[o] \in Nat /\ file.version \in Nat
      BY <3>5, FileType
    <3>7. /\ next[o] = file.version + 1
          /\ file.row # None => ask[o].kind = file.row.kind
      <4>1. CASE next[o] = 1
        BY <3>1, <3>5, <3>6, <4>1 DEF Applies, Consistent
      <4>2. CASE next[o] # 1
        BY <3>1, <3>6, <4>2 DEF Applies, Consistent
      <4> QED
        BY <4>1, <4>2
    <3> QED
      BY <3>3, <3>4, <3>7
  <2>4. CASE \E w \in BOOLEAN : file' = [file EXCEPT !.wal = file.wal \/ w]
    <3>1. PICK w \in BOOLEAN : file' = [file EXCEPT !.wal = file.wal \/ w]
      BY <2>4
    <3> DEFINE b == file.wal \/ w
    <3>2. file' = [file EXCEPT !.wal = b]
      BY <3>1
    <3> HIDE DEF b
    <3> QED
      BY <3>2 DEF Files
  <2>5. CASE file' = file \/ file' = [file EXCEPT !.exists = TRUE]
    BY <2>5 DEF Files
  <2> QED
    BY <2>1, <2>2, <2>3, <2>4, <2>5 DEF FileStep
<1> QED
  BY InvariantHolds, <1>1, PTL DEF Spec, FileMovesForward

\* While an open is at work, only a goroutine that came by another name changes
\* the schema.
THEOREM SchemasHoldStill == Spec => SchemaHeldStill
<1>1. IInv /\ [Next]_vars =>
        [ file'.row # file.row =>
            \A o \in Openers :
              place[o] \in Locked /\ next'[o] = next[o] =>
                \E p \in Openers : ask[p].name # ask[o].name /\ next'[p] # next[p] ]_vars
  <2> SUFFICES ASSUME IInv, [Next]_vars, file'.row # file.row,
                      NEW o \in Openers, place[o] \in Locked, next'[o] = next[o]
               PROVE  \E p \in Openers : ask[p].name # ask[o].name /\ next'[p] # next[p]
    OBVIOUS
  <2> USE DEF IInv, TypeInv, TypeOK
  <2>1. \A w \in BOOLEAN : file' # [file EXCEPT !.wal = file.wal \/ w]
    <3> SUFFICES ASSUME NEW w \in BOOLEAN, file' = [file EXCEPT !.wal = file.wal \/ w]
                 PROVE  FALSE
      OBVIOUS
    <3> DEFINE b == file.wal \/ w
    <3>1. file' = [file EXCEPT !.wal = b]
      OBVIOUS
    <3> HIDE DEF b
    <3> QED
      BY <3>1 DEF Files
  <2>2. /\ file' # file /\ file' # [file EXCEPT !.exists = TRUE]
        /\ file' # [file EXCEPT !.version = Versioned]
    BY DEF Files
  <2>3. PICK p \in Openers : place[p] = "upgrading" /\ next' = [next EXCEPT ![p] = next[p] + 1]
    BY <2>1, <2>2, EveryFileStep DEF FileStep
  <2>4. next'[p] # next[p] /\ p # o
    BY <2>3
  <2>5. place[p] \in Locked
    BY <2>3 DEF Locked
  <2>6. ask[p].name = ask[o].name => p = o
    <3>1. ask[p].name \in Names /\ ask[o].name \in Names
      BY DEF Asks
    <3>2. p \in holder[ask[p].name] /\ o \in holder[ask[o].name]
      BY <2>5, <3>1 DEF Locks, NothingLeftOpen
    <3> QED
      BY <3>1, <3>2 DEF Locks, OneHolder
  <2> QED
    BY <2>4, <2>6
<1> QED
  BY InvariantHolds, <1>1, PTL DEF Spec, SchemaHeldStill
=============================================================================
