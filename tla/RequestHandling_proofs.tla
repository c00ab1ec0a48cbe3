----------------------- MODULE RequestHandling_proofs -----------------------
(*****************************************************************************)
(* What holds of app.Run whatever the interfaces, the requests and the       *)
(* outcomes are.  The first half is about RuntimeLifecycle alone: which      *)
(* stage holds what (LifecycleInv).  The second half shows that the handlers *)
(* change nothing of it, and what their answers say (AnswerInv).             *)
(*****************************************************************************)
EXTENDS RequestHandling, SequenceTheorems, TLAPS

Unbound == {"entering", "loading", "listening"}
Opening == {"opening", "building", "auditing", "watching"}
Waiting == {"stopping", "failing", "draining", "joining"}
Over == {"closing", "returned"}

\* What is open is what closers has, and nothing was closed before the end.
ClosersHold ==
  /\ database["history"] = "open" <=> closers # <<>>
  /\ database["audit"] = "open" <=> closers = <<"history", "audit">>
  /\ \A d \in Databases : database[d] = "closed" => stage \in Over
  /\ stage \in Unbound \cup {"opening", "returned"} => closers = <<>>
  /\ stage \in {"building", "auditing"} => closers = <<"history">>

\* While Run starts there is a listener and nothing else at work.
StartsAlone ==
  /\ stage \in Unbound => listener = "none"
  /\ stage \in Opening => listener = "open"
  /\ stage \in Unbound \cup Opening => serve = "none" /\ ~stopped
  /\ serve = "none" =>
       /\ stage \notin Waiting \cup {"serving"}
       /\ ~shutdown
       /\ \A w \in Workers : workers[w] = "none"
       /\ \A r \in Requests : request[r] = "none"

\* What Run has done and seen when it waits for the rest.
WaitsInOrder ==
  /\ stage \in Waiting => stopped
  /\ stage \in {"stopping", "draining", "joining"} => ctx
  /\ stage \in {"draining", "joining"} => shutdown /\ WorkersEnded
  /\ shutdown => stage \in {"draining", "joining"} \cup Over
  /\ stage = "failing" => serve = "failed" /\ "serve" \in errors
  /\ stage = "joining" /\ Active # {} => "shutdown" \in errors
  /\ serve = "closed" => shutdown
  /\ serve \in {"failed", "closed"} => listener = "closed"

\* From the first closing on nothing is at work but handlers that were warned of.
EndsAlone ==
  stage \in Over =>
    /\ listener # "open"
    /\ \A w \in Workers : workers[w] \in {"none", "done"}
    /\ serve \in {"none", "failed", "closed"}
    /\ serve # "none" => stopped
    /\ serve = "failed" => "serve" \in errors
    /\ errors = {} => ctx /\ serve = "closed"
    /\ Active # {} => {"shutdown", "serve"} \cap errors # {}

LifecycleInv ==
  /\ TypeOK
  /\ ClosersHold
  /\ StartsAlone
  /\ WaitsInOrder
  /\ EndsAlone

-----------------------------------------------------------------------------
LEMMA LifecycleInit == Init => LifecycleInv
<1> SUFFICES ASSUME Init PROVE LifecycleInv
  OBVIOUS
<1> USE DEF Init
<1>1. TypeOK
  BY DEF TypeOK, Stages, Errors, Databases, Workers
<1>2. ClosersHold
  BY DEF ClosersHold, Databases, Over, Unbound
<1>3. StartsAlone
  BY DEF StartsAlone, Unbound, Opening, Waiting
<1>4. WaitsInOrder /\ EndsAlone
  BY DEF WaitsInOrder, EndsAlone, Over, Waiting
<1> QED BY <1>1, <1>2, <1>3, <1>4 DEF LifecycleInv

\* The list of databases, when one is appended and when the last is taken off.
LEMMA Listed ==
  /\ Append(<<>>, "history") = <<"history">>
  /\ Append(<<"history">>, "audit") = <<"history", "audit">>
  /\ SubSeq(<<"history">>, 1, 0) = <<>>
  /\ SubSeq(<<"history", "audit">>, 1, 1) = <<"history">>
<1> DEFINE D == {"history", "audit"}
<1>1. /\ <<>> \in Seq(D) /\ <<"history">> \in Seq(D) /\ <<"history", "audit">> \in Seq(D)
      /\ Len(<<"history">>) = 1 /\ Len(<<"history", "audit">>) = 2
  OBVIOUS
<1>2. Append(<<>>, "history") = <<"history">>
  <2>1. Append(<<>>, "history") \in Seq(D) /\ Len(Append(<<>>, "history")) = 1
    BY <1>1, AppendProperties
  <2>2. Append(<<>>, "history")[1] = "history"
    BY <1>1, AppendProperties
  <2>3. \A i \in 1 .. 1 : Append(<<>>, "history")[i] = <<"history">>[i]
    BY <2>2
  <2> QED BY <1>1, <2>1, <2>3, SeqEqual
<1>3. Append(<<"history">>, "audit") = <<"history", "audit">>
  <2> DEFINE s == Append(<<"history">>, "audit")
  <2>1. s \in Seq(D) /\ Len(s) = 2 /\ s[1] = "history" /\ s[2] = "audit"
    BY <1>1, AppendProperties
  <2>2. \A i \in 1 .. 2 : s[i] = <<"history", "audit">>[i]
    BY <2>1
  <2> HIDE DEF s
  <2> QED BY <1>1, <2>1, <2>2, SeqEqual DEF s
<1>4. SubSeq(<<"history">>, 1, 0) = <<>>
  OBVIOUS
<1>5. SubSeq(<<"history", "audit">>, 1, 1) = <<"history">>
  <2> DEFINE s == SubSeq(<<"history", "audit">>, 1, 1)
  <2>1. \A i \in 1 .. 1 : <<"history", "audit">>[i] \in D
    OBVIOUS
  <2>2. /\ s \in Seq(D) /\ Len(s) = 1
        /\ \A i \in 1 .. 1 : s[i] = <<"history", "audit">>[1 + i - 1]
    BY <2>1, SubSeqProperties
  <2>3. \A i \in 1 .. 1 : s[i] = <<"history">>[i]
    BY <2>2
  <2> HIDE DEF s
  <2> QED BY <1>1, <2>2, <2>3, SeqEqual DEF s
<1> QED BY <1>2, <1>3, <1>4, <1>5

\* A step of Run's startup: each holds a part of LifecycleInv.
Startup == Enter \/ LoadSettings \/ Listen \/ OpenHistory \/ Build \/ OpenAudit \/ Start

LEMMA StartupKeeps ==
  ASSUME LifecycleInv, Startup
  PROVE  LifecycleInv'
<1> USE DEF LifecycleInv
<1>1. /\ serve = "none" /\ ~stopped /\ ~shutdown /\ Active = {}
      /\ \A w \in Workers : workers[w] = "none"
      /\ \A r \in Requests : request[r] = "none"
      /\ UNCHANGED <<shutdown, request>> /\ Active' = {}
  <2>1. stage \in Unbound \cup Opening
    BY DEF Startup, Enter, LoadSettings, Listen, OpenHistory, Build, OpenAudit, Start,
           Unbound, Opening
  <2>2. UNCHANGED <<shutdown, request>>
    BY DEF Startup, Enter, LoadSettings, Listen, OpenHistory, Build, OpenAudit, Start,
           Proceed, Refuse, Abort, Open, acquired, started
  <2> QED BY <2>1, <2>2 DEF StartsAlone, Active
<1>2. CASE Enter \/ LoadSettings
  <2>1. /\ \/ stage = "entering" /\ stage' \in {"loading", "returned"}
           \/ stage = "loading" /\ stage' \in {"listening", "returned"}
        /\ IF stage' = "returned" THEN errors' \in {errors \cup {"options"}, errors \cup {"settings"}}
                                  ELSE errors' = errors
        /\ UNCHANGED <<ctx, listener, bound, database, closers, started>>
    <3>1. CASE Enter
      BY <3>1 DEF Enter, Proceed, Refuse, acquired
    <3>2. CASE LoadSettings
      BY <3>2 DEF LoadSettings, Proceed, Refuse, acquired
    <3> QED BY <1>2, <3>1, <3>2
  <2>2. TypeOK'
    <3>1. /\ {"loading", "listening", "returned"} \subseteq Stages
          /\ {"options", "settings"} \subseteq Errors
      BY DEF Stages, Errors
    <3> QED BY <2>1, <3>1 DEF TypeOK, started
  <2>3. ClosersHold' /\ StartsAlone'
    BY <2>1 DEF ClosersHold, StartsAlone, Unbound, Opening, Waiting, Over, started
  <2>4. WaitsInOrder' /\ EndsAlone'
    BY <1>1, <2>1 DEF StartsAlone, WaitsInOrder, EndsAlone, Unbound, Waiting, Over, started
  <2> QED BY <2>2, <2>3, <2>4
<1>3. CASE Listen
  <2> USE <1>3
  <2>1. /\ stage = "listening" /\ stage' \in {"opening", "returned"}
        /\ listener' \in {"none", "open", "closed"} /\ bound' \subseteq Addresses
        /\ stage' = "opening" => listener' = "open"
        /\ stage' = "returned" => listener' # "open" /\ errors' = errors \cup {"listen"}
        /\ stage' = "opening" => errors' = errors
        /\ UNCHANGED <<ctx, database, closers, started>>
    BY DEF Listen, Refuse, acquired, StartsAlone, TypeOK, Unbound
  <2>2. TypeOK'
    <3>1. "listen" \in Errors /\ {"opening", "returned"} \subseteq Stages
      BY DEF Errors, Stages
    <3> QED BY <2>1, <3>1 DEF TypeOK, started
  <2>3. ClosersHold' /\ StartsAlone'
    BY <2>1 DEF ClosersHold, StartsAlone, Unbound, Opening, Waiting, Over, started
  <2>4. WaitsInOrder' /\ EndsAlone'
    BY <1>1, <2>1 DEF StartsAlone, WaitsInOrder, EndsAlone, Unbound, Waiting, Over, started
  <2> QED BY <2>2, <2>3, <2>4
<1>4. CASE (Build /\ stage' = "auditing") \/ (OpenAudit /\ closers' = closers)
  <2>1. /\ \/ stage = "building" /\ stage' = "auditing"
           \/ stage = "auditing" /\ stage' = "watching"
        /\ UNCHANGED <<ctx, errors, acquired, started>>
    <3>1. CASE Build /\ stage' = "auditing"
      BY <3>1 DEF Build, Proceed, Abort
    <3>2. CASE OpenAudit /\ closers' = closers
      <4>1. stage = "auditing" => Append(closers, "audit") # closers
        <5>1. <<"history", "audit">> # <<"history">>
          OBVIOUS
        <5> QED BY <5>1, Listed DEF ClosersHold
      <4> QED BY <3>2, <4>1 DEF OpenAudit, Open, Proceed
    <3> QED BY <1>4, <3>1, <3>2
  <2> USE <2>1 DEF acquired, started
  <2>2. TypeOK'
    BY DEF TypeOK, Stages
  <2>3. ClosersHold' /\ StartsAlone'
    BY DEF ClosersHold, StartsAlone, Unbound, Opening, Waiting, Over
  <2>4. WaitsInOrder' /\ EndsAlone'
    BY <1>1 DEF StartsAlone, WaitsInOrder, EndsAlone, Opening, Waiting, Over
  <2> QED BY <2>2, <2>3, <2>4
<1>5. CASE (OpenHistory /\ stage' = "building") \/ (OpenAudit /\ closers' # closers)
  <2>1. /\ \/ /\ stage = "opening" /\ stage' = "building" /\ closers' = <<"history">>
              /\ database' = [database EXCEPT !["history"] = "open"]
           \/ /\ stage = "auditing" /\ stage' = "watching"
              /\ closers' = <<"history", "audit">>
              /\ database' = [database EXCEPT !["audit"] = "open"]
        /\ UNCHANGED <<ctx, errors, listener, bound, started>>
    <3>1. CASE OpenHistory /\ stage' = "building"
      BY <3>1, Listed DEF OpenHistory, Open, Abort, ClosersHold
    <3>2. CASE OpenAudit /\ closers' # closers
      BY <3>2, Listed DEF OpenAudit, Open, Proceed, acquired, ClosersHold
    <3> QED BY <1>5, <3>1, <3>2
  <2> USE DEF started
  <2>2. TypeOK'
    BY <2>1 DEF TypeOK, Stages, Databases
  <2>3. ClosersHold'
    BY <2>1 DEF ClosersHold, TypeOK, Databases, Unbound, Over
  <2>4. StartsAlone' /\ WaitsInOrder' /\ EndsAlone'
    BY <1>1, <2>1 DEF StartsAlone, WaitsInOrder, EndsAlone, Unbound, Opening, Waiting, Over
  <2> QED BY <2>2, <2>3, <2>4
<1>6. CASE (OpenHistory \/ Build \/ Start) /\ stage' = "closing"
  <2>1. /\ stage \in Opening /\ stage' = "closing" /\ stopped' \in BOOLEAN
        /\ listener' = "closed"
        /\ \E e \in {"history", "build", "watch"} : errors' = errors \cup {e}
        /\ UNCHANGED <<ctx, bound, database, closers, workers, serve, shutdown, request>>
    BY <1>6 DEF OpenHistory, Build, Start, Proceed, Abort, Open, Opening, TypeOK
  <2>2. TypeOK'
    BY <2>1 DEF TypeOK, Stages, Errors
  <2>3. ClosersHold'
    BY <2>1 DEF ClosersHold, Unbound, Opening, Over
  <2>4. StartsAlone' /\ WaitsInOrder' /\ EndsAlone'
    BY <1>1, <2>1 DEF StartsAlone, WaitsInOrder, EndsAlone, Unbound, Opening, Waiting, Over
  <2> QED BY <2>2, <2>3, <2>4
<1>7. CASE Start /\ stage' = "serving"
  <2> USE <1>7 DEF Start, Abort, acquired
  <2>1. TypeOK'
    BY DEF TypeOK, Stages
  <2>2. ClosersHold' /\ StartsAlone'
    BY DEF ClosersHold, StartsAlone, Unbound, Opening, Waiting, Over
  <2>3. WaitsInOrder' /\ EndsAlone'
    BY <1>1 DEF StartsAlone, WaitsInOrder, EndsAlone, Opening, Waiting, Over
  <2> QED BY <2>1, <2>2, <2>3
<1> QED
  <2>1. OpenHistory => stage' \in {"building", "closing"}
    BY DEF OpenHistory, Abort
  <2>2. Build => stage' \in {"auditing", "closing"}
    BY DEF Build, Proceed, Abort
  <2>3. Start => stage' \in {"serving", "closing"}
    BY DEF Start, Abort
  <2>4. CASE OpenHistory
    BY <1>5, <1>6, <2>1, <2>4
  <2>5. CASE Build
    BY <1>4, <1>6, <2>2, <2>5
  <2>6. CASE OpenAudit
    BY <1>4, <1>5, <2>6
  <2>7. CASE Start
    BY <1>6, <1>7, <2>3, <2>7
  <2> QED BY <1>2, <1>3, <2>4, <2>5, <2>6, <2>7 DEF Startup

LEMMA GoroutinesKeep ==
  ASSUME LifecycleInv, NEW w \in Workers,
         \/ WorkerBegins(w) \/ WorkerWorks(w) \/ WorkerRests(w) \/ WorkerEnds(w)
         \/ ServeBegins \/ ServeReturns
  PROVE  LifecycleInv'
<1> USE DEF LifecycleInv
<1> USE DEF WorkerBegins, WorkerWorks, WorkerRests, WorkerEnds, ServeBegins, ServeReturns
<1>1. TypeOK'
  BY DEF TypeOK, acquired
<1>2. ClosersHold'
  BY DEF ClosersHold, acquired
<1>3. StartsAlone'
  BY DEF StartsAlone, TypeOK, acquired, Unbound, Opening, Waiting
<1>4. WaitsInOrder'
  BY DEF StartsAlone, WaitsInOrder, TypeOK, acquired, WorkersEnded, Active, Waiting, Over
<1>5. EndsAlone'
  BY DEF EndsAlone, TypeOK, acquired, Active
<1> QED BY <1>1, <1>2, <1>3, <1>4, <1>5

LEMMA RequestsKeep ==
  ASSUME LifecycleInv, NEW r \in Requests,
         Accept(r) \/ Query(r) \/ QueryEnds(r) \/ Answer(r)
  PROVE  LifecycleInv'
<1> USE DEF LifecycleInv, SetRequest
<1>1. TypeOK'
  BY DEF TypeOK, Accept, Query, QueryEnds, Answer, acquired
<1>2. ClosersHold'
  BY DEF ClosersHold, Accept, Query, QueryEnds, Answer, acquired
<1>3. StartsAlone'
  BY DEF StartsAlone, Accept, Query, QueryEnds, Answer, acquired, TypeOK, Active
<1>4. Active' # {} /\ stage \in {"joining"} \cup Over => Active # {}
  BY DEF Accept, Query, QueryEnds, Answer, Active, TypeOK, WaitsInOrder, EndsAlone, Over
<1>5. WaitsInOrder'
  BY <1>4 DEF WaitsInOrder, Accept, Query, QueryEnds, Answer, acquired, WorkersEnded, Waiting, Over
<1>6. EndsAlone'
  BY <1>4 DEF EndsAlone, Accept, Query, QueryEnds, Answer, acquired
<1> QED BY <1>1, <1>2, <1>3, <1>5, <1>6

Ending ==
  \/ StopServices \/ WaitAfterFailure \/ BeginShutdown \/ Drained
  \/ ShutdownTimesOut \/ JoinServe \/ Return \/ Cancel

LEMMA EndingKeeps ==
  ASSUME LifecycleInv, Ending
  PROVE  LifecycleInv'
<1> USE DEF LifecycleInv, Ending, StopServices, WaitAfterFailure, BeginShutdown, Drained,
        ShutdownTimesOut, JoinServe, Return, Cancel, Proceed, acquired, started
<1>1. TypeOK'
  <2>1. errors' \subseteq errors \cup {"serve", "shutdown"}
    OBVIOUS
  <2>2. stage' \in Stages /\ errors' \subseteq Errors
    BY <2>1 DEF TypeOK, Stages, Errors
  <2>3. /\ listener' \in {"none", "open", "closed"}
        /\ ctx' \in BOOLEAN /\ stopped' \in BOOLEAN /\ shutdown' \in BOOLEAN
    BY DEF TypeOK
  <2>4. UNCHANGED <<bound, database, closers, workers, serve, request>>
    OBVIOUS
  <2> QED BY <2>2, <2>3, <2>4 DEF TypeOK
<1>2. ClosersHold'
  BY DEF ClosersHold, Unbound, Over
<1>3. StartsAlone'
  BY DEF StartsAlone, Unbound, Opening, Waiting
<1>4. WaitsInOrder'
  BY DEF StartsAlone, WaitsInOrder, EndsAlone, WorkersEnded, Active, Waiting, Over
<1>5. EndsAlone'
  BY DEF StartsAlone, WaitsInOrder, EndsAlone, WorkersEnded, Active, Waiting, Over
<1> QED BY <1>1, <1>2, <1>3, <1>4, <1>5

\* Of the databases that are open the last that was opened is closed.
LEMMA ClosesLast ==
  ASSUME TypeOK, Close
  PROVE  \/ /\ closers = <<"history">> /\ closers' = <<>>
            /\ database' = [database EXCEPT !["history"] = "closed"]
         \/ /\ closers = <<"history", "audit">> /\ closers' = <<"history">>
            /\ database' = [database EXCEPT !["audit"] = "closed"]
<1>1. closers = <<"history">> \/ closers = <<"history", "audit">>
  BY DEF TypeOK, Close
<1>2. CASE closers = <<"history">>
  <2>1. NextCloser = "history" /\ SubSeq(closers, 1, Len(closers) - 1) = <<>>
    BY <1>2 DEF NextCloser
  <2> QED BY <1>2, <2>1 DEF Close
<1>3. CASE closers = <<"history", "audit">>
  <2>1. NextCloser = "audit" /\ Len(closers) = 2
    BY <1>3 DEF NextCloser
  <2>2. SubSeq(closers, 1, 1) = <<"history">>
    BY <1>3, Listed
  <2> QED BY <1>3, <2>1, <2>2 DEF Close
<1> QED BY <1>1, <1>2, <1>3

LEMMA CloseKeeps ==
  ASSUME LifecycleInv, Close
  PROVE  LifecycleInv'
<1> USE DEF LifecycleInv
<1>1. \/ /\ closers = <<"history">> /\ closers' = <<>>
         /\ database' = [database EXCEPT !["history"] = "closed"]
      \/ /\ closers = <<"history", "audit">> /\ closers' = <<"history">>
         /\ database' = [database EXCEPT !["audit"] = "closed"]
  BY ClosesLast
<1>2. TypeOK'
  BY <1>1 DEF TypeOK, Close, Stages, Errors, Databases, started
<1>3. ClosersHold'
  <2>1. stage' = "closing" /\ database \in [Databases -> {"none", "open", "closed"}]
    BY DEF Close, TypeOK
  <2>2. <<"history">> # <<>> /\ <<"history">> # <<"history", "audit">>
    OBVIOUS
  <2> QED BY <1>1, <2>1, <2>2 DEF ClosersHold, Databases, Over, Unbound
<1>4. StartsAlone' /\ WaitsInOrder'
  BY DEF StartsAlone, WaitsInOrder, Close, started, WorkersEnded, Active, Waiting, Over,
         Unbound, Opening
<1>5. EndsAlone'
  BY DEF EndsAlone, Close, started, Active
<1> QED BY <1>2, <1>3, <1>4, <1>5

LEMMA LifecycleStep == LifecycleInv /\ [Next]_vars => LifecycleInv'
<1> SUFFICES ASSUME LifecycleInv, [Next]_vars PROVE LifecycleInv'
  OBVIOUS
<1>1. CASE Startup
  BY <1>1, StartupKeeps
<1>2. CASE Ending
  BY <1>2, EndingKeeps
<1>3. CASE Close
  BY <1>3, CloseKeeps
<1>4. CASE \/ ServeBegins \/ ServeReturns
          \/ \E w \in Workers :
               WorkerBegins(w) \/ WorkerWorks(w) \/ WorkerRests(w) \/ WorkerEnds(w)
  <2>1. "scheduler" \in Workers
    BY DEF Workers
  <2> QED BY <1>4, <2>1, GoroutinesKeep
<1>5. CASE \E r \in Requests : Accept(r) \/ Query(r) \/ QueryEnds(r) \/ Answer(r)
  BY <1>5, RequestsKeep
<1>6. CASE UNCHANGED vars
  BY <1>6 DEF vars, LifecycleInv, TypeOK, ClosersHold, StartsAlone, WaitsInOrder, EndsAlone,
              WorkersEnded, Active
<1> QED
  BY <1>1, <1>2, <1>3, <1>4, <1>5, <1>6
  DEF Next, ServiceStep, RunStep, Startup, Ending, Exited

LEMMA LifecycleHolds == Spec => []LifecycleInv
<1> QED BY LifecycleInit, LifecycleStep, PTL DEF Spec

\* The stages, flags and lists of app.Run keep their types.
THEOREM LifecycleTypeCorrect == Spec => []TypeOK
<1>1. LifecycleInv => TypeOK
  BY DEF LifecycleInv
<1> QED BY <1>1, LifecycleHolds, PTL

\* Whichever way app.Run returns, it has released the listener, the databases,
\* the watcher and the workers.
THEOREM NothingIsHeld == Spec => []NothingHeld
<1>1. LifecycleInv => NothingHeld
  <2> SUFFICES ASSUME LifecycleInv, stage = "returned"
               PROVE  /\ listener # "open"
                      /\ \A d \in Databases : database[d] # "open"
                      /\ \A w \in Workers : workers[w] \in {"none", "done"}
                      /\ serve # "none" => stopped /\ serve \in {"failed", "closed"}
    BY DEF NothingHeld
  <2>1. \A d \in Databases : database[d] # "open"
    BY DEF LifecycleInv, ClosersHold, Databases
  <2> QED BY <2>1 DEF LifecycleInv, EndsAlone, Over
<1> QED BY <1>1, LifecycleHolds, PTL

\* A request outlives a database only if Run reports why.
THEOREM RequestsAreDrained == Spec => []RequestsDrained
<1>1. LifecycleInv => RequestsDrained
  BY DEF LifecycleInv, RequestsDrained, ClosersHold, EndsAlone
<1> QED BY <1>1, LifecycleHolds, PTL

\* app.Run returns without an error only when it was told to stop and its
\* server had served until then.
THEOREM FailuresAreReported == Spec => []FailureReported
<1>1. LifecycleInv => FailureReported
  BY DEF LifecycleInv, FailureReported, EndsAlone, Over
<1> QED BY <1>1, LifecycleHolds, PTL

\* No database is closed twice, under a worker or an open listener, or history
\* before audit.
THEOREM ReleaseIsOrdered == Spec => ReleaseOrder
<1> DEFINE Ordered(d) ==
      database'[d] # database[d] =>
        \/ database[d] = "none" /\ database'[d] = "open"
        \/ /\ database[d] = "open" /\ database'[d] = "closed"
           /\ listener # "open" /\ workers' = workers
           /\ \A w \in Workers : workers[w] \in {"none", "done"}
           /\ d = "history" => database["audit"] # "open"
<1>1. LifecycleInv /\ [Next]_vars => [\A d \in Databases : Ordered(d)]_vars
  <2> SUFFICES ASSUME LifecycleInv, Next, NEW d \in Databases, database'[d] # database[d]
               PROVE  Ordered(d)
    BY DEF vars
  <2>1. \/ OpenHistory \/ OpenAudit \/ Close
    BY DEF Next, ServiceStep, RunStep, Enter, LoadSettings, Listen, Build, Start,
           StopServices, WaitAfterFailure, BeginShutdown, Drained, ShutdownTimesOut,
           JoinServe, Return, Proceed, Refuse, Abort, acquired, started,
           WorkerBegins, WorkerWorks, WorkerRests, WorkerEnds, ServeBegins, ServeReturns,
           Cancel, Accept, Query, QueryEnds, Answer, SetRequest, Exited, vars
  <2>2. CASE OpenHistory \/ OpenAudit
    BY <2>2 DEF OpenHistory, OpenAudit, Open, Proceed, Abort, acquired,
                LifecycleInv, TypeOK, ClosersHold, Databases, Over
  <2>3. CASE Close
    <3>1. /\ listener # "open" /\ workers' = workers
          /\ \A w \in Workers : workers[w] \in {"none", "done"}
      BY <2>3 DEF Close, started, LifecycleInv, EndsAlone, Over
    <3>2. database \in [Databases -> {"none", "open", "closed"}]
      BY DEF LifecycleInv, TypeOK
    <3>3. \/ /\ closers = <<"history">>
             /\ database' = [database EXCEPT !["history"] = "closed"]
          \/ /\ closers = <<"history", "audit">>
             /\ database' = [database EXCEPT !["audit"] = "closed"]
      BY <2>3, ClosesLast DEF LifecycleInv
    <3>4. <<"history">> # <<>> /\ <<"history">> # <<"history", "audit">>
      OBVIOUS
    <3>5. /\ database[d] = "open" /\ database'[d] = "closed"
          /\ d = "history" => database["audit"] # "open"
      BY <3>2, <3>3, <3>4 DEF LifecycleInv, ClosersHold, Databases
    <3> QED BY <3>1, <3>5
  <2> QED BY <2>1, <2>2, <2>3
<1> QED BY <1>1, LifecycleHolds, PTL DEF Spec, ReleaseOrder

-----------------------------------------------------------------------------
(***************************************************************************)
(* The handlers.                                                           *)
(***************************************************************************)

\* The handlers take no step that app.Run does not have, so that all of the
\* above holds while requests are answered.
THEOREM HandlersKeepLifecycle == ApiSpec => Spec
<1>1. ApiInit => Init
  BY DEF ApiInit
<1>2. [ApiNext]_apiVars => [Next]_vars
  <2> SUFFICES ASSUME ApiNext PROVE Next \/ UNCHANGED vars
    BY DEF apiVars
  <2>1. ASSUME NEW r \in Requests, Arrive(r) \/ ClientLeaves(r) \/ HandlerStep(r)
        PROVE  Next \/ UNCHANGED vars
    BY <2>1 DEF Arrive, ClientLeaves, HandlerStep, ReadConfiguration, ReadLastRun,
                ReadLastSuccess, ReadMaintenance, Read, AskHistory, HistoryAnswers, Respond,
                Finish, Panic, Next
  <2>2. CASE ReloadSettings \/ TurnMaintenance \/ HistoryBreaks \/ \E o \in Outcomes : StoreRun(o)
    BY <2>2 DEF ReloadSettings, TurnMaintenance, HistoryBreaks, StoreRun
  <2> QED BY <2>1, <2>2 DEF ApiNext, Exited, Next
<1> QED BY <1>1, <1>2, PTL DEF ApiSpec, Spec

LEMMA LifecycleOfHandlers == ApiSpec => []LifecycleInv
<1> QED BY HandlersKeepLifecycle, LifecycleHolds, PTL

\* A handler of readiness or status that has read what is named, and all before.
Answering(r) == place[r] \in {"answering", "writing"} /\ route[r] \in {"ready", "status"}
HasConfiguration(r) == place[r] \in {"last", "success", "maintenance"} \/ Answering(r)
HasLast(r) == place[r] \in {"success", "maintenance"} \/ Answering(r)
HasSuccess(r) == place[r] = "maintenance" \/ Answering(r)

\* The last success is the last run if that succeeded, and never of the future.
EvidenceInv ==
  /\ lastRun # None /\ lastRun.status = "succeeded" => lastSuccess = lastRun
  /\ lastSuccess # None => lastSuccess.id <= RunNumber

\* A handler's notes of when it came and of what maintenance was.
Follows(r) ==
  /\ InHandler(r) => maintenance \in seen[r] /\ came[r].run <= RunNumber
  /\ place[r] \in {"series", "querying"} => route[r] = "series"

\* What was read is of a moment after the request came, and what is still to be
\* read is not older.
ReadInOrder(r) ==
  LET v == view[r]
  IN /\ HasConfiguration(r) => v.configuration \in {"valid", "using_previous"}
     /\ HasLast(r) =>
          /\ came[r].run > 0 => v.last # None /\ v.last.id >= came[r].run
          /\ v.last # None /\ v.last.status = "succeeded" =>
               lastSuccess # None /\ lastSuccess.id >= v.last.id
     /\ HasSuccess(r) /\ v.last # None /\ v.last.status = "succeeded" =>
          v.success # None /\ v.success.id >= v.last.id
     /\ Answering(r) => v.maintenance \in seen[r]

\* What was sent follows from what was read.
SentWhatItRead(r) ==
  place[r] = "writing" =>
    /\ sent[r] # 0
    /\ route[r] \in {"ready", "status"} => sent[r] \in {200, 503}
    /\ route[r] = "ready" => (sent[r] = 200 <=> view[r].maintenance = FALSE)

LoggedWhatItSent(r) ==
  place[r] = "done" =>
    /\ sent[r] # 0
    /\ logged[r].code = "panic" => logged[r].status = 500
    /\ logged[r].code # "panic" => logged[r].status = sent[r]

HandlerInv(r) == Follows(r) /\ ReadInOrder(r) /\ SentWhatItRead(r) /\ LoggedWhatItSent(r)

AnswerInv ==
  /\ ApiTypeOK
  /\ EvidenceInv
  /\ \A r \in Requests : HandlerInv(r)

-----------------------------------------------------------------------------
\* The state that snapshot derives is the one that its contract derives again.
LEMMA SnapshotAccepted ==
  ASSUME NEW r \in Requests, view[r] \in Views,
         view[r].configuration \in {"valid", "using_previous"},
         view[r].maintenance \in BOOLEAN
  PROVE  /\ ValidateOperationalStatus(Snapshot(r))
         /\ Ready(Snapshot(r)) <=> view[r].maintenance = FALSE
<1> DEFINE v == view[r]
           t == [state |-> None,
                 maintenance |-> v.maintenance,
                 configuration |-> ConfigurationState(v),
                 history |-> DatabaseState(HistoryAvailable),
                 audit |-> DatabaseState(AuditAvailable),
                 collection |-> CollectionState(v),
                 last |-> v.last, success |-> v.success,
                 backup |-> "not_implemented",
                 docker |-> DockerConnectivity(v)]
           s == Snapshot(r)
<1>1. s = [t EXCEPT !.state = StateOf(t)]
  BY DEF Snapshot
<1>2. /\ t.maintenance = v.maintenance /\ t.configuration = ConfigurationState(v)
      /\ t.history = "available" /\ t.audit = DatabaseState(AuditAvailable)
      /\ t.collection = CollectionState(v) /\ t.backup = "not_implemented"
      /\ t.docker = DockerConnectivity(v) /\ t.last = v.last /\ t.success = v.success
  BY DEF DatabaseState, HistoryAvailable
<1>3. /\ s.maintenance = t.maintenance /\ s.configuration = t.configuration
      /\ s.history = t.history /\ s.audit = t.audit /\ s.collection = t.collection
      /\ s.backup = t.backup /\ s.docker = t.docker /\ s.last = t.last
      /\ s.success = t.success /\ s.state = StateOf(t)
  <2> HIDE DEF s
  <2>1. ASSUME NEW x PROVE [t EXCEPT !.state = x].state = x
    OBVIOUS
  <2>2. ASSUME NEW x
        PROVE  LET u == [t EXCEPT !.state = x]
               IN /\ u.maintenance = t.maintenance /\ u.configuration = t.configuration
                  /\ u.history = t.history /\ u.audit = t.audit
                  /\ u.collection = t.collection /\ u.backup = t.backup
                  /\ u.docker = t.docker /\ u.last = t.last /\ u.success = t.success
    OBVIOUS
  <2> HIDE DEF t
  <2> QED BY <1>1, <2>1, <2>2
<1> HIDE DEF s, t
<1>4. /\ s.maintenance \in BOOLEAN /\ s.configuration \in {"valid", "using_previous"}
      /\ s.history = "available" /\ s.audit \in {"available", "unavailable"}
      /\ s.collection \in {"available", "unavailable"} /\ s.backup = "not_implemented"
      /\ s.docker \in {"available", "unavailable", "not_checked"}
      /\ s.last \in Runs \cup {None}
  BY <1>2, <1>3 DEF Views, ConfigurationState, DatabaseState, CollectionState,
                    DockerConnectivity
<1>5. StateOf(t) = StateOf(s)
  BY <1>3 DEF StateOf
<1>6. s.state = ExpectedState(s)
  BY <1>3, <1>4, <1>5 DEF StateOf, ExpectedState
<1>7. CollectionValid(s)
  BY <1>4 DEF CollectionValid, Runs, Statuses
<1> QED
  BY <1>2, <1>3, <1>4, <1>6, <1>7 DEF ValidateOperationalStatus, Ready, s

\* A handler that does nothing, while nothing that it reads changes, keeps its
\* part of AnswerInv.
LEMMA Undisturbed ==
  ASSUME NEW q \in Requests, HandlerInv(q),
         UNCHANGED <<maintenance, lastRun, lastSuccess>>,
         UNCHANGED <<route[q], place[q], view[q], sent[q], logged[q], seen[q], came[q]>>
  PROVE  HandlerInv(q)'
<1> USE DEF HandlerInv
<1>1. Follows(q)'
  BY DEF Follows, InHandler, RunNumber
<1>2. ReadInOrder(q)'
  BY DEF ReadInOrder, HasConfiguration, HasLast, HasSuccess, Answering
<1>3. SentWhatItRead(q)' /\ LoggedWhatItSent(q)'
  BY DEF SentWhatItRead, LoggedWhatItSent
<1> QED BY <1>1, <1>2, <1>3

\* A handler's step is about its own part only.
LEMMA OneHandler ==
  ASSUME AnswerInv, NEW r \in Requests, ApiTypeOK', HandlerInv(r)',
         UNCHANGED <<maintenance, lastRun, lastSuccess>>,
         \A q \in Requests \ {r} :
           UNCHANGED <<route[q], place[q], view[q], sent[q], logged[q], seen[q], came[q]>>
  PROVE  AnswerInv'
<1>1. EvidenceInv'
  BY DEF AnswerInv, EvidenceInv, RunNumber
<1>2. ASSUME NEW q \in Requests \ {r} PROVE HandlerInv(q)'
  BY <1>2, Undisturbed DEF AnswerInv
<1> QED BY <1>1, <1>2 DEF AnswerInv

LEMMA Limits == MaxRuns \in Nat /\ MaxTurns \in Nat /\ None \notin Runs
BY OutcomesAssumption

LEMMA AnswerInit ==
  ASSUME ApiInit, LifecycleInv
  PROVE  AnswerInv
<1>1. ApiTypeOK
  <2>1. NothingRead \in Views
    BY DEF NothingRead, Views
  <2>2. TypeOK
    BY DEF LifecycleInv
  <2>3. 0 \in 0 .. MaxTurns /\ 0 \in 0 .. MaxRuns
    BY Limits
  <2>4. came \in [Requests -> [run : 0 .. MaxRuns, usable : BOOLEAN]]
    BY <2>3 DEF ApiInit
  <2> QED BY <2>1, <2>2, <2>3, <2>4 DEF ApiInit, ApiTypeOK, Routes
<1>2. EvidenceInv
  BY DEF ApiInit, EvidenceInv
<1>3. ASSUME NEW r \in Requests PROVE HandlerInv(r)
  BY DEF ApiInit, HandlerInv, Follows, InHandler, ReadInOrder, HasConfiguration, HasLast,
         HasSuccess, Answering, SentWhatItRead, LoggedWhatItSent
<1> QED BY <1>1, <1>2, <1>3 DEF AnswerInv

\* What happens around the handlers.
LEMMA WorldKeeps ==
  ASSUME AnswerInv, LifecycleInv',
         \/ ReloadSettings \/ TurnMaintenance \/ HistoryBreaks
         \/ UNCHANGED <<world, handlers>>
  PROVE  AnswerInv'
<1>0. TypeOK' /\ ApiTypeOK
  BY DEF LifecycleInv, AnswerInv
<1>1. CASE ReloadSettings \/ HistoryBreaks \/ UNCHANGED <<world, handlers>>
  <2>1. /\ UNCHANGED <<handlers, maintenance, lastRun, lastSuccess>>
        /\ configuration' \in {"valid", "using_previous"}
        /\ turns' \in 0 .. MaxTurns /\ usable' \in BOOLEAN
    <3>1. turns \in 0 .. MaxTurns /\ configuration \in {"valid", "using_previous"}
          /\ usable \in BOOLEAN
      BY <1>0 DEF ApiTypeOK
    <3>2. CASE ReloadSettings
      BY <3>1, <3>2, Limits DEF ReloadSettings
    <3>3. CASE HistoryBreaks
      <4>1. /\ UNCHANGED <<handlers, maintenance, lastRun, lastSuccess, configuration>>
            /\ usable' = FALSE /\ turns < MaxTurns /\ turns' = turns + 1
        BY <3>3 DEF HistoryBreaks
      <4>2. turns' \in 0 .. MaxTurns
        BY <3>1, <4>1, Limits
      <4> QED BY <3>1, <4>1, <4>2
    <3>4. CASE UNCHANGED <<world, handlers>>
      BY <3>1, <3>4 DEF world
    <3> QED BY <1>1, <3>2, <3>3, <3>4
  <2>2. ApiTypeOK'
    BY <1>0, <2>1 DEF ApiTypeOK, handlers
  <2>3. EvidenceInv'
    BY <2>1 DEF AnswerInv, EvidenceInv, RunNumber
  <2>4. ASSUME NEW q \in Requests PROVE HandlerInv(q)'
    <3>1. UNCHANGED <<route[q], place[q], view[q], sent[q], logged[q], seen[q], came[q]>>
      BY <2>1 DEF handlers
    <3> QED BY <2>1, <3>1, Undisturbed DEF AnswerInv
  <2> QED BY <2>2, <2>3, <2>4 DEF AnswerInv
<1>2. CASE TurnMaintenance
  <2>1. ApiTypeOK'
    <3>1. turns' \in 0 .. MaxTurns /\ maintenance' \in BOOLEAN
      BY <1>0, <1>2, Limits DEF ApiTypeOK, TurnMaintenance
    <3>2. seen' \in [Requests -> SUBSET BOOLEAN]
      BY <1>0, <1>2, <3>1 DEF ApiTypeOK, TurnMaintenance
    <3>3. UNCHANGED <<configuration, lastRun, lastSuccess, usable, route, place, view, sent,
                      logged, left, came>>
      BY <1>2 DEF TurnMaintenance
    <3> QED BY <1>0, <3>1, <3>2, <3>3 DEF ApiTypeOK
  <2>2. EvidenceInv'
    BY <1>2 DEF AnswerInv, EvidenceInv, RunNumber, TurnMaintenance
  <2>3. ASSUME NEW q \in Requests PROVE HandlerInv(q)'
    <3>1. /\ UNCHANGED <<route, place, view, sent, logged, came, lastRun, lastSuccess>>
          /\ seen[q] \subseteq seen'[q]
          /\ InHandler(q) => maintenance' \in seen'[q]
      BY <1>0, <1>2 DEF TurnMaintenance, ApiTypeOK
    <3>2. HandlerInv(q)
      BY DEF AnswerInv
    <3>3. Follows(q)'
      BY <3>1, <3>2 DEF HandlerInv, Follows, InHandler, RunNumber
    <3>4. ReadInOrder(q)'
      BY <3>1, <3>2
      DEF HandlerInv, ReadInOrder, HasConfiguration, HasLast, HasSuccess, Answering
    <3>5. SentWhatItRead(q)' /\ LoggedWhatItSent(q)'
      BY <3>1, <3>2 DEF HandlerInv, SentWhatItRead, LoggedWhatItSent
    <3> QED BY <3>3, <3>4, <3>5 DEF HandlerInv
  <2> QED BY <2>1, <2>2, <2>3 DEF AnswerInv
<1> QED BY <1>1, <1>2

\* A run is shown: later than what was shown before, and if it succeeded it is
\* the last success as well.
LEMMA StoreRunKeeps ==
  ASSUME AnswerInv, LifecycleInv', NEW o \in Outcomes, StoreRun(o)
  PROVE  AnswerInv'
<1>0. TypeOK' /\ ApiTypeOK
  BY DEF LifecycleInv, AnswerInv
<1>1. RunNumber \in 0 .. MaxRuns /\ RunNumber < MaxRuns
  BY <1>0, OutcomesAssumption DEF StoreRun, RunNumber, ApiTypeOK, Runs
<1>2. /\ lastRun' \in Runs /\ lastRun'.id = RunNumber + 1
      /\ lastRun' # None
  BY <1>1, OutcomesAssumption DEF StoreRun, Runs
<1>3. RunNumber' = RunNumber + 1
  BY <1>2 DEF RunNumber
<1>4. lastSuccess' \in Runs \cup {None}
  BY <1>0, <1>2 DEF StoreRun, ApiTypeOK
<1>5. UNCHANGED <<handlers, configuration, maintenance, turns, usable>>
  BY DEF StoreRun
<1>6. ApiTypeOK'
  BY <1>0, <1>2, <1>4, <1>5 DEF ApiTypeOK, handlers
<1>7. lastRun'.status = o.status
  BY DEF StoreRun
<1>8. /\ o.status = "succeeded" => lastSuccess' = lastRun'
      /\ o.status # "succeeded" => lastSuccess' = lastSuccess
  BY DEF StoreRun
<1>9. /\ lastSuccess # None => lastSuccess.id \in Nat /\ lastSuccess.id <= RunNumber
  BY <1>0 DEF AnswerInv, EvidenceInv, ApiTypeOK, Runs
<1>10. EvidenceInv'
  BY <1>1, <1>2, <1>3, <1>7, <1>8, <1>9 DEF EvidenceInv
<1>11. lastSuccess # None => lastSuccess' # None /\ lastSuccess'.id >= lastSuccess.id
  BY <1>1, <1>2, <1>8, <1>9
<1>12. ASSUME NEW q \in Requests PROVE HandlerInv(q)'
  <2>1. HandlerInv(q) /\ view[q] \in Views /\ came[q].run \in Nat
    BY <1>0 DEF AnswerInv, ApiTypeOK
  <2>2. view[q].last # None => view[q].last.id \in Nat
    BY <2>1 DEF Views, Runs
  <2>3. Follows(q)'
    BY <1>1, <1>3, <1>5, <2>1 DEF HandlerInv, Follows, InHandler, handlers
  <2>4. ReadInOrder(q)'
    <3>1. lastSuccess' # None => lastSuccess'.id \in Nat
      BY <1>4 DEF Runs
    <3> QED
      BY <1>5, <1>9, <1>11, <2>1, <2>2, <3>1
      DEF HandlerInv, ReadInOrder, HasConfiguration, HasLast, HasSuccess, Answering, handlers
  <2>5. SentWhatItRead(q)' /\ LoggedWhatItSent(q)'
    BY <1>5, <2>1 DEF HandlerInv, SentWhatItRead, LoggedWhatItSent, handlers
  <2> QED BY <2>3, <2>4, <2>5 DEF HandlerInv
<1> QED BY <1>6, <1>10, <1>12 DEF AnswerInv

\* What is the handler's own, when only route, place, view and sent are told.
LEMMA ReadKeeps ==
  ASSUME AnswerInv, LifecycleInv', NEW r \in Requests,
         \/ ReadConfiguration(r) \/ ReadLastRun(r) \/ ReadLastSuccess(r) \/ ReadMaintenance(r)
  PROVE  AnswerInv'
<1>0. TypeOK' /\ ApiTypeOK /\ HandlerInv(r) /\ EvidenceInv
  BY DEF LifecycleInv, AnswerInv
<1> DEFINE got(what) ==
             CASE what = "configuration" -> configuration
               [] what = "last" -> lastRun
               [] what = "success" -> lastSuccess
               [] what = "maintenance" -> maintenance
           following(what) ==
             CASE what = "configuration" -> "last"
               [] what = "last" -> "success"
               [] what = "success" -> "maintenance"
               [] what = "maintenance" -> "answering"
<1>1. PICK what \in {"configuration", "last", "success", "maintenance"} :
        /\ place[r] = what
        /\ view' = [view EXCEPT ![r] = [view[r] EXCEPT ![what] = got(what)]]
        /\ place' = [place EXCEPT ![r] = following(what)]
        /\ UNCHANGED <<world, route, sent, logged, left, seen, came>>
  BY DEF ReadConfiguration, ReadLastRun, ReadLastSuccess, ReadMaintenance, Read, NextRead
<1>a. /\ got("configuration") = configuration /\ got("last") = lastRun
      /\ got("success") = lastSuccess /\ got("maintenance") = maintenance
  OBVIOUS
<1>b. /\ following("configuration") = "last" /\ following("last") = "success"
      /\ following("success") = "maintenance" /\ following("maintenance") = "answering"
  OBVIOUS
<1> DEFINE value == got(what)
           next == following(what)
<1> HIDE DEF got, following, value, next
<1> DEFINE old == view[r]
           new == view'[r]
<1>2. old \in Views /\ new = [old EXCEPT ![what] = value]
  BY <1>0, <1>1 DEF ApiTypeOK, value
<1>3. /\ configuration \in {"valid", "using_previous"} /\ maintenance \in BOOLEAN
      /\ lastRun \in Runs \cup {None} /\ lastSuccess \in Runs \cup {None}
  BY <1>0 DEF ApiTypeOK
<1>4. /\ new \in Views
      /\ new.configuration = IF what = "configuration" THEN configuration ELSE old.configuration
      /\ new.last = IF what = "last" THEN lastRun ELSE old.last
      /\ new.success = IF what = "success" THEN lastSuccess ELSE old.success
      /\ new.maintenance = IF what = "maintenance" THEN maintenance ELSE old.maintenance
  <2> HIDE DEF old, new
  <2>1. CASE what = "configuration"
    BY <1>2, <1>3, <1>a, <2>1 DEF Views, value
  <2>2. CASE what = "last"
    BY <1>2, <1>3, <1>a, <2>2 DEF Views, value
  <2>3. CASE what = "success"
    BY <1>2, <1>3, <1>a, <2>3 DEF Views, value
  <2>4. CASE what = "maintenance"
    BY <1>2, <1>3, <1>a, <2>4 DEF Views, value
  <2> QED BY <2>1, <2>2, <2>3, <2>4
<1>5. place' \in [Requests -> {"none", "configuration", "last", "success", "maintenance",
                               "series", "querying", "answering", "writing", "done"}]
  <2>1. next \in {"last", "success", "maintenance", "answering"}
    BY <1>b DEF next
  <2> QED BY <1>0, <1>1, <2>1 DEF ApiTypeOK, next
<1>6. view' \in [Requests -> Views]
  <2>1. [old EXCEPT ![what] = value] \in Views
    BY <1>2, <1>4
  <2> QED BY <1>0, <1>1, <2>1 DEF ApiTypeOK, value
<1>7. ApiTypeOK'
  BY <1>0, <1>1, <1>5, <1>6 DEF ApiTypeOK, world
<1>8. /\ place'[r] = CASE what = "configuration" -> "last"
                       [] what = "last" -> "success"
                       [] what = "success" -> "maintenance"
                       [] what = "maintenance" -> "answering"
      /\ UNCHANGED <<route[r], sent[r], logged[r], seen[r], came[r]>>
      /\ UNCHANGED <<maintenance, lastRun, lastSuccess>>
  <2>1. place'[r] = next
    BY <1>0, <1>1 DEF ApiTypeOK, next
  <2> QED BY <1>1, <1>b, <2>1 DEF world, next
<1> HIDE DEF new
<1>9. /\ maintenance \in seen[r] /\ came[r].run <= RunNumber /\ came[r].run \in Nat
  BY <1>0, <1>1 DEF HandlerInv, Follows, InHandler, ApiTypeOK
<1>10. Follows(r)'
  BY <1>1, <1>8, <1>9 DEF Follows, InHandler, RunNumber
<1>11. ReadInOrder(r)'
  <2> SUFFICES
        /\ HasConfiguration(r)' => new.configuration \in {"valid", "using_previous"}
        /\ HasLast(r)' =>
             /\ came[r].run > 0 => new.last # None /\ new.last.id >= came[r].run
             /\ new.last # None /\ new.last.status = "succeeded" =>
                  lastSuccess # None /\ lastSuccess.id >= new.last.id
        /\ HasSuccess(r)' /\ new.last # None /\ new.last.status = "succeeded" =>
             new.success # None /\ new.success.id >= new.last.id
        /\ Answering(r)' => new.maintenance \in seen[r]
    BY <1>8 DEF ReadInOrder, new
  <2> USE DEF HasConfiguration, HasLast, HasSuccess, Answering
  <2> HIDE DEF old
  <2>0. /\ HasConfiguration(r) => old.configuration \in {"valid", "using_previous"}
        /\ HasLast(r) =>
             /\ came[r].run > 0 => old.last # None /\ old.last.id >= came[r].run
             /\ old.last # None /\ old.last.status = "succeeded" =>
                  lastSuccess # None /\ lastSuccess.id >= old.last.id
        /\ HasSuccess(r) /\ old.last # None /\ old.last.status = "succeeded" =>
             old.success # None /\ old.success.id >= old.last.id
    BY <1>0 DEF HandlerInv, ReadInOrder, old
  <2>1. CASE what = "configuration"
    BY <1>1, <1>3, <1>4, <1>8, <2>1
  <2>2. CASE what = "last"
    BY <1>0, <1>1, <1>3, <1>4, <1>8, <1>9, <2>0, <2>2 DEF EvidenceInv, RunNumber, Runs
  <2>3. CASE what = "success"
    BY <1>1, <1>4, <1>8, <2>0, <2>3
  <2>4. CASE what = "maintenance"
    BY <1>1, <1>4, <1>8, <1>9, <2>0, <2>4
  <2> QED BY <2>1, <2>2, <2>3, <2>4
<1>12. SentWhatItRead(r)' /\ LoggedWhatItSent(r)'
  BY <1>1, <1>8 DEF SentWhatItRead, LoggedWhatItSent
<1>13. ASSUME NEW q \in Requests \ {r}
       PROVE  UNCHANGED <<route[q], place[q], view[q], sent[q], logged[q], seen[q], came[q]>>
  BY <1>0, <1>1 DEF ApiTypeOK
<1> QED BY <1>7, <1>8, <1>10, <1>11, <1>12, <1>13, OneHandler DEF HandlerInv

LEMMA ArriveKeeps ==
  ASSUME AnswerInv, LifecycleInv', NEW r \in Requests, Arrive(r)
  PROVE  AnswerInv'
<1>0. TypeOK' /\ ApiTypeOK
  BY DEF LifecycleInv, AnswerInv
<1> DEFINE first(u) == CASE u \in {"ready", "status"} -> "configuration"
                         [] u = "series" -> "series"
                         [] OTHER -> "answering"
           mark == [run |-> RunNumber, usable |-> usable]
<1>1. PICK u \in Routes : /\ route' = [route EXCEPT ![r] = u]
                          /\ place' = [place EXCEPT ![r] = first(u)]
                          /\ seen' = [seen EXCEPT ![r] = {maintenance}]
                          /\ came' = [came EXCEPT ![r] = mark]
                          /\ UNCHANGED <<world, view, sent, logged, left>>
  BY DEF Arrive
<1>2. /\ u \in {"ready", "status"} => first(u) = "configuration"
      /\ u = "series" => first(u) = "series"
      /\ u \notin {"ready", "status", "series"} => first(u) = "answering"
  OBVIOUS
<1>3. RunNumber \in 0 .. MaxRuns
  BY <1>0, Limits DEF ApiTypeOK, RunNumber, Runs
<1>4. mark \in [run : 0 .. MaxRuns, usable : BOOLEAN] /\ mark.run = RunNumber
  BY <1>0, <1>3 DEF ApiTypeOK
<1> HIDE DEF first, mark
<1>5. ApiTypeOK'
  <2>1. first(u) \in {"configuration", "series", "answering"} /\ maintenance \in BOOLEAN
    BY <1>0, <1>2 DEF ApiTypeOK
  <2>2. /\ route' \in [Requests -> Routes]
        /\ place' \in [Requests -> {"none", "configuration", "last", "success", "maintenance",
                                    "series", "querying", "answering", "writing", "done"}]
        /\ seen' \in [Requests -> SUBSET BOOLEAN]
        /\ came' \in [Requests -> [run : 0 .. MaxRuns, usable : BOOLEAN]]
    BY <1>0, <1>1, <1>4, <2>1 DEF ApiTypeOK
  <2> QED BY <1>0, <1>1, <2>2 DEF ApiTypeOK, world
<1>6. /\ route'[r] = u /\ place'[r] = first(u) /\ seen'[r] = {maintenance}
      /\ came'[r].run = RunNumber /\ RunNumber' = RunNumber
      /\ UNCHANGED <<maintenance, lastRun, lastSuccess>>
  BY <1>0, <1>1, <1>4 DEF ApiTypeOK, world, RunNumber
<1>7. HandlerInv(r)'
  <2>1. Follows(r)'
    BY <1>2, <1>3, <1>6 DEF Follows, InHandler
  <2>2. ReadInOrder(r)'
    BY <1>2, <1>6 DEF ReadInOrder, HasConfiguration, HasLast, HasSuccess, Answering
  <2>3. SentWhatItRead(r)' /\ LoggedWhatItSent(r)'
    BY <1>2, <1>6 DEF SentWhatItRead, LoggedWhatItSent
  <2> QED BY <2>1, <2>2, <2>3 DEF HandlerInv
<1>8. ASSUME NEW q \in Requests \ {r}
      PROVE  UNCHANGED <<route[q], place[q], view[q], sent[q], logged[q], seen[q], came[q]>>
  BY <1>0, <1>1 DEF ApiTypeOK
<1> QED BY <1>5, <1>6, <1>7, <1>8, OneHandler

\* The steps of a handler of a history series, and the client's leaving.
LEMMA SeriesKeeps ==
  ASSUME AnswerInv, LifecycleInv', NEW r \in Requests,
         ClientLeaves(r) \/ AskHistory(r) \/ HistoryAnswers(r)
  PROVE  AnswerInv'
<1>0. TypeOK' /\ ApiTypeOK /\ HandlerInv(r)
  BY DEF LifecycleInv, AnswerInv
<1>1. CASE ClientLeaves(r)
  <2>1. /\ UNCHANGED <<world, route, place, view, sent, logged, seen, came>>
        /\ left' = left \cup {r}
    BY <1>1 DEF ClientLeaves
  <2>2. ApiTypeOK'
    BY <1>0, <2>1 DEF ApiTypeOK, world
  <2>3. UNCHANGED <<maintenance, lastRun, lastSuccess>>
    BY <2>1 DEF world
  <2>4. ASSUME NEW q \in Requests
        PROVE  UNCHANGED <<route[q], place[q], view[q], sent[q], logged[q], seen[q], came[q]>>
    BY <2>1
  <2>5. HandlerInv(r)'
    BY <1>0, <2>3, <2>4, Undisturbed
  <2> QED BY <2>2, <2>3, <2>4, <2>5, OneHandler
<1>2. CASE AskHistory(r) \/ HistoryAnswers(r)
  <2>1. /\ place[r] \in {"series", "querying"}
        /\ \E next \in {"querying", "answering"} : place' = [place EXCEPT ![r] = next]
        /\ \/ view' = view
           \/ \E result \in {"read", "failed"} : view' = [view EXCEPT ![r].series = result]
        /\ UNCHANGED <<world, route, sent, logged, left, seen, came>>
    BY <1>2 DEF AskHistory, HistoryAnswers
  <2>2. ASSUME NEW v \in Views, NEW result \in {"read", "failed"}
        PROVE  [v EXCEPT !.series = result] \in Views
    BY DEF Views
  <2>3. view' \in [Requests -> Views]
    <3>1. view \in [Requests -> Views] /\ view[r] \in Views
      BY <1>0 DEF ApiTypeOK
    <3>2. ASSUME NEW result \in {"read", "failed"},
                 view' = [view EXCEPT ![r].series = result]
          PROVE  view' \in [Requests -> Views]
      <4> DEFINE new == [view[r] EXCEPT !.series = result]
      <4>1. new \in Views
        BY <2>2, <3>1
      <4>2. view' = [view EXCEPT ![r] = new]
        BY <3>2
      <4> HIDE DEF new
      <4> QED BY <3>1, <4>1, <4>2
    <3> QED BY <2>1, <3>1, <3>2
  <2>4. ApiTypeOK'
    <3>1. place' \in [Requests -> {"none", "configuration", "last", "success",
                                   "maintenance", "series", "querying", "answering",
                                   "writing", "done"}]
      BY <1>0, <2>1 DEF ApiTypeOK
    <3> QED BY <1>0, <2>1, <2>3, <3>1 DEF ApiTypeOK, world
  <2>5. /\ route'[r] = "series" /\ place'[r] \in {"querying", "answering"}
        /\ UNCHANGED <<seen[r], came[r], maintenance, lastRun, lastSuccess>>
        /\ maintenance \in seen[r] /\ came[r].run <= RunNumber /\ RunNumber' = RunNumber
    BY <1>0, <2>1 DEF ApiTypeOK, world, HandlerInv, Follows, InHandler, RunNumber
  <2>6. HandlerInv(r)'
    <3>1. Follows(r)'
      BY <2>5 DEF Follows
    <3>2. ReadInOrder(r)'
      BY <2>5 DEF ReadInOrder, HasConfiguration, HasLast, HasSuccess, Answering
    <3>3. SentWhatItRead(r)' /\ LoggedWhatItSent(r)'
      BY <2>5 DEF SentWhatItRead, LoggedWhatItSent
    <3> QED BY <3>1, <3>2, <3>3 DEF HandlerInv
  <2>7. ASSUME NEW q \in Requests \ {r}
        PROVE  UNCHANGED <<route[q], place[q], view[q], sent[q], logged[q], seen[q], came[q]>>
    BY <1>0, <2>1 DEF ApiTypeOK
  <2> QED BY <2>4, <2>5, <2>6, <2>7, OneHandler
<1> QED BY <1>1, <1>2

\* What readiness and status answer, and what they cannot.
LEMMA AnswerOf ==
  ASSUME ApiTypeOK, NEW r \in Requests, HandlerInv(r), place[r] = "answering"
  PROVE  /\ StatusOf(r) \in {200, 404, 500, 503}
         /\ route[r] \in {"ready", "status"} => StatusOf(r) \in {200, 503}
         /\ route[r] = "ready" => (StatusOf(r) = 200 <=> view[r].maintenance = FALSE)
<1>1. route[r] \in Routes /\ view[r] \in Views
  BY DEF ApiTypeOK
<1>2. CASE route[r] \in {"ready", "status"}
  <2>1. /\ view[r].configuration \in {"valid", "using_previous"}
        /\ view[r].maintenance \in BOOLEAN
    BY <1>2 DEF HandlerInv, ReadInOrder, HasConfiguration, Answering, ApiTypeOK
  <2>2. /\ ValidateOperationalStatus(Snapshot(r))
        /\ Ready(Snapshot(r)) <=> view[r].maintenance = FALSE
    BY <1>1, <2>1, SnapshotAccepted
  <2>3. CASE route[r] = "ready"
    <3>1. StatusOf(r) = IF Ready(Snapshot(r)) THEN 200 ELSE 503
      BY <2>2, <2>3 DEF StatusOf
    <3>2. CASE Ready(Snapshot(r))
      BY <2>2, <2>3, <3>1, <3>2
    <3>3. CASE ~Ready(Snapshot(r))
      BY <2>2, <2>3, <3>1, <3>3
    <3> QED BY <3>2, <3>3
  <2>4. CASE route[r] = "status"
    <3>1. StatusOf(r) = 200
      BY <2>2, <2>4 DEF StatusOf
    <3> QED BY <2>4, <3>1
  <2> QED BY <1>2, <2>3, <2>4
<1>3. CASE route[r] \notin {"ready", "status"}
  BY <1>1, <1>3 DEF StatusOf, Routes
<1> QED BY <1>2, <1>3

LEMMA RespondKeeps ==
  ASSUME AnswerInv, LifecycleInv', NEW r \in Requests, Respond(r)
  PROVE  AnswerInv'
<1>0. TypeOK' /\ ApiTypeOK /\ HandlerInv(r) /\ place[r] = "answering"
  BY DEF LifecycleInv, AnswerInv, Respond
<1> DEFINE answer == StatusOf(r)
<1>1. /\ answer \in {200, 404, 500, 503}
      /\ route[r] \in {"ready", "status"} => answer \in {200, 503}
      /\ route[r] = "ready" => (answer = 200 <=> view[r].maintenance = FALSE)
  BY <1>0, AnswerOf
<1>2. /\ sent' = [sent EXCEPT ![r] = answer]
      /\ place' = [place EXCEPT ![r] = "writing"]
      /\ UNCHANGED <<world, route, view, logged, left, seen, came>>
  BY DEF Respond
<1> HIDE DEF answer
<1>3. ApiTypeOK'
  <2>1. /\ sent' \in [Requests -> {0, 200, 404, 500, 503}]
        /\ place' \in [Requests -> {"none", "configuration", "last", "success",
                                    "maintenance", "series", "querying", "answering",
                                    "writing", "done"}]
    BY <1>0, <1>1, <1>2 DEF ApiTypeOK
  <2> QED BY <1>0, <1>2, <2>1 DEF ApiTypeOK, world
<1>4. /\ place'[r] = "writing" /\ sent'[r] = answer
      /\ UNCHANGED <<route[r], view[r], seen[r], came[r]>>
      /\ UNCHANGED <<maintenance, lastRun, lastSuccess>>
  BY <1>0, <1>2 DEF ApiTypeOK, world
<1>5. HandlerInv(r)'
  <2>1. Follows(r)'
    BY <1>0, <1>4 DEF HandlerInv, Follows, InHandler, RunNumber
  <2>2. ReadInOrder(r)'
    BY <1>0, <1>4
    DEF HandlerInv, ReadInOrder, HasConfiguration, HasLast, HasSuccess, Answering
  <2>3. SentWhatItRead(r)' /\ LoggedWhatItSent(r)'
    BY <1>1, <1>4 DEF SentWhatItRead, LoggedWhatItSent
  <2> QED BY <2>1, <2>2, <2>3 DEF HandlerInv
<1>6. ASSUME NEW q \in Requests \ {r}
      PROVE  UNCHANGED <<route[q], place[q], view[q], sent[q], logged[q], seen[q], came[q]>>
  BY <1>0, <1>2 DEF ApiTypeOK
<1> QED BY <1>3, <1>4, <1>5, <1>6, OneHandler

LEMMA EndKeeps ==
  ASSUME AnswerInv, LifecycleInv', NEW r \in Requests, Finish(r) \/ Panic(r)
  PROVE  AnswerInv'
<1>0. TypeOK' /\ ApiTypeOK /\ HandlerInv(r)
  BY DEF LifecycleInv, AnswerInv
<1> DEFINE wrote(code, status, answer) ==
             /\ sent' = [sent EXCEPT ![r] = answer]
             /\ logged' = [logged EXCEPT ![r] = [code |-> code, status |-> status]]
           Written ==
             /\ sent' \in [Requests -> {0, 200, 404, 500, 503}]
             /\ logged' \in [Requests -> Logs \cup {None}]
             /\ sent'[r] # 0
             /\ logged'[r].code = "panic" => logged'[r].status = 500
             /\ logged'[r].code # "panic" => logged'[r].status = sent'[r]
             /\ \A q \in Requests \ {r} : UNCHANGED <<sent[q], logged[q]>>
<1>1. ASSUME NEW code \in {"completed", "cancelled", "panic"},
             NEW status \in {200, 404, 500, 503}, NEW answer \in {200, 404, 500, 503},
             wrote(code, status, answer),
             code = "panic" => status = 500, code # "panic" => status = answer
      PROVE  Written
  <2> DEFINE entry == [code |-> code, status |-> status]
  <2>1. entry \in Logs /\ entry.code = code /\ entry.status = status
    BY DEF Logs
  <2>2. logged' = [logged EXCEPT ![r] = entry]
    BY <1>1
  <2> HIDE DEF entry
  <2> QED BY <1>0, <1>1, <2>1, <2>2 DEF ApiTypeOK
<1>2. Written
  <2> HIDE DEF Written
  <2>1. sent \in [Requests -> {0, 200, 404, 500, 503}]
    BY <1>0 DEF ApiTypeOK
  <2>2. CASE Finish(r)
    <3> DEFINE code == IF r \in left THEN "cancelled" ELSE "completed"
    <3>1. sent[r] \in {200, 404, 500, 503} /\ CapturedStatus(r) = sent[r]
      BY <1>0, <2>1, <2>2 DEF Finish, HandlerInv, SentWhatItRead, CapturedStatus
    <3>2. wrote(code, sent[r], sent[r])
      BY <2>1, <2>2, <3>1 DEF Finish
    <3>3. code \in {"completed", "cancelled", "panic"} /\ code # "panic"
      OBVIOUS
    <3> HIDE DEF code, wrote
    <3> QED BY <1>1, <3>1, <3>2, <3>3
  <2>3. CASE Panic(r)
    <3> DEFINE answer == IF sent[r] = 0 THEN 500 ELSE sent[r]
    <3>1. answer \in {200, 404, 500, 503}
      BY <2>1
    <3>2. wrote("panic", 500, answer)
      BY <2>3 DEF Panic
    <3> HIDE DEF answer, wrote
    <3> QED BY <1>1, <3>1, <3>2
  <2> QED BY <2>2, <2>3
<1>3. Forget(r)
  BY DEF Finish, Panic
<1>4. /\ [run |-> 0, usable |-> TRUE] \in [run : 0 .. MaxRuns, usable : BOOLEAN]
      /\ NothingRead \in Views
  <2>1. 0 \in 0 .. MaxRuns
    BY Limits
  <2> QED BY <2>1 DEF NothingRead, Views
<1>5. ApiTypeOK'
  <2>1. /\ place' \in [Requests -> {"none", "configuration", "last", "success",
                                    "maintenance", "series", "querying", "answering",
                                    "writing", "done"}]
        /\ view' \in [Requests -> Views]
        /\ left' \subseteq Requests
    BY <1>0, <1>3, <1>4 DEF ApiTypeOK, Forget
  <2>2. /\ seen' \in [Requests -> SUBSET BOOLEAN]
        /\ came' \in [Requests -> [run : 0 .. MaxRuns, usable : BOOLEAN]]
        /\ route' \in [Requests -> Routes]
    BY <1>0, <1>3, <1>4 DEF ApiTypeOK, Forget, Routes
  <2> QED BY <1>0, <1>2, <1>3, <2>1, <2>2 DEF ApiTypeOK, Forget, world
<1>6. place'[r] = "done" /\ UNCHANGED <<maintenance, lastRun, lastSuccess>>
  BY <1>0, <1>3 DEF ApiTypeOK, Forget, world
<1>7. HandlerInv(r)'
  <2>1. Follows(r)' /\ ReadInOrder(r)' /\ SentWhatItRead(r)'
    BY <1>6 DEF Follows, InHandler, ReadInOrder, HasConfiguration, HasLast, HasSuccess,
                Answering, SentWhatItRead
  <2>2. LoggedWhatItSent(r)'
    BY <1>2 DEF LoggedWhatItSent
  <2> QED BY <2>1, <2>2 DEF HandlerInv
<1>8. ASSUME NEW q \in Requests \ {r}
      PROVE  UNCHANGED <<route[q], place[q], view[q], sent[q], logged[q], seen[q], came[q]>>
  BY <1>0, <1>2, <1>3 DEF ApiTypeOK, Forget
<1> QED BY <1>5, <1>6, <1>7, <1>8, OneHandler

LEMMA AnswerStep ==
  ASSUME AnswerInv, LifecycleInv', [ApiNext]_apiVars
  PROVE  AnswerInv'
<1>1. CASE ReloadSettings \/ TurnMaintenance \/ HistoryBreaks \/ UNCHANGED <<world, handlers>>
  BY <1>1, WorldKeeps
<1>2. ASSUME NEW o \in Outcomes, StoreRun(o) PROVE AnswerInv'
  BY <1>2, StoreRunKeeps
<1>3. ASSUME NEW r \in Requests, Arrive(r) PROVE AnswerInv'
  BY <1>3, ArriveKeeps
<1>4. ASSUME NEW r \in Requests, ClientLeaves(r) \/ HandlerStep(r) PROVE AnswerInv'
  BY <1>4, ReadKeeps, SeriesKeeps, RespondKeeps, EndKeeps DEF HandlerStep
<1> QED BY <1>1, <1>2, <1>3, <1>4 DEF ApiNext, apiVars

LEMMA AnswersHold == ApiSpec => []AnswerInv
<1>1. ApiInit /\ LifecycleInv => AnswerInv
  BY AnswerInit
<1>2. AnswerInv /\ LifecycleInv' /\ [ApiNext]_apiVars => AnswerInv'
  BY AnswerStep
<1> QED BY <1>1, <1>2, LifecycleOfHandlers, PTL DEF ApiSpec

\* What the handlers read, send and log keeps its types.
THEOREM HandlersTypeCorrect == ApiSpec => []ApiTypeOK
<1>1. AnswerInv => ApiTypeOK
  BY DEF AnswerInv
<1> QED BY <1>1, AnswersHold, PTL

\* Readiness and status never answer that their own contract rejects them.
THEOREM SnapshotsAreAccepted == ApiSpec => []SnapshotsAreValid
<1>1. AnswerInv => SnapshotsAreValid
  BY DEF AnswerInv, HandlerInv, SentWhatItRead, SnapshotsAreValid
<1> QED BY <1>1, AnswersHold, PTL

\* A probe is told ready, or not, of a moment while it was handled.
THEOREM ReadinessIsTrue == ApiSpec => []ReadinessIsCurrent
<1>1. AnswerInv => ReadinessIsCurrent
  <2> SUFFICES ASSUME AnswerInv, NEW r \in Requests, route[r] = "ready", place[r] = "writing"
               PROVE  /\ sent[r] = 200 => FALSE \in seen[r]
                      /\ sent[r] = 503 => TRUE \in seen[r]
    BY DEF ReadinessIsCurrent
  <2>1. /\ view[r].maintenance \in seen[r] /\ seen[r] \subseteq BOOLEAN
        /\ sent[r] = 200 <=> view[r].maintenance = FALSE
    BY DEF AnswerInv, HandlerInv, ReadInOrder, Answering, SentWhatItRead, ApiTypeOK
  <2>2. CASE view[r].maintenance = FALSE
    <3>1. sent[r] = 200
      BY <2>1, <2>2
    <3>2. sent[r] # 503
      BY <3>1
    <3>3. FALSE \in seen[r]
      BY <2>1, <2>2, Zenon
    <3> QED BY <3>2, <3>3
  <2>3. CASE view[r].maintenance # FALSE
    <3>1. view[r].maintenance = TRUE
      BY <2>1, <2>3, Zenon
    <3>2. sent[r] # 200 /\ TRUE \in seen[r]
      BY <2>1, <2>3, <3>1
    <3> QED BY <3>2
  <2> QED BY <2>2, <2>3
<1> QED BY <1>1, AnswersHold, PTL

\* The runs that a status shows belong together and are not older than the
\* request, however many runs are completed while they are read.
THEOREM EvidenceIsShown == ApiSpec => []ShownEvidence
<1>1. AnswerInv => ShownEvidence
  <2> SUFFICES ASSUME AnswerInv, NEW r \in Requests,
                      route[r] = "status", place[r] = "writing"
               PROVE  LET s == Snapshot(r)
                      IN /\ came[r].run > 0 => s.last # None /\ s.last.id >= came[r].run
                         /\ s.last # None /\ s.last.status = "succeeded" =>
                              s.success # None /\ s.success.id >= s.last.id
    BY DEF ShownEvidence
  <2>1. Snapshot(r).last = view[r].last /\ Snapshot(r).success = view[r].success
    BY DEF Snapshot
  <2> QED
    BY <2>1 DEF AnswerInv, HandlerInv, ReadInOrder, HasLast, HasSuccess, Answering
<1> QED BY <1>1, AnswersHold, PTL

\* The log of a request tells the status that the client was sent.
THEOREM LogTellsTrue == ApiSpec => []LogTellsTheAnswer
<1>1. AnswerInv => LogTellsTheAnswer
  BY DEF AnswerInv, HandlerInv, LoggedWhatItSent, LogTellsTheAnswer
<1> QED BY <1>1, AnswersHold, PTL
=============================================================================
