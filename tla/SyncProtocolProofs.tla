------------------------- MODULE SyncProtocolProofs -------------------------
(***************************************************************************)
(* Proofs about SyncProtocol, for every set of workers, channel and buffer *)
(* size: every beat of the reconcile trigger is accounted for.             *)
(***************************************************************************)
EXTENDS SyncProtocol, SequenceTheorems, FiniteSetTheorems, FunctionTheorems, TLAPS

-----------------------------------------------------------------------------
(* The inductive invariant *)

Beats(s) == Cardinality({i \in DOMAIN s : s[i] = "RECONCILE"})

\* Nothing is lost before the reader goroutine returns.
Accounted(c) ==
  LET known == chan[c] + Beats(down[c])
  IN  known <= owed[c] /\ (worker[c] \in {"off", "dialled", "reading"} => known = owed[c])

\* Trigger writes to a connection once in a call, and has yet to write to those
\* in todo.
OncePerCall(c) ==
  /\ owed[c] <= triggers
  /\ c \in todo => owed[c] < triggers

\* A worker registers once.
NotRegistered(c) == worker[c] \in {"off", "dialled"} => up[c] = << >>

Inv ==
  /\ TypeOK
  /\ \A c \in Client : Accounted(c) /\ OncePerCall(c) /\ NotRegistered(c)

-----------------------------------------------------------------------------
(* Counting the RECONCILE lines of a stream *)

Line == {"RECONCILE", "BYE"}

\* The beats in a sequence of lines are counted by a natural number.
LEMMA BeatsType ==
  ASSUME NEW s \in Seq(Line)
  PROVE  /\ Beats(s) \in Nat
         /\ IsFiniteSet({i \in DOMAIN s : s[i] = "RECONCILE"})
<1>1. DOMAIN s = 1..Len(s) /\ Len(s) \in Nat
  OBVIOUS
<1>2. IsFiniteSet(1..Len(s))
  BY <1>1, FS_Interval
<1>3. IsFiniteSet({i \in DOMAIN s : s[i] = "RECONCILE"})
  BY <1>1, <1>2, FS_Subset
<1>4. QED
  BY <1>3, FS_CardinalityType DEF Beats

\* In no lines there is no beat.
LEMMA BeatsEmpty == Beats(<< >>) = 0
<1>1. {i \in DOMAIN << >> : << >>[i] = "RECONCILE"} = {}
  OBVIOUS
<1>2. QED
  BY <1>1, FS_EmptySet DEF Beats

\* A line that is written adds one beat if it is one.
LEMMA BeatsAppend ==
  ASSUME NEW s \in Seq(Line), NEW x \in Line
  PROVE  Beats(Append(s, x)) = IF x = "RECONCILE" THEN Beats(s) + 1 ELSE Beats(s)
<1> DEFINE S == {i \in DOMAIN s : s[i] = "RECONCILE"}
           T == {i \in DOMAIN Append(s, x) : Append(s, x)[i] = "RECONCILE"}
<1>1. /\ DOMAIN s = 1..Len(s) /\ DOMAIN Append(s, x) = 1..(Len(s) + 1) /\ Len(s) \in Nat
      /\ Append(s, x)[Len(s) + 1] = x /\ \A i \in 1..Len(s) : Append(s, x)[i] = s[i]
  OBVIOUS
<1>2. CASE x = "RECONCILE"
  <2>1. T = S \cup {Len(s) + 1} /\ Len(s) + 1 \notin S
    BY <1>1, <1>2
  <2>2. IsFiniteSet(S)
    BY BeatsType
  <2>3. Cardinality(T) = Cardinality(S) + 1
    BY <2>1, <2>2, FS_AddElement
  <2>4. QED
    BY <1>2, <2>3 DEF Beats
<1>3. CASE x # "RECONCILE"
  <2>1. T = S
    BY <1>1, <1>3
  <2>2. QED
    BY <1>3, <2>1 DEF Beats
<1>4. QED
  BY <1>2, <1>3

\* A line that is read takes one beat away if it is one.
LEMMA BeatsTail ==
  ASSUME NEW s \in Seq(Line), s # << >>
  PROVE  Beats(s) = IF Head(s) = "RECONCILE" THEN Beats(Tail(s)) + 1 ELSE Beats(Tail(s))
<1> DEFINE S == {i \in DOMAIN s : s[i] = "RECONCILE"}
           T == {i \in DOMAIN Tail(s) : Tail(s)[i] = "RECONCILE"}
           f == [i \in T |-> i + 1]
<1>1. /\ DOMAIN s = 1..Len(s) /\ Len(s) \in Nat /\ Len(s) # 0 /\ Head(s) = s[1]
      /\ Tail(s) \in Seq(Line) /\ DOMAIN Tail(s) = 1..(Len(s) - 1)
      /\ \A i \in 1..(Len(s) - 1) : Tail(s)[i] = s[i + 1]
  OBVIOUS
<1>2. IsFiniteSet(S) /\ IsFiniteSet(T) /\ Cardinality(T) \in Nat
  BY <1>1, BeatsType, FS_CardinalityType
<1>3. \A i \in T : i \in Int /\ f[i] = i + 1 /\ f[i] \in S \ {1}
  BY <1>1
<1>4. \A j \in S \ {1} : j - 1 \in T /\ f[j - 1] = j
  <2>1. ASSUME NEW j \in S \ {1}
        PROVE  j - 1 \in T /\ f[j - 1] = j
    <3>1. j - 1 \in 1..(Len(s) - 1) /\ (j - 1) + 1 = j
      BY <1>1, <2>1
    <3>2. QED
      BY <1>1, <2>1, <3>1
  <2>2. QED
    BY <2>1
<1>5. f \in Bijection(T, S \ {1})
  <2>1. f \in [T -> S \ {1}]
    BY <1>3
  <2>2. \A i, j \in T : f[i] = f[j] => i = j
    BY <1>3
  <2>3. \A j \in S \ {1} : \E i \in T : f[i] = j
    BY <1>4
  <2>4. QED
    BY <2>1, <2>2, <2>3, Fun_IsBij
<1>6. Cardinality(S \ {1}) = Cardinality(T)
  BY <1>2, <1>5, FS_Bijection, Fun_ExistsBij
<1>7. Cardinality(S \ {1}) = IF 1 \in S THEN Cardinality(S) - 1 ELSE Cardinality(S)
  BY <1>2, FS_RemoveElement
<1>8. 1 \in S <=> Head(s) = "RECONCILE"
  BY <1>1
<1>9. Cardinality(S) \in Nat
  BY <1>2, FS_CardinalityType
<1>10. Beats(s) = Cardinality(S) /\ Beats(Tail(s)) = Cardinality(T)
  BY DEF Beats
<1>11. QED
  <2> HIDE DEF S, T
  <2>1. QED
    BY <1>2, <1>6, <1>7, <1>8, <1>9, <1>10

-----------------------------------------------------------------------------
(* Every step preserves the invariant *)

\* The invariant holds before the server listens.
LEMMA InitInv == Init => Inv
<1> SUFFICES ASSUME Init PROVE Inv
  OBVIOUS
<1>1. 0 \in 0..MaxTriggers /\ 0 \in 0..ChanCap /\ 0 <= SockCap
  BY CapAssumption, TriggerAssumption
<1>2. << >> \in Seq(Line) /\ Len(<< >>) = 0
  OBVIOUS
<1>3. TypeOK
  BY <1>1, <1>2 DEF Init, TypeOK, Line
<1>4. \A c \in Client : Accounted(c) /\ OncePerCall(c) /\ NotRegistered(c)
  BY BeatsEmpty DEF Init, Accounted, OncePerCall, NotRegistered
<1>5. QED
  BY <1>3, <1>4 DEF Inv

\* The types of the counted variables, read off the invariant.
LEMMA Types ==
  ASSUME Inv
  PROVE  /\ down \in [Client -> Seq(Line)] /\ chan \in [Client -> 0..ChanCap]
         /\ owed \in [Client -> 0..MaxTriggers] /\ triggers \in 0..MaxTriggers
         /\ up \in [Client -> {<< >>, <<"REGISTER">>}]
         /\ worker \in [Client -> {"off", "dialled", "reading", "closed", "failed", "exited"}]
         /\ \A c \in Client : Beats(down[c]) \in Nat
BY BeatsType DEF Inv, TypeOK, Line

\* A step that neither writes to a stream nor reads from down, nor moves a worker.
LEMMA QuietStep ==
  ASSUME Inv, UNCHANGED <<chan, down, owed, triggers, worker>>, todo' \subseteq todo,
         \A c \in Client : up'[c] = up[c] \/ up[c] # << >>
  PROVE  \A c \in Client : (Accounted(c) /\ OncePerCall(c) /\ NotRegistered(c))'
BY DEF Inv, Accounted, OncePerCall, NotRegistered

\* The end of the server's process, by exit or by panic, keeps the invariant.
LEMMA GoneInv ==
  ASSUME Inv, NEW how \in {"exited", "panicked"}, Gone(how)
  PROVE  Inv'
<1>1. TypeOK'
  BY DEF Inv, TypeOK, Gone, workerVars
<1>2. UNCHANGED <<chan, down, owed, triggers, worker, up>> /\ todo' = {}
  BY DEF Gone, workerVars
<1>3. QED
  BY <1>1, <1>2, QuietStep DEF Inv

\* The server's steps on a connection keep the invariant.
LEMMA ServeInv ==
  ASSUME Inv, NEW c \in Client, ServeStep(c)
  PROVE  Inv'
<1>1. CASE Accept(c) \/ ReadRegisterFails(c) \/ Register(c) \/ Drain(c)
  <2>1. TypeOK'
    BY <1>1 DEF Inv, TypeOK, Accept, ReadRegisterFails, Register, Drain, mapVars, triggerVars, closeVars,
                connVars, workerVars
  <2>2. UNCHANGED <<chan, down, owed, triggers, worker, todo, up>>
    BY <1>1 DEF Accept, ReadRegisterFails, Register, Drain, triggerVars, connVars, workerVars
  <2>3. QED
    BY <2>1, <2>2, QuietStep DEF Inv
<1>2. CASE ReadRegister(c)
  <2>1. up' = [up EXCEPT ![c] = Tail(@)] /\ up[c] # << >>
        /\ UNCHANGED <<chan, down, owed, triggers, worker, todo>>
    BY <1>2 DEF ReadRegister, triggerVars, workerVars
  <2>2. Tail(<<"REGISTER">>) = << >>
    OBVIOUS
  <2>3. up' \in [Client -> {<< >>, <<"REGISTER">>}]
    BY <2>1, <2>2, Types
  <2>4. TypeOK'
    BY <1>2, <2>3 DEF Inv, TypeOK, ReadRegister, mapVars, triggerVars, closeVars, workerVars
  <2>5. \A d \in Client : up'[d] = up[d] \/ up[d] # << >>
    BY <2>1, Types
  <2>6. QED
    BY <2>1, <2>4, <2>5, QuietStep DEF Inv
<1>3. CASE RegisterPanics(c)
  BY <1>3, GoneInv DEF RegisterPanics
<1>4. QED
  BY <1>1, <1>2, <1>3 DEF ServeStep

\* Close keeps the invariant.
LEMMA CloseInv ==
  ASSUME Inv, CloseStart \/ CloseStep
  PROVE  Inv'
<1>1. CASE CloseStart \/ CloseListener
  <2>1. TypeOK'
    BY <1>1 DEF Inv, TypeOK, CloseStart, CloseListener, mapVars, triggerVars, closeVars, connVars, workerVars
  <2>2. UNCHANGED <<chan, down, owed, triggers, worker, todo, up>>
    BY <1>1 DEF CloseStart, CloseListener, triggerVars, connVars, workerVars
  <2>3. QED
    BY <2>1, <2>2, QuietStep DEF Inv
<1>2. ASSUME NEW c \in Client, CloseByeFails(c) \/ CloseConn(c)
      PROVE  Inv'
  <2>1. TypeOK'
    BY <1>2 DEF Inv, TypeOK, CloseByeFails, CloseNext, CloseConn, mapVars, triggerVars, connVars,
                workerVars
  <2>2. UNCHANGED <<chan, down, owed, triggers, worker, todo, up>>
    BY <1>2 DEF CloseByeFails, CloseConn, triggerVars, connVars, workerVars
  <2>3. QED
    BY <2>1, <2>2, QuietStep DEF Inv
<1>3. ASSUME NEW c \in Client, CloseBye(c)
      PROVE  Inv'
  <2>1. /\ down' = [down EXCEPT ![c] = Append(@, "BYE")] /\ ~(Len(down[c]) >= SockCap)
        /\ UNCHANGED <<chan, owed, triggers, worker, todo, up>>
    BY <1>3 DEF CloseBye, Full, triggerVars, workerVars
  <2>2. Append(down[c], "BYE") \in Seq(Line) /\ Len(Append(down[c], "BYE")) <= SockCap
    BY <2>1, Types, CapAssumption DEF Line
  <2>3. down' \in [Client -> Seq(Line)] /\ \A d \in Client : Len(down'[d]) <= SockCap
    BY <2>1, <2>2, Types DEF Inv, TypeOK
  <2>4. TypeOK'
    BY <1>3, <2>3 DEF Inv, TypeOK, CloseBye, CloseNext, mapVars, triggerVars, workerVars, Line
  <2>5. \A d \in Client : Beats(down'[d]) = Beats(down[d])
    BY <2>1, Types, BeatsAppend DEF Line
  <2>6. QED
    BY <2>1, <2>4, <2>5 DEF Inv, Accounted, OncePerCall, NotRegistered
<1>4. QED
  BY <1>1, <1>2, <1>3 DEF CloseStep

\* A trigger keeps the invariant: a beat is written once to each connection it visits.
LEMMA TriggerInv ==
  ASSUME Inv, TriggerStart \/ TriggerStep
  PROVE  Inv'
<1>1. CASE TriggerStart
  <2>1. /\ UNCHANGED <<chan, down, owed, worker, up>> /\ triggers' = triggers + 1
        /\ triggers < MaxTriggers
    BY <1>1 DEF TriggerStart, connVars, workerVars
  <2>2. triggers' \in 0..MaxTriggers
    BY <2>1, Types, TriggerAssumption
  <2>3. TypeOK'
    BY <1>1, <2>2 DEF Inv, TypeOK, TriggerStart, mapVars, closeVars, connVars, workerVars
  <2>4. ASSUME NEW c \in Client
        PROVE  owed[c] <= triggers' /\ owed[c] < triggers'
    BY <2>1, Types DEF Inv, OncePerCall
  <2>5. QED
    BY <2>1, <2>3, <2>4 DEF Inv, Accounted, OncePerCall, NotRegistered
<1>2. CASE TriggerEnd
  <2>1. TypeOK'
    BY <1>2 DEF Inv, TypeOK, TriggerEnd, mapVars, closeVars, connVars, workerVars
  <2>2. UNCHANGED <<chan, down, owed, triggers, worker, todo, up>>
    BY <1>2 DEF TriggerEnd, connVars, workerVars
  <2>3. QED
    BY <2>1, <2>2, QuietStep DEF Inv
<1>3. ASSUME NEW c \in Client, TriggerWriteFails(c)
      PROVE  Inv'
  <2>1. TypeOK'
    BY <1>3 DEF Inv, TypeOK, TriggerWriteFails, mapVars, closeVars, connVars, workerVars
  <2>2. UNCHANGED <<chan, down, owed, triggers, worker, up>> /\ todo' \subseteq todo
    BY <1>3 DEF TriggerWriteFails, connVars, workerVars
  <2>3. QED
    BY <2>1, <2>2, QuietStep DEF Inv
<1>4. ASSUME NEW c \in Client, TriggerWrite(c)
      PROVE  Inv'
  <2>1. /\ down' = [down EXCEPT ![c] = Append(@, "RECONCILE")] /\ ~(Len(down[c]) >= SockCap)
        /\ owed' = [owed EXCEPT ![c] = @ + 1] /\ c \in todo /\ todo' = todo \ {c}
        /\ UNCHANGED <<chan, triggers, worker, up>>
    BY <1>4 DEF TriggerWrite, Full, workerVars
  <2>2. Append(down[c], "RECONCILE") \in Seq(Line) /\ Len(Append(down[c], "RECONCILE")) <= SockCap
    BY <2>1, Types, CapAssumption DEF Line
  <2>3. down' \in [Client -> Seq(Line)] /\ \A d \in Client : Len(down'[d]) <= SockCap
    BY <2>1, <2>2, Types DEF Inv, TypeOK
  <2>4. owed[c] < triggers
    BY <2>1 DEF Inv, OncePerCall
  <2>5. owed[c] + 1 \in 0..MaxTriggers /\ owed[c] + 1 <= triggers
    BY <2>4, Types, TriggerAssumption
  <2>6. TypeOK'
    BY <1>4, <2>1, <2>3, <2>5 DEF Inv, TypeOK, TriggerWrite, mapVars, closeVars, workerVars, Line
  <2>7. Beats(down'[c]) = Beats(down[c]) + 1 /\ owed'[c] = owed[c] + 1
    BY <2>1, Types, BeatsAppend DEF Line
  <2>8. ASSUME NEW d \in Client, d # c
        PROVE  down'[d] = down[d] /\ owed'[d] = owed[d]
    BY <2>1, <2>8, Types
  <2>9. ASSUME NEW d \in Client
        PROVE  (Accounted(d) /\ OncePerCall(d) /\ NotRegistered(d))'
    <3>1. CASE d = c
      BY <2>1, <2>5, <2>7, <3>1, Types DEF Inv, Accounted, OncePerCall, NotRegistered
    <3>2. CASE d # c
      BY <2>1, <2>8, <3>2 DEF Inv, Accounted, OncePerCall, NotRegistered
    <3>3. QED
      BY <3>1, <3>2
  <2>10. QED
    BY <2>6, <2>9 DEF Inv
<1>5. QED
  BY <1>1, <1>2, <1>3, <1>4 DEF TriggerStep

\* The worker's side.
LEMMA ConnectInv ==
  ASSUME Inv, NEW c \in Client, ConnectStep(c)
  PROVE  Inv'
<1>1. /\ UNCHANGED <<chan, down, owed, triggers, todo>>
      /\ \A d \in Client \ {c} : worker'[d] = worker[d] /\ up'[d] = up[d]
      /\ worker[c] \in {"off", "dialled"} /\ worker'[c] \in {"dialled", "reading", "failed"}
      /\ worker'[c] = "dialled" => up'[c] = up[c]
  BY Types DEF ConnectStep, Dial, DialFails, SendRegister, SendRegisterFails, unaffected, connVars,
     triggerVars
<1>2. up' \in [Client -> {<< >>, <<"REGISTER">>}]
  <2>1. CASE SendRegister(c)
    <3>1. up[c] = << >> /\ up' = [up EXCEPT ![c] = Append(@, "REGISTER")]
      BY <1>1, <2>1 DEF Inv, NotRegistered, SendRegister
    <3>2. Append(<< >>, "REGISTER") = <<"REGISTER">>
      OBVIOUS
    <3>3. QED
      BY <3>1, <3>2, Types
  <2>2. CASE ~SendRegister(c)
    BY <2>2, Types DEF ConnectStep, Dial, DialFails, SendRegisterFails, connVars
  <2>3. QED
    BY <2>1, <2>2
<1>3. TypeOK'
  BY <1>2 DEF Inv, TypeOK, ConnectStep, Dial, DialFails, SendRegister, SendRegisterFails, unaffected,
     connVars, triggerVars, closeVars, mapVars
<1>4. QED
  BY <1>1, <1>3 DEF Inv, Accounted, OncePerCall, NotRegistered

\* What is left of a stream that nobody reads any more does not count.
LEMMA HangUpInv ==
  ASSUME Inv, TypeOK', NEW c \in Client, UNCHANGED <<triggers, todo, up>>,
         \A d \in Client \ {c} : UNCHANGED <<worker[d], down[d], owed[d], chan[d]>>,
         worker'[c] \in {"closed", "exited"}, down'[c] = << >>,
         chan'[c] <= owed'[c], owed'[c] <= owed[c]
  PROVE  Inv'
<1>0. /\ chan'[c] \in Nat /\ owed'[c] \in Nat /\ owed[c] \in Nat /\ triggers \in Nat
  BY Types, CapAssumption, TriggerAssumption DEF TypeOK
<1>1. ASSUME NEW d \in Client
      PROVE  (Accounted(d) /\ OncePerCall(d) /\ NotRegistered(d))'
  <2>1. CASE d = c
    <3>1. Beats(down'[c]) = 0
      BY BeatsEmpty
    <3>2. owed[c] <= triggers /\ (c \in todo => owed[c] < triggers)
      BY DEF Inv, OncePerCall
    <3>3. Accounted(c)'
      BY <1>0, <3>1 DEF Accounted
    <3>4. OncePerCall(c)'
      BY <1>0, <3>2 DEF OncePerCall
    <3>5. QED
      BY <2>1, <3>3, <3>4 DEF NotRegistered
  <2>2. CASE d # c
    BY <2>2 DEF Inv, Accounted, OncePerCall, NotRegistered
  <2>3. QED
    BY <2>1, <2>2
<1>2. QED
  BY <1>1 DEF Inv

\* A worker's reader keeps the invariant, a beat is put into the channel or dropped;
\* and so does the worker's exit.
LEMMA ReaderInv ==
  ASSUME Inv, NEW c \in Client, ReaderStep(c) \/ WorkerExit(c)
  PROVE  Inv'
<1>1. ASSUME UNCHANGED <<unaffected, backlog, sOpen, up>>,
             coord' \in [Client -> {"idle", "burst", "returned"}], ctx' \subseteq Client,
             worker' \in [Client -> {"off", "dialled", "reading", "closed", "failed", "exited"}],
             cOpen' \subseteq Client, down' \in [Client -> Seq(Line)],
             \A d \in Client : Len(down'[d]) <= SockCap,
             chan' \in [Client -> 0..ChanCap], owed' \in [Client -> 0..MaxTriggers]
      PROVE  TypeOK'
  BY <1>1 DEF Inv, TypeOK, unaffected, mapVars, triggerVars, closeVars, Line
<1>a. /\ << >> \in Seq(Line) /\ Len(<< >>) = 0 /\ 0 <= SockCap
      /\ \A d \in Client : Len(down[d]) <= SockCap
      /\ cOpen \subseteq Client /\ ctx \subseteq Client
      /\ coord \in [Client -> {"idle", "burst", "returned"}]
  BY CapAssumption DEF Inv, TypeOK
<1>b. /\ chan[c] \in 0..ChanCap /\ owed[c] \in 0..MaxTriggers /\ chan[c] <= owed[c]
      /\ 0 \in 0..ChanCap /\ 0 \in 0..MaxTriggers
  BY Types, CapAssumption, TriggerAssumption DEF Inv, Accounted
<1>2. CASE ReaderBye(c) \/ ReaderEOF(c) \/ WorkerExit(c)
  <2>1. /\ UNCHANGED <<unaffected, backlog, sOpen, up>>
        /\ down' = [down EXCEPT ![c] = << >>] /\ cOpen' = cOpen \ {c}
        /\ worker' = [worker EXCEPT ![c] = "closed"] \/ worker' = [worker EXCEPT ![c] = "exited"]
        /\ coord' = coord \/ coord' = [coord EXCEPT ![c] = "returned"]
        /\ ctx' = ctx \/ ctx' = ctx \ {c}
    BY <1>2 DEF ReaderBye, ReaderEOF, WorkerExit, ReaderReturns
  <2>2. /\ worker' \in [Client -> {"off", "dialled", "reading", "closed", "failed", "exited"}]
        /\ down' \in [Client -> Seq(Line)] /\ \A d \in Client : Len(down'[d]) <= SockCap
        /\ coord' \in [Client -> {"idle", "burst", "returned"}]
        /\ cOpen' \subseteq Client /\ ctx' \subseteq Client
    BY <1>a, <2>1, Types
  <2>3. /\ worker'[c] \in {"closed", "exited"} /\ down'[c] = << >>
        /\ \A d \in Client \ {c} : worker'[d] = worker[d] /\ down'[d] = down[d]
    BY <2>1, Types
  <2>4. ASSUME NEW n \in 0..ChanCap, NEW m \in 0..MaxTriggers, n <= m, m <= owed[c],
               chan' = [chan EXCEPT ![c] = n], owed' = [owed EXCEPT ![c] = m]
        PROVE  Inv'
    <3>1. chan' \in [Client -> 0..ChanCap] /\ owed' \in [Client -> 0..MaxTriggers]
      BY <2>4, Types
    <3>2. TypeOK'
      BY <1>1, <2>1, <2>2, <3>1
    <3>3. /\ chan'[c] <= owed'[c] /\ owed'[c] <= owed[c]
          /\ \A d \in Client \ {c} : chan'[d] = chan[d] /\ owed'[d] = owed[d]
      BY <2>4, Types
    <3>4. UNCHANGED <<triggers, todo, up>>
      BY <2>1 DEF unaffected, triggerVars
    <3>5. QED
      BY <2>3, <3>2, <3>3, <3>4, HangUpInv
  <2>5. CASE ReaderBye(c)
    <3>1. /\ owed' = [owed EXCEPT ![c] = @ - Beats(down[c])] /\ chan' = chan
          /\ worker[c] = "reading"
      BY <2>5 DEF ReaderBye, InFlight, Beats
    <3>2. chan[c] + Beats(down[c]) = owed[c] /\ Beats(down[c]) \in Nat
      BY <3>1, Types DEF Inv, Accounted
    <3>3. owed[c] - Beats(down[c]) = chan[c] /\ chan[c] \in 0..MaxTriggers /\ chan[c] <= chan[c]
      BY <1>b, <3>2, CapAssumption, TriggerAssumption
    <3>4. chan' = [chan EXCEPT ![c] = chan[c]] /\ owed' = [owed EXCEPT ![c] = chan[c]]
      BY <3>1, <3>3, Types
    <3>5. QED
      BY <1>b, <2>4, <3>3, <3>4
  <2>6. CASE ReaderEOF(c)
    <3>1. chan' = [chan EXCEPT ![c] = chan[c]] /\ owed' = [owed EXCEPT ![c] = owed[c]]
      BY <2>6, Types DEF ReaderEOF
    <3>2. owed[c] <= owed[c]
      BY <1>b, TriggerAssumption
    <3>3. QED
      BY <1>b, <2>4, <3>1, <3>2
  <2>7. CASE WorkerExit(c)
    <3>1. chan' = [chan EXCEPT ![c] = 0] /\ owed' = [owed EXCEPT ![c] = 0]
      BY <2>7 DEF WorkerExit
    <3>2. 0 <= 0 /\ 0 <= owed[c]
      BY <1>b, TriggerAssumption
    <3>3. QED
      BY <1>b, <2>4, <3>1, <3>2
  <2>8. QED
    BY <1>2, <2>5, <2>6, <2>7
<1>3. CASE ReaderMsg(c)
  <2>1. /\ UNCHANGED <<unaffected, backlog, sOpen, up, coord, ctx, triggers, todo>>
        /\ down[c] # << >> /\ Head(down[c]) = "RECONCILE" /\ worker[c] = "reading"
    BY <1>3 DEF ReaderMsg, unaffected, triggerVars
  <2>2. /\ Beats(down[c]) = Beats(Tail(down[c])) + 1 /\ Beats(Tail(down[c])) \in Nat
        /\ Tail(down[c]) \in Seq(Line) /\ Len(Tail(down[c])) <= SockCap
    <3>1. down[c] \in Seq(Line) /\ Tail(down[c]) \in Seq(Line)
      BY <2>1, Types
    <3>2. Len(Tail(down[c])) <= Len(down[c]) /\ Len(down[c]) <= SockCap
      BY <1>a, <2>1, <3>1
    <3>3. Len(Tail(down[c])) <= SockCap
      BY <3>1, <3>2, CapAssumption
    <3>4. QED
      BY <2>1, <3>1, <3>3, BeatsTail, BeatsType
  <2>3. chan[c] + Beats(down[c]) = owed[c]
    BY <2>1 DEF Inv, Accounted
  <2>4. \/ chan[c] < ChanCap /\ chan' = [chan EXCEPT ![c] = @ + 1] /\ owed' = owed
        \/ owed' = [owed EXCEPT ![c] = @ - 1] /\ chan' = chan
    BY <1>3 DEF ReaderMsg
  <2>5. \/ chan'[c] = chan[c] + 1 /\ owed'[c] = owed[c]
        \/ chan'[c] = chan[c] /\ owed'[c] = owed[c] - 1
    BY <2>4, Types
  <2>6. chan' \in [Client -> 0..ChanCap] /\ owed' \in [Client -> 0..MaxTriggers]
    <3>1. owed[c] - 1 \in 0..MaxTriggers
      BY <2>2, <2>3, Types, TriggerAssumption, CapAssumption
    <3>2. chan[c] < ChanCap => chan[c] + 1 \in 0..ChanCap
      BY Types, CapAssumption
    <3>3. QED
      BY <2>4, <3>1, <3>2, Types
  <2>7. \A d \in Client \ {c} : chan'[d] = chan[d] /\ owed'[d] = owed[d]
    BY <2>4, Types
  <2>8. CASE ReaderReturns(c)
    <3>1. /\ worker'[c] = "closed" /\ down'[c] = << >> /\ cOpen' = cOpen \ {c}
          /\ \A d \in Client \ {c} : worker'[d] = worker[d] /\ down'[d] = down[d]
          /\ worker' \in [Client -> {"off", "dialled", "reading", "closed", "failed", "exited"}]
          /\ down' \in [Client -> Seq(Line)] /\ \A d \in Client : Len(down'[d]) <= SockCap
      BY <1>a, <2>8, Types DEF ReaderReturns
    <3>2. TypeOK'
      BY <1>1, <1>a, <2>1, <2>6, <3>1
    <3>3. ASSUME NEW d \in Client
          PROVE  (Accounted(d) /\ OncePerCall(d) /\ NotRegistered(d))'
      <4>1. CASE d = c
        BY <2>1, <2>2, <2>3, <2>5, <3>1, <4>1, BeatsEmpty, Types
           DEF Inv, Accounted, OncePerCall, NotRegistered
      <4>2. CASE d # c
        BY <2>1, <2>7, <3>1, <4>2 DEF Inv, Accounted, OncePerCall, NotRegistered
      <4>3. QED
        BY <4>1, <4>2
    <3>4. QED
      BY <3>2, <3>3 DEF Inv
  <2>9. CASE down' = [down EXCEPT ![c] = Tail(@)] /\ UNCHANGED <<worker, cOpen>>
    <3>1. /\ down'[c] = Tail(down[c]) /\ \A d \in Client \ {c} : down'[d] = down[d]
          /\ down' \in [Client -> Seq(Line)]
      BY <2>2, <2>9, Types
    <3>2. \A d \in Client : Len(down'[d]) <= SockCap
      BY <1>a, <2>2, <3>1
    <3>3. TypeOK'
      BY <1>1, <1>a, <2>1, <2>6, <2>9, <3>1, <3>2, Types
    <3>4. ASSUME NEW d \in Client
          PROVE  (Accounted(d) /\ OncePerCall(d) /\ NotRegistered(d))'
      <4>1. CASE d = c
        <5>1. /\ chan[c] \in Nat /\ owed[c] \in Nat /\ triggers \in Nat
              /\ owed[c] <= triggers /\ (c \in todo => owed[c] < triggers)
          BY Types, CapAssumption, TriggerAssumption DEF Inv, OncePerCall
        <5>2. chan'[c] + Beats(down'[c]) = owed'[c] /\ owed'[c] \in Int
          <6>1. Beats(down'[c]) = Beats(Tail(down[c]))
            BY <3>1
          <6>2. Beats(down[c]) = Beats(down'[c]) + 1 /\ Beats(down'[c]) \in Nat
            BY <2>2, <6>1
          <6>3. QED
            BY <2>3, <2>5, <5>1, <6>2
        <5>3. owed'[c] <= triggers /\ (c \in todo => owed'[c] < triggers)
          BY <2>5, <5>1
        <5>4. Accounted(c)'
          BY <5>2, <2>2, <2>5, <3>1, <5>1 DEF Accounted
        <5>5. QED
          BY <2>1, <2>9, <4>1, <5>3, <5>4 DEF OncePerCall, NotRegistered
      <4>2. CASE d # c
        BY <2>1, <2>7, <2>9, <3>1, <4>2 DEF Inv, Accounted, OncePerCall, NotRegistered
      <4>3. QED
        BY <4>1, <4>2
    <3>5. QED
      BY <3>3, <3>4 DEF Inv
  <2>10. QED
    BY <1>3, <2>8, <2>9 DEF ReaderMsg
<1>4. QED
  BY <1>2, <1>3 DEF ReaderStep

\* A worker's coordinator keeps the invariant, it takes a beat from the channel; and
\* so does its cancellation.
LEMMA CoordInv ==
  ASSUME Inv, NEW c \in Client, CoordStep(c) \/ CtxCancel(c)
  PROVE  Inv'
<1>1. CASE BurstEnds(c) \/ CoordStops(c) \/ CoordChannelClosed(c) \/ CtxCancel(c)
  <2>1. TypeOK'
    BY <1>1 DEF Inv, TypeOK, BurstEnds, CoordStops, CoordChannelClosed, CtxCancel, unaffected,
                connVars, triggerVars, closeVars, mapVars
  <2>2. UNCHANGED <<chan, down, owed, triggers, worker, todo, up>>
    BY <1>1 DEF BurstEnds, CoordStops, CoordChannelClosed, CtxCancel, unaffected, connVars,
                triggerVars
  <2>3. QED
    BY <2>1, <2>2, QuietStep DEF Inv
<1>2. CASE CoordBurst(c)
  <2>1. /\ UNCHANGED <<triggers, worker, todo, up, down>> /\ chan[c] > 0
        /\ chan' = [chan EXCEPT ![c] = @ - 1] /\ owed' = [owed EXCEPT ![c] = @ - 1]
    BY <1>2 DEF CoordBurst, Receiving, unaffected, connVars, triggerVars
  <2>2. chan[c] <= owed[c]
    BY Types DEF Inv, Accounted
  <2>3. chan[c] - 1 \in 0..ChanCap /\ owed[c] - 1 \in 0..MaxTriggers
    BY <2>1, <2>2, Types, TriggerAssumption, CapAssumption
  <2>4. chan' \in [Client -> 0..ChanCap] /\ owed' \in [Client -> 0..MaxTriggers]
    BY <2>1, <2>3, Types
  <2>5. TypeOK'
    BY <1>2, <2>4 DEF Inv, TypeOK, CoordBurst, unaffected, connVars, triggerVars, closeVars, mapVars
  <2>6. ASSUME NEW d \in Client
        PROVE  (Accounted(d) /\ OncePerCall(d) /\ NotRegistered(d))'
    <3>1. CASE d = c
      <4>1. chan'[c] = chan[c] - 1 /\ owed'[c] = owed[c] - 1
        BY <2>1, Types
      <4>2. QED
        BY <2>1, <3>1, <4>1, Types DEF Inv, Accounted, OncePerCall, NotRegistered
    <3>2. CASE d # c
      <4>1. chan'[d] = chan[d] /\ owed'[d] = owed[d]
        BY <2>1, <3>2, Types
      <4>2. QED
        BY <2>1, <4>1 DEF Inv, Accounted, OncePerCall, NotRegistered
    <3>3. QED
      BY <3>1, <3>2
  <2>7. QED
    BY <2>5, <2>6 DEF Inv
<1>3. QED
  BY <1>1, <1>2 DEF CoordStep

-----------------------------------------------------------------------------
(* The theorems *)

\* The invariant holds of every behaviour of the protocol.
LEMMA InvAlways == Spec => []Inv
<1>1. ASSUME Inv, [Next]_vars
      PROVE  Inv'
  <2>1. CASE UNCHANGED vars
    <3>1. TypeOK'
      BY <1>1, <2>1 DEF Inv, TypeOK, vars, mapVars, triggerVars, closeVars, connVars, workerVars
    <3>2. UNCHANGED <<chan, down, owed, triggers, worker, todo, up>>
      BY <2>1 DEF vars, triggerVars, connVars, workerVars
    <3>3. QED
      BY <1>1, <3>1, <3>2, QuietStep DEF Inv
  <2>2. ASSUME NEW c \in Client, ServeStep(c) \/ ConnectStep(c) \/ ReaderStep(c) \/ CoordStep(c)
                                   \/ CtxCancel(c) \/ WorkerExit(c)
        PROVE  Inv'
    BY <1>1, <2>2, ServeInv, ConnectInv, ReaderInv, CoordInv
  <2>3. CASE Exit
    BY <1>1, <2>3, GoneInv DEF Exit
  <2>4. QED
    BY <1>1, <2>1, <2>2, <2>3, TriggerInv, CloseInv DEF Next
<1>2. QED
  BY <1>1, InitInv, PTL DEF Spec

\* The variables have their types: in particular the channel holds at most its
\* capacity, the socket at most its buffer, and the number of beats owed to a
\* worker never drops below zero.
THEOREM TypeCorrect == Spec => []TypeOK
BY InvAlways, PTL DEF Inv

\* A RECONCILE that was written to a worker is under way, in the channel, taken
\* or dropped: none is invented, lost or handled twice as long as the worker
\* reads, for any number of workers, whatever fails (sync.go 110-128, 180-215).
THEOREM BeatsAccounted == Spec => []EveryBeatAccounted
<1>1. ASSUME Inv
      PROVE  EveryBeatAccounted
  <2>1. \A c \in Client : InFlight(c) = Beats(down[c])
    BY DEF InFlight, Beats
  <2>2. QED
    BY <1>1, <2>1 DEF Inv, Accounted, EveryBeatAccounted
<1>2. QED
  BY <1>1, InvAlways, PTL
=============================================================================
