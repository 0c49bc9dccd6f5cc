-------------------------- MODULE WsServer_proofs --------------------------
(***************************************************************************)
(* Theorems about the server of the LCD viewer, for any clients, periods,  *)
(* loops and frames.  The source follows the calls that wait for the       *)
(* dumper: what counts is the state that it will be in when it has served  *)
(* them all.  The lock keeps the handlers apart that start and stop it,    *)
(* and the frames go to the clients by way of the one loop that is alive.  *)
(***************************************************************************)
EXTENDS WsServer, FiniteSetTheorems, SequenceTheorems, TLAPS

Requests == [by : Callers, op : {"start", "stop"}, period : Periods]

Inside == {"starting", "hello", "serving", "control", "unregistering"}

(* The clients are those whose handlers are between their registration and *)
(* its end, and the count is theirs.                                       *)
Counted ==
    /\ at \in [Clients -> Inside \cup {"out", "registering", "stopping"}]
    /\ clients \subseteq Clients
    /\ \A c \in Clients : c \in clients <=> at[c] \in Inside
    /\ IsFiniteSet(clients) /\ count = Cardinality(clients)

PeriodsOK == calls \in Seq(Requests) /\ period \in Periods /\ period_ms \in Periods

(* When all calls are served, the source is off.                           *)
EndsOff == IF calls = <<>> THEN run = "off" ELSE calls[Len(calls)].op = "stop"

(* When all calls are served, the source runs with the period that was set *)
(* last, if it runs.                                                       *)
EndsInPeriod ==
    /\ \A i \in 1 .. Len(calls) :
        /\ calls[i].op = "start"
        /\ \A j \in i + 1 .. Len(calls) : calls[j].op = "stop"
        => calls[i].period = period_ms
    /\ run = "on" /\ (\A i \in 1 .. Len(calls) : calls[i].op = "stop") => period = period_ms

DumperSteps == Serve \/ Ends \/ Drains \/ Publish

(* A server of calls keeps to what the calls say.                          *)
LEMMA DumperKeeps ==
    ASSUME PeriodsOK, DumperSteps, UNCHANGED period_ms
    PROVE  /\ PeriodsOK'
           /\ EndsOff => EndsOff'
           /\ EndsInPeriod => EndsInPeriod'
<1>1. CASE Serve
  <2>1. calls # <<>> /\ calls \in Seq(Requests) /\ Len(calls) \in Nat \ {0}
    BY <1>1 DEF Serve, TurnOff, StaysOff, TurnOn, SpawnFails, Serving, PeriodsOK
  <2>2. /\ Head(calls) = calls[1] /\ calls[1] \in Requests
        /\ Tail(calls) \in Seq(Requests) /\ Len(Tail(calls)) = Len(calls) - 1
        /\ \A i \in 1 .. Len(calls) - 1 : Tail(calls)[i] = calls[i + 1]
        /\ Tail(calls) = <<>> <=> Len(calls) = 1
    <3>1. /\ Tail(calls) \in Seq(Requests) /\ Len(Tail(calls)) = Len(calls) - 1
          /\ \A i \in 1 .. Len(Tail(calls)) : Tail(calls)[i] = calls[i + 1]
      BY <2>1, HeadTailProperties
    <3>2. Head(calls) = calls[1] /\ calls[1] \in Requests
      BY <2>1, ElementOfSeq
    <3>3. Tail(calls) = <<>> <=> Len(calls) = 1
      <4>1. Len(<<>>) = 0 /\ (Tail(calls) # <<>> => Len(Tail(calls)) # 0)
        BY <3>1, EmptySeq
      <4>2. Len(calls) - 1 = 0 <=> Len(calls) = 1
        BY <2>1
      <4>3. QED
        BY <3>1, <4>1, <4>2
    <3>4. QED
      BY <3>1, <3>2, <3>3
  <2>3. calls' = calls \/ calls' = Tail(calls)
    BY <1>1 DEF Serve, TurnOff, StaysOff, TurnOn, SpawnFails
  <2>4. PeriodsOK'
    BY <1>1, <2>1, <2>2, <2>3 DEF PeriodsOK, Serve, TurnOff, StaysOff, TurnOn, SpawnFails, Requests
  <2>5. ASSUME EndsOff PROVE EndsOff'
    <3>1. calls[Len(calls)].op = "stop"
      BY <2>1, <2>5 DEF EndsOff
    <3>2. CASE calls' = calls
      BY <2>1, <3>1, <3>2 DEF EndsOff
    <3>3. CASE calls' = Tail(calls) /\ Len(calls) # 1
      <4>1. calls'[Len(calls')] = calls[Len(calls)] /\ calls' # <<>>
        BY <2>1, <2>2, <3>3
      <4>2. QED
        BY <3>1, <4>1 DEF EndsOff
    <3>4. CASE calls' = Tail(calls) /\ Len(calls) = 1
      <4>1. calls' = <<>> /\ Head(calls).op = "stop" /\ calls' # calls
        BY <2>1, <2>2, <3>1, <3>4
      <4>2. run' = "off"
        BY <1>1, <4>1 DEF Serve, TurnOff, StaysOff, TurnOn, SpawnFails, Serving
      <4>3. QED
        BY <4>1, <4>2 DEF EndsOff
    <3>5. QED
      BY <2>3, <3>2, <3>3, <3>4
  <2>6. ASSUME EndsInPeriod PROVE EndsInPeriod'
    <3>1. CASE TurnOff /\ calls' = calls
      BY <3>1, <2>6 DEF EndsInPeriod, TurnOff
    <3>2. CASE calls' = Tail(calls)
      <4>1. ASSUME NEW i \in 1 .. Len(calls'), calls'[i].op = "start",
                   \A j \in i + 1 .. Len(calls') : calls'[j].op = "stop"
            PROVE  calls'[i].period = period_ms
        <5>1. i + 1 \in 1 .. Len(calls) /\ calls[i + 1] = calls'[i]
          BY <2>1, <2>2, <3>2
        <5>2. ASSUME NEW j \in i + 2 .. Len(calls) PROVE calls[j].op = "stop"
          <6>1. j - 1 \in i + 1 .. Len(calls') /\ calls'[j - 1] = calls[j]
            BY <2>1, <2>2, <3>2
          <6>2. QED
            BY <4>1, <6>1
        <5>3. QED
          BY <2>6, <4>1, <5>1, <5>2 DEF EndsInPeriod
      <4>2. ASSUME run' = "on", \A i \in 1 .. Len(calls') : calls'[i].op = "stop"
            PROVE  period' = period_ms
        <5>1. ASSUME NEW j \in 2 .. Len(calls) PROVE calls[j].op = "stop"
          <6>1. j - 1 \in 1 .. Len(calls') /\ calls'[j - 1] = calls[j]
            BY <2>1, <2>2, <3>2
          <6>2. QED
            BY <4>2, <6>1
        <5>2. TurnOn
          BY <1>1, <4>2 DEF Serve, TurnOff, StaysOff, SpawnFails, TurnOn
        <5>3. calls[1].op = "start" /\ period' = calls[1].period
          BY <2>2, <5>2 DEF TurnOn, Serving
        <5>4. QED
          BY <2>1, <2>6, <5>1, <5>3 DEF EndsInPeriod
      <4>3. QED
        BY <4>1, <4>2 DEF EndsInPeriod
    <3>3. QED
      BY <1>1, <3>1, <3>2 DEF Serve, TurnOff, StaysOff, TurnOn, SpawnFails
  <2>7. QED
    BY <2>4, <2>5, <2>6
<1>2. CASE Ends \/ Drains \/ Publish
  <2>1. /\ calls' = calls /\ period' = period
        /\ run' = run \/ (run = "on" /\ run' = "ended")
    BY <1>2 DEF Ends, Drains, Publish
  <2>2. QED
    BY <2>1 DEF PeriodsOK, EndsOff, EndsInPeriod
<1>3. QED
  BY <1>1, <1>2 DEF DumperSteps

(* So does whoever calls, when it asks for what the clients are due.       *)
LEMMA CallKeeps ==
    ASSUME PeriodsOK, NEW c \in Callers, NEW op \in {"start", "stop"}, NEW ms \in Periods,
           Call(c, op, ms), period_ms' \in Periods
    PROVE  /\ PeriodsOK'
           /\ op = "stop" => EndsOff'
           /\ op = "start" /\ period_ms' = ms => EndsInPeriod'
           /\ op = "stop" /\ period_ms' = period_ms /\ EndsInPeriod => EndsInPeriod'
<1>. DEFINE r == Request(c, op, ms)
            n == Len(calls)
<1>1. r \in Requests /\ r.op = op /\ r.period = ms /\ calls \in Seq(Requests) /\ n \in Nat
  BY DEF Request, Requests, PeriodsOK
<1>2. /\ calls' \in Seq(Requests) /\ calls' # <<>> /\ Len(calls') = n + 1
      /\ \A i \in 1 .. n : calls'[i] = calls[i]
      /\ calls'[n + 1] = r
      /\ run' = run /\ period' = period
  BY <1>1 DEF Call
<1>3. PeriodsOK' /\ (op = "stop" => EndsOff')
  BY <1>1, <1>2 DEF PeriodsOK, EndsOff
<1>4. ASSUME op = "start", period_ms' = ms PROVE EndsInPeriod'
  <2>1. ASSUME NEW i \in 1 .. n + 1, \A j \in i + 1 .. n + 1 : calls'[j].op = "stop"
        PROVE  i = n + 1
    BY <1>1, <1>2, <1>4, <2>1
  <2>2. ~(\A i \in 1 .. n + 1 : calls'[i].op = "stop")
    BY <1>1, <1>2, <1>4
  <2>3. QED
    BY <1>1, <1>2, <1>4, <2>1, <2>2 DEF EndsInPeriod
<1>5. ASSUME op = "stop", period_ms' = period_ms, EndsInPeriod PROVE EndsInPeriod'
  <2>1. ASSUME NEW i \in 1 .. n + 1, calls'[i].op = "start",
               \A j \in i + 1 .. n + 1 : calls'[j].op = "stop"
        PROVE  calls'[i].period = period_ms
    <3>1. i \in 1 .. n
      BY <1>1, <1>2, <1>5, <2>1
    <3>2. \A j \in i + 1 .. n : calls[j].op = "stop"
      BY <1>1, <1>2, <2>1, <3>1
    <3>3. QED
      BY <1>2, <1>5, <2>1, <3>1, <3>2 DEF EndsInPeriod
  <2>2. (\A i \in 1 .. n + 1 : calls'[i].op = "stop") => \A i \in 1 .. n : calls[i].op = "stop"
    BY <1>1, <1>2
  <2>3. QED
    BY <1>2, <1>5, <2>1, <2>2 DEF EndsInPeriod
<1>6. QED
  BY <1>3, <1>4, <1>5

-----------------------------------------------------------------------------
IInv == Counted /\ PeriodsOK /\ EndsInPeriod /\ (clients = {} => EndsOff)

LEMMA ServerInit == Init => IInv
<1>. SUFFICES ASSUME Init PROVE IInv
  OBVIOUS
<1>1. calls = <<>> /\ run = "off" /\ clients = {} /\ count = 0
      /\ period \in Periods /\ period_ms = period
  BY DEF Init, DumperInit
<1>2. Counted
  BY <1>1, FS_EmptySet DEF Init, Counted, Inside
<1>3. calls \in Seq(Requests) /\ Len(calls) = 0
  BY <1>1, EmptySeq
<1>4. PeriodsOK /\ EndsInPeriod /\ EndsOff
  BY <1>1, <1>3 DEF PeriodsOK, EndsInPeriod, EndsOff
<1>5. QED
  BY <1>2, <1>4 DEF IInv

LEMMA ServerStep == IInv /\ [Next]_vars => IInv'
<1>. SUFFICES ASSUME IInv, [Next]_vars PROVE IInv'
  OBVIOUS
<1>. USE DEF IInv
<1>1. ASSUME UNCHANGED <<calls, run, period, at, clients, count, period_ms>> PROVE IInv'
  BY <1>1 DEF Counted, PeriodsOK, EndsInPeriod, EndsOff
(* A handler moves on, and the clients are the same.                       *)
<1>2. ASSUME UNCHANGED <<calls, run, period, clients, count, period_ms>>,
             NEW c \in Clients, NEW a \in Inside \cup {"out", "registering", "stopping"}, at' = [at EXCEPT ![c] = a],
             (at[c] \in Inside) <=> (a \in Inside)
      PROVE  IInv'
  <2>1. Counted'
    BY <1>2 DEF Counted
  <2>2. QED
    BY <1>2, <2>1 DEF PeriodsOK, EndsInPeriod, EndsOff
<1>3. ASSUME NEW c \in Clients, Connect(c) \/ Started(c) \/ Hello(c) \/ Controlled(c)
                                 \/ ConnectionClosed(c) \/ Stopped(c)
      PROVE  IInv'
  BY <1>2, <1>3 DEF Connect, Started, Hello, Controlled, ConnectionClosed, Stopped,
     Goes, dumperVars, Inside
<1>4. ASSUME NEW c \in Clients, Register(c) PROVE IInv'
  <2>1. /\ at[c] = "registering" /\ clients' = clients \cup {c} /\ count' = count + 1
        /\ at' = [at EXCEPT ![c] = "starting"] \/ at' = [at EXCEPT ![c] = "hello"]
        /\ period_ms' = period_ms
    BY <1>4 DEF Register, Goes
  <2>2. Counted'
    <3>1. c \notin clients /\ IsFiniteSet(clients') /\ Cardinality(clients') = Cardinality(clients) + 1
      BY <2>1, FS_AddElement DEF Counted, Inside
    <3>2. QED
      BY <2>1, <3>1 DEF Counted, Inside
  <2>3. CASE Call(c, "start", period_ms)
    BY <2>1, <2>2, <2>3, CallKeeps, WsAssumption DEF PeriodsOK
  <2>4. CASE UNCHANGED dumperVars
    BY <2>1, <2>2, <2>4 DEF dumperVars, PeriodsOK, EndsInPeriod
  <2>5. QED
    BY <1>4, <2>3, <2>4 DEF Register
<1>5. ASSUME NEW c \in Clients, NEW ms \in Periods, SetPeriod(c, ms) PROVE IInv'
  <2>1. /\ at[c] = "serving" /\ at' = [at EXCEPT ![c] = "control"]
        /\ UNCHANGED <<clients, count>> /\ Call(c, "start", ms) /\ period_ms' = ms
    BY <1>5 DEF SetPeriod, Goes
  <2>2. Counted' /\ c \in clients'
    BY <2>1 DEF Counted, Inside
  <2>3. QED
    BY <2>1, <2>2, CallKeeps, WsAssumption
<1>6. ASSUME NEW c \in Clients, Unregister(c) PROVE IInv'
  <2>1. /\ at[c] = "unregistering" /\ clients' = clients \ {c} /\ count' = count - 1
        /\ at' = [at EXCEPT ![c] = "stopping"] \/ at' = [at EXCEPT ![c] = "out"]
        /\ period_ms' = period_ms
    BY <1>6 DEF Unregister, Goes
  <2>2. /\ IsFiniteSet(clients') /\ count' = Cardinality(clients')
        /\ Counted'
    <3>1. c \in clients /\ IsFiniteSet(clients') /\ Cardinality(clients') = Cardinality(clients) - 1
      BY <2>1, FS_RemoveElement DEF Counted, Inside
    <3>2. QED
      BY <2>1, <3>1 DEF Counted, Inside
  <2>3. CASE Call(c, "stop", period_ms)
    BY <2>1, <2>2, <2>3, CallKeeps, WsAssumption DEF PeriodsOK
  <2>4. CASE count' > 0 /\ UNCHANGED dumperVars
    <3>1. clients' # {}
      BY <2>2, <2>4, FS_EmptySet
    <3>2. QED
      BY <2>1, <2>2, <2>4, <3>1 DEF dumperVars, PeriodsOK, EndsInPeriod
  <2>5. count' \in Int
    BY <2>2, FS_CardinalityType
  <2>6. QED
    BY <1>6, <2>3, <2>4, <2>5 DEF Unregister
<1>7. CASE ServeCall \/ PublishFrame \/ Source
  <2>1. DumperSteps /\ UNCHANGED <<at, clients, count, period_ms>>
    BY <1>7 DEF ServeCall, PublishFrame, Source, DumperSteps, Serve, handlerVars, serverVars
  <2>2. QED
    BY <2>1, DumperKeeps DEF Counted
<1>8. CASE LoopOver
  <2>1. Call(Main, "stop", period) /\ UNCHANGED <<at, clients, count, period_ms>>
    BY <1>8 DEF LoopOver, handlerVars
  <2>2. QED
    BY <2>1, CallKeeps, WsAssumption DEF Counted, PeriodsOK
<1>9. CASE \E l \in Loops : _broadcast_loop(l)
  BY <1>1, <1>9 DEF _broadcast_loop, Wake, Take, Send, SentAll, handlerVars, dumperVars
<1>10. CASE Sigint \/ Closed \/ Over \/ \E c \in Clients : Disconnect(c)
  BY <1>1, <1>10 DEF Sigint, Closed, Over, Disconnect, handlerVars, dumperVars
<1>11. CASE UNCHANGED vars
  BY <1>1, <1>11 DEF vars, serverVars, handlerVars, dumperVars
<1>12. QED
  BY <1>3, <1>4, <1>5, <1>6, <1>7, <1>8, <1>9, <1>10, <1>11 DEF Next, _handler, _main

(* The probe is left alone when nobody watches, however many clients come  *)
(* and go, and whatever the dumper does in between: the source is off      *)
(* whenever no client is registered and no call is under way.              *)
THEOREM UnwatchedIsOff == Spec => []OffWhenUnwatched
<1>1. IInv => OffWhenUnwatched
  BY DEF IInv, EndsOff, OffWhenUnwatched, Quiet
<1>2. QED
  BY <1>1, ServerInit, ServerStep, PTL DEF Spec

(* Of several clients that set the period, the last one has its way: no    *)
(* order of the restarts, failed ones included, leaves an earlier period.  *)
THEOREM PeriodIsTheLast == Spec => []LastPeriodWins
<1>1. IInv => LastPeriodWins
  BY EmptySeq DEF IInv, EndsInPeriod, LastPeriodWins
<1>2. QED
  BY <1>1, ServerInit, ServerStep, PTL DEF Spec

-----------------------------------------------------------------------------
Calling == {"starting", "control", "stopping"}
ServerIsDown == phase \in {"closed", "stopping", "over"}

LoopRecords == [pc : {"done", "wait", "woken", "send"}, last : Nat, todo : SUBSET Clients]

(* Only a handler that waits for it has a call at the dumper, no handler   *)
(* is left once the server is down, and only one loop can be alive.        *)
DownInv ==
    /\ \A c \in Clients : InCall(c) => at[c] \in Calling
    /\ InCall(Main) => phase = "stopping"
    /\ ServerIsDown => \A c \in Clients : at[c] = "out"
    /\ phase \in {"stopping", "over"} => task = 0
    /\ latest \in Nat /\ published \in Nat
    /\ loop \in [Loops -> LoopRecords] /\ task \in Loops \cup {0}
    /\ \A l \in Loops : l # task => IsDone(l)

LEMMA DownInit == Init => DownInv
BY WsAssumption DEF Init, DumperInit, DownInv, InCall, ServerIsDown, LoopRecords, Done, IsDone

(* The calls that are under way are those of before and the one just made. *)
LEMMA CallIsOnes ==
    ASSUME PeriodsOK, NEW c \in Callers, NEW op, NEW ms, Call(c, op, ms)
    PROVE  \A d \in Callers : InCall(d)' => InCall(d) \/ d = c
<1>1. /\ calls' = Append(calls, Request(c, op, ms)) /\ calls \in Seq(Requests)
      /\ Len(calls) \in Nat
  BY DEF Call, PeriodsOK
<1>2. ASSUME NEW d \in Callers, NEW i \in 1 .. Len(calls) + 1, calls'[i].by = d
      PROVE  InCall(d) \/ d = c
  <2>1. CASE i = Len(calls) + 1
    BY <1>1, <1>2, <2>1 DEF Request
  <2>2. CASE i \in 1 .. Len(calls)
    <3>1. calls'[i] = calls[i] /\ i \in DOMAIN calls
      BY <1>1, <2>2
    <3>2. QED
      BY <1>2, <3>1 DEF InCall
  <2>3. QED
    BY <1>1, <2>1, <2>2
<1>3. DOMAIN calls' = 1 .. Len(calls) + 1
  BY <1>1
<1>4. QED
  BY <1>2, <1>3 DEF InCall

LEMMA ServedIsGone ==
    ASSUME PeriodsOK, DumperSteps
    PROVE  \A d \in Callers : InCall(d)' => InCall(d)
<1>1. calls' = calls \/ (calls # <<>> /\ calls' = Tail(calls))
  BY DEF DumperSteps, Serve, Ends, Drains, Publish, TurnOff, StaysOff, TurnOn, SpawnFails, Serving
<1>2. CASE calls # <<>> /\ calls' = Tail(calls)
  <2>1. /\ Tail(calls) \in Seq(Requests) /\ Len(Tail(calls)) = Len(calls) - 1
        /\ \A i \in 1 .. Len(Tail(calls)) : Tail(calls)[i] = calls[i + 1]
    BY <1>2, HeadTailProperties DEF PeriodsOK
  <2>2. ASSUME NEW d \in Callers, NEW i \in DOMAIN calls', calls'[i].by = d PROVE InCall(d)
    <3>1. i \in 1 .. Len(Tail(calls)) /\ Len(calls) \in Nat
      BY <1>2, <2>1, <2>2 DEF PeriodsOK
    <3>2. i + 1 \in DOMAIN calls /\ calls[i + 1].by = d
      BY <1>2, <2>1, <2>2, <3>1 DEF PeriodsOK
    <3>3. QED
      BY <3>2 DEF InCall
  <2>3. QED
    BY <2>2 DEF InCall
<1>3. QED
  BY <1>1, <1>2 DEF InCall

LEMMA DownStep == IInv /\ DownInv /\ [Next]_vars => DownInv'
<1>. SUFFICES ASSUME IInv, DownInv, [Next]_vars PROVE DownInv'
  OBVIOUS
<1>. USE WsAssumption
(* The loops, when at most the one of _state_task changes.                 *)
<1>1. ASSUME UNCHANGED <<calls, at, phase, task>>, latest' \in Nat, published' \in Nat,
             loop' \in [Loops -> LoopRecords],
             \A l \in Loops : l # task => loop'[l] = loop[l]
      PROVE  DownInv'
  BY <1>1 DEF DownInv, InCall, ServerIsDown, IsDone
<1>2. ASSUME NEW l \in Loops, _broadcast_loop(l) PROVE DownInv'
  <2>1. UNCHANGED <<calls, at, phase, task, latest, published>>
    BY <1>2 DEF _broadcast_loop, Wake, Take, Send, SentAll, dumperVars, handlerVars
  <2>2. ~IsDone(l)
    BY <1>2 DEF _broadcast_loop, Wake, Take, Send, SentAll, IsDone, Done
  <2>3. clients \subseteq Clients /\ loop[l] \in LoopRecords /\ Done \in LoopRecords
    BY DEF IInv, Counted, DownInv, LoopRecords, Done
  <2>4. \E r \in LoopRecords : loop' = [loop EXCEPT ![l] = r]
    <3>1. CASE Wake(l)
      <4>1. loop' = [loop EXCEPT ![l] = [loop[l] EXCEPT !.pc = "woken"]]
        BY <3>1 DEF Wake, Becomes, DownInv
      <4>2. [loop[l] EXCEPT !.pc = "woken"] \in LoopRecords
        BY <2>3 DEF LoopRecords
      <4>3. QED
        BY <4>1, <4>2
    <3>2. ASSUME Again(l) PROVE \E r \in LoopRecords : loop' = [loop EXCEPT ![l] = r]
      <4>1. \/ loop' = [loop EXCEPT ![l] = [loop[l] EXCEPT !.pc = "wait"]]
            \/ loop' = [loop EXCEPT ![l] = Done]
        BY <3>2 DEF Again, Becomes, DownInv
      <4>2. [loop[l] EXCEPT !.pc = "wait"] \in LoopRecords
        BY <2>3 DEF LoopRecords
      <4>3. QED
        BY <2>3, <4>1, <4>2
    <3>3. CASE Take(l)
      <4>1. CASE Again(l)
        BY <3>2, <4>1
      <4>2. CASE loop' = [loop EXCEPT ![l] = [pc |-> "send", last |-> latest, todo |-> clients]]
        <5>1. [pc |-> "send", last |-> latest, todo |-> clients] \in LoopRecords
          BY <2>3 DEF LoopRecords, DownInv
        <5>2. QED
          BY <4>2, <5>1
      <4>3. QED
        BY <3>3, <4>1, <4>2 DEF Take
    <3>4. ASSUME NEW c \in Clients, Send(l, c)
          PROVE  \E r \in LoopRecords : loop' = [loop EXCEPT ![l] = r]
      <4>1. loop' = [loop EXCEPT ![l] = [loop[l] EXCEPT !.todo = @ \ {c}]]
        BY <3>4 DEF Send, DownInv
      <4>2. [loop[l] EXCEPT !.todo = @ \ {c}] \in LoopRecords
        BY <2>3 DEF LoopRecords
      <4>3. QED
        BY <4>1, <4>2
    <3>5. CASE SentAll(l)
      BY <3>2, <3>5 DEF SentAll
    <3>6. QED
      BY <1>2, <3>1, <3>3, <3>4, <3>5 DEF _broadcast_loop
  <2>5. loop' \in [Loops -> LoopRecords] /\ \A m \in Loops : m # task => loop'[m] = loop[m]
    BY <2>2, <2>4 DEF DownInv
  <2>6. QED
    BY <1>1, <2>1, <2>5 DEF DownInv
<1>3. CASE ServeCall \/ PublishFrame \/ Source
  <2>1. DumperSteps /\ UNCHANGED <<at, phase, task, loop>>
    BY <1>3 DEF ServeCall, PublishFrame, Source, DumperSteps, Serve, serverVars, handlerVars, loopVars
  <2>2. latest' \in Nat /\ published' \in Nat
    BY <2>1 DEF DumperSteps, Serve, TurnOff, StaysOff, TurnOn, SpawnFails, Ends, Drains, Publish, DownInv
  <2>3. QED
    BY <2>1, <2>2, ServedIsGone DEF IInv, DownInv, ServerIsDown, IsDone
(* A handler takes a step; a handler that has a call does not give it up.  *)
<1>4. ASSUME NEW c \in Clients, NEW a, at' = [at EXCEPT ![c] = a],
             UNCHANGED <<phase, latest, published>>,
             \A d \in Callers : InCall(d)' => InCall(d) \/ (d = c /\ a \in Calling),
             InCall(c)' => a \in Calling,
             at[c] = "out" => phase = "serving",
             loop' \in [Loops -> LoopRecords], task' \in Loops \cup {0},
             phase \in {"stopping", "over"} => task' = task,
             \A l \in Loops : l # task' => IsDone(l)'
      PROVE  DownInv'
  <2>1. at \in [Clients -> Inside \cup {"out", "registering", "stopping"}]
    BY DEF IInv, Counted
  <2>2. \A d \in Clients : InCall(d)' => at'[d] \in Calling
    BY <1>4, <2>1 DEF DownInv
  <2>3. ServerIsDown' => \A d \in Clients : at'[d] = "out"
    BY <1>4, <2>1 DEF DownInv, ServerIsDown
  <2>4. InCall(Main)' => phase' = "stopping"
    BY <1>4 DEF DownInv
  <2>5. QED
    BY <1>4, <2>2, <2>3, <2>4 DEF DownInv
<1>5. ASSUME NEW c \in Clients, Connect(c) \/ Hello(c) \/ Controlled(c) \/ ConnectionClosed(c)
      PROVE  DownInv'
  <2>1. /\ \E a : at' = [at EXCEPT ![c] = a]
        /\ at[c] \notin Calling \/ ~InCall(c)
        /\ at[c] = "out" => phase = "serving"
        /\ UNCHANGED <<calls, phase, latest, published, loop, task>>
    BY <1>5 DEF Connect, Hello, Controlled, ConnectionClosed, Goes, dumperVars, loopVars, Calling
  <2>2. ~InCall(c) /\ \A d \in Callers : InCall(d)' <=> InCall(d)
    BY <2>1 DEF DownInv, InCall
  <2>3. QED
    BY <1>4, <2>1, <2>2 DEF DownInv, IsDone
<1>6. ASSUME NEW c \in Clients, Started(c) PROVE DownInv'
  <2>1. /\ at' = [at EXCEPT ![c] = "hello"] /\ at[c] = "starting" /\ ~InCall(c)
        /\ UNCHANGED <<calls, phase, latest, published>>
    BY <1>6 DEF Started, Goes, dumperVars
  <2>2. ~ServerIsDown
    BY <2>1 DEF DownInv
  <2>3. \A d \in Callers : InCall(d)' <=> InCall(d)
    BY <2>1 DEF InCall
  <2>4. CASE UNCHANGED <<task, loop>>
    BY <1>4, <2>1, <2>2, <2>3, <2>4 DEF DownInv, IsDone
  <2>5. CASE LoopIsDone /\ ~UNCHANGED <<task, loop>>
    <3>1. PICK l \in Loops : task' = l /\ loop' = [loop EXCEPT ![l] = [Done EXCEPT !.pc = "wait"]]
      BY <1>6, <2>5 DEF Started
    <3>2. \A m \in Loops : IsDone(m)
      BY <2>5 DEF LoopIsDone, DownInv
    <3>3. [Done EXCEPT !.pc = "wait"] \in LoopRecords
      BY DEF Done, LoopRecords
    <3>4. /\ loop' \in [Loops -> LoopRecords]
          /\ \A m \in Loops : m # task' => IsDone(m)'
      BY <3>1, <3>2, <3>3 DEF DownInv, IsDone
    <3>5. QED
      BY <1>4, <2>1, <2>2, <2>3, <3>1, <3>4 DEF ServerIsDown
  <2>6. QED
    BY <1>6, <2>4, <2>5 DEF Started
<1>7. ASSUME NEW c \in Clients, NEW op, NEW ms, Call(c, op, ms), NEW a \in Calling,
             at' = [at EXCEPT ![c] = a], at[c] # "out",
             UNCHANGED <<phase, task, loop>>
      PROVE  DownInv'
  <2>1. UNCHANGED <<latest, published>> /\ \A d \in Callers : InCall(d)' => InCall(d) \/ d = c
    BY <1>7, CallIsOnes DEF Call, IInv
  <2>2. QED
    BY <1>4, <1>7, <2>1 DEF DownInv, IsDone
<1>8. ASSUME NEW c \in Clients, Register(c) PROVE DownInv'
  <2>1. at[c] = "registering" /\ UNCHANGED <<phase, task, loop>>
    BY <1>8 DEF Register, Goes, loopVars
  <2>2. CASE Call(c, "start", period_ms) /\ at' = [at EXCEPT ![c] = "starting"]
    BY <1>7, <2>1, <2>2 DEF Calling
  <2>3. CASE UNCHANGED dumperVars /\ at' = [at EXCEPT ![c] = "hello"]
    <3>1. ~InCall(c) /\ \A d \in Callers : InCall(d)' <=> InCall(d)
      BY <2>1, <2>3 DEF DownInv, InCall, dumperVars, Calling
    <3>2. QED
      BY <1>4, <2>1, <2>3, <3>1 DEF DownInv, dumperVars, IsDone
  <2>4. QED
    BY <1>8, <2>2, <2>3 DEF Register, Goes
<1>9. ASSUME NEW c \in Clients, NEW ms \in Periods, SetPeriod(c, ms) PROVE DownInv'
  BY <1>7, <1>9 DEF SetPeriod, Goes, loopVars, Calling
(* The end of a handler takes its client from the targets of the loops.    *)
<1>10. ASSUME NEW c \in Clients, Left(c)
       PROVE  /\ loop' \in [Loops -> LoopRecords]
              /\ \A l \in Loops : IsDone(l) => IsDone(l)'
  <2>1. loop' = [l \in Loops |-> [loop[l] EXCEPT !.todo = @ \ {c}]]
    BY <1>10 DEF Left
  <2>2. \A r \in LoopRecords : [r EXCEPT !.todo = @ \ {c}] \in LoopRecords
    BY DEF LoopRecords
  <2>3. [Done EXCEPT !.todo = @ \ {c}] = Done
    BY DEF Done
  <2>4. QED
    BY <2>1, <2>2, <2>3 DEF DownInv, IsDone
<1>11. ASSUME NEW c \in Clients, Unregister(c) PROVE DownInv'
  <2>1. at[c] = "unregistering" /\ UNCHANGED <<phase, task>>
    BY <1>11 DEF Unregister, Goes
  <2>2. CASE Call(c, "stop", period_ms) /\ at' = [at EXCEPT ![c] = "stopping"] /\ UNCHANGED loop
    BY <1>7, <2>1, <2>2 DEF Calling
  <2>3. CASE UNCHANGED dumperVars /\ at' = [at EXCEPT ![c] = "out"] /\ Left(c)
    <3>1. ~InCall(c) /\ \A d \in Callers : InCall(d)' <=> InCall(d)
      BY <2>1, <2>3 DEF DownInv, InCall, dumperVars, Calling
    <3>2. QED
      BY <1>4, <1>10, <2>1, <2>3, <3>1 DEF DownInv, dumperVars
  <2>4. QED
    BY <1>11, <2>2, <2>3 DEF Unregister, Goes
<1>12. ASSUME NEW c \in Clients, Stopped(c) PROVE DownInv'
  <2>1. /\ at[c] = "stopping" /\ at' = [at EXCEPT ![c] = "out"] /\ ~InCall(c) /\ Left(c)
        /\ UNCHANGED <<calls, phase, task, latest, published>>
    BY <1>12 DEF Stopped, Goes, dumperVars
  <2>2. \A d \in Callers : InCall(d)' <=> InCall(d)
    BY <2>1 DEF InCall
  <2>3. QED
    BY <1>4, <1>10, <2>1, <2>2 DEF DownInv
<1>13. CASE Sigint \/ Over \/ \E c \in Clients : Disconnect(c)
  BY <1>13 DEF Sigint, Over, Disconnect, handlerVars, loopVars, dumperVars, DownInv, InCall,
     ServerIsDown, IsDone
<1>14. CASE Closed
  BY <1>14 DEF Closed, handlerVars, dumperVars, DownInv, InCall, ServerIsDown, IsDone
<1>15. CASE LoopOver
  <2>1. /\ phase = "closed" /\ phase' = "stopping" /\ task' = 0 /\ UNCHANGED <<at, latest, published>>
        /\ loop' = [l \in Loops |-> IF l = task THEN Done ELSE loop[l]]
    BY <1>15 DEF LoopOver, Call, handlerVars
  <2>2. \A d \in Callers : InCall(d)' => InCall(d) \/ d = Main
    BY <1>15, CallIsOnes DEF LoopOver, IInv
  <2>3. \A l \in Loops : loop'[l] = Done
    BY <2>1 DEF DownInv, IsDone
  <2>4. loop' \in [Loops -> LoopRecords] /\ \A l \in Loops : IsDone(l)'
    BY <2>1, <2>3 DEF LoopRecords, Done, IsDone
  <2>5. \A c \in Clients : InCall(c)' => at'[c] \in Calling
    BY <2>1, <2>2 DEF DownInv
  <2>6. QED
    BY <2>1, <2>4, <2>5 DEF DownInv, ServerIsDown
<1>16. CASE UNCHANGED vars
  BY <1>16 DEF vars, serverVars, handlerVars, loopVars, dumperVars, DownInv, InCall, ServerIsDown, IsDone
<1>17. QED
  BY <1>2, <1>3, <1>5, <1>6, <1>8, <1>9, <1>11, <1>12, <1>13, <1>14, <1>15, <1>16
  DEF Next, _handler, _main

(* When _main() returns, no process, no client and no loop is left behind, *)
(* whatever was going on when the signal came.                             *)
THEOREM ShutdownIsComplete == Spec => []ShutdownLeavesNothing
<1>1. IInv /\ DownInv => ShutdownLeavesNothing
  <2>. SUFFICES ASSUME IInv, DownInv, phase = "over"
                PROVE  run = "off" /\ clients = {} /\ \A l \in Loops : IsDone(l)
    BY DEF ShutdownLeavesNothing
  <2>1. \A c \in Clients : at[c] = "out"
    BY DEF DownInv, ServerIsDown
  <2>2. clients = {}
    BY <2>1 DEF IInv, Counted, Inside
  <2>3. \A c \in Callers : ~InCall(c)
    BY <2>1, WsAssumption DEF DownInv, Calling
  <2>4. calls = <<>>
    <3>1. SUFFICES ASSUME calls # <<>> PROVE FALSE
      OBVIOUS
    <3>2. Head(calls) = calls[1] /\ Head(calls) \in Requests /\ 1 \in DOMAIN calls
      BY <3>1, HeadTailProperties, EmptySeq, LenProperties DEF IInv, PeriodsOK
    <3>3. QED
      BY <2>3, <3>2 DEF InCall, Requests
  <2>5. QED
    BY <2>2, <2>4, WsAssumption DEF IInv, EndsOff, DownInv
<1>2. QED
  BY <1>1, ServerInit, ServerStep, DownInit, DownStep, PTL DEF Spec

-----------------------------------------------------------------------------
(* The lock, the loop and the frames.                                      *)

Places == Inside \cup {"out", "registering", "stopping"}
Waiting == {"registering", "starting", "unregistering", "stopping"}

(* Whoever waits for the lock or holds it is in its queue, once; and a     *)
(* handler that has a call of the dumper under way for it is the holder.   *)
LockInv ==
    /\ lock \in Seq(Clients)
    /\ \A i, j \in 1 .. Len(lock) : lock[i] = lock[j] => i = j
    /\ \A c \in Clients : at[c] \in Waiting <=> \E i \in 1 .. Len(lock) : lock[i] = c
    /\ \A c \in Clients : at[c] \in {"starting", "stopping"} => Holds(c)

(* When all calls are served, the source is not off.                       *)
EndsOn ==
    IF calls = <<>> THEN run # "off" \/ missing
    ELSE calls[Len(calls)].op = "start"

SourceInv == clients # {} => EndsOn

(* Who watches has a loop, unless the first client is only about to start  *)
(* it; and a loop that has ended keeps nothing.                            *)
LoopInv ==
    /\ clients # {} /\ (\A c \in Clients : at[c] # "starting") =>
            task # 0 /\ loop[task].pc # "done"
    /\ \A l \in Loops : loop[l].pc = "done" => IsDone(l)

(* Frames are numbered as they are published.                              *)
FramesOK ==
    /\ published \in 0 .. MaxFrames /\ latest \in {0, published}
    /\ \A l \in Loops : loop[l].last \in 0 .. published
    /\ got \in [Clients -> 0 .. published]

(* What TypeOK says besides.                                               *)
FlagsOK ==
    /\ gone \subseteq {c \in Clients : at[c] # "out"}
    /\ run \in {"off", "on", "ended"} /\ stray \in BOOLEAN
    /\ event \in BOOLEAN /\ missing \in BOOLEAN
    /\ phase \in {"serving", "closing", "closed", "stopping", "over"}

(* The clients have nothing that the loop has not taken.  A handler before *)
(* its registration is one of a new connection, which has got nothing.     *)
GotInv ==
    /\ \A c \in Clients : at[c] \in {"out", "registering"} => got[c] = 0
    /\ \A c \in clients : got[c] <= IF task = 0 THEN 0 ELSE loop[task].last

LEMMA LockInit == Init => LockInv
<1>1. Init => lock = <<>> /\ \A c \in Clients : at[c] = "out"
  BY DEF Init
<1>2. <<>> \in Seq(Clients) /\ Len(<<>>) = 0
  BY EmptySeq
<1>3. QED
  BY <1>1, <1>2 DEF LockInv, Waiting

(* A handler gets in line.                                                 *)
LEMMA LockWaits ==
    ASSUME LockInv, NEW c \in Clients, at[c] \notin Waiting, NEW a \in {"registering", "unregistering"},
           at \in [Clients -> Places], at' = [at EXCEPT ![c] = a], Waits(c)
    PROVE  LockInv'
<1>. DEFINE n == Len(lock)
<1>1. /\ n \in Nat /\ lock' \in Seq(Clients) /\ Len(lock') = n + 1 /\ lock'[n + 1] = c
      /\ \A i \in 1 .. n : lock'[i] = lock[i]
      /\ 1 .. n + 1 = 1 .. n \cup {n + 1}
  BY DEF Waits, LockInv
<1>2. \A i \in 1 .. n : lock[i] # c
  BY DEF LockInv
<1>3. \A i, j \in 1 .. n + 1 : lock'[i] = lock'[j] => i = j
  BY <1>1, <1>2 DEF LockInv
<1>4. ASSUME NEW d \in Clients PROVE at'[d] \in Waiting <=> \E i \in 1 .. n + 1 : lock'[i] = d
  BY <1>1 DEF LockInv, Waiting
<1>5. ASSUME NEW d \in Clients, at'[d] \in {"starting", "stopping"} PROVE Holds(d)'
  <2>1. at[d] = at'[d] /\ Holds(d)
    BY <1>5 DEF LockInv
  <2>2. lock # <<>> /\ Head(lock') = Head(lock) /\ lock' # <<>>
    BY <1>1, <2>1, HeadTailAppend DEF Holds, Waits, LockInv
  <2>3. QED
    BY <2>1, <2>2 DEF Holds
<1>6. QED
  BY <1>1, <1>3, <1>4, <1>5 DEF LockInv

(* The holder lets the next one in.                                        *)
LEMMA LockReleases ==
    ASSUME LockInv, NEW c \in Clients, Holds(c), NEW a, a \notin Waiting,
           at \in [Clients -> Places], at' = [at EXCEPT ![c] = a], Releases
    PROVE  LockInv'
<1>. DEFINE n == Len(lock)
<1>1. /\ lock # <<>> /\ lock \in Seq(Clients) /\ n \in Nat \ {0}
      /\ lock[1] = c /\ lock' = Tail(lock)
  BY EmptySeq DEF Holds, Releases, LockInv
<1>2. /\ lock' \in Seq(Clients) /\ Len(lock') = n - 1
      /\ \A i \in 1 .. n - 1 : lock'[i] = lock[i + 1]
  BY <1>1, HeadTailProperties
<1>3. \A i \in 2 .. n : lock[i] # c
  BY <1>1 DEF LockInv
<1>4. ASSUME NEW i \in 1 .. n - 1, NEW j \in 1 .. n - 1, lock'[i] = lock'[j] PROVE i = j
  <2>1. i + 1 \in 1 .. n /\ j + 1 \in 1 .. n /\ lock[i + 1] = lock[j + 1]
    BY <1>1, <1>2, <1>4
  <2>2. i + 1 = j + 1
    BY <2>1 DEF LockInv
  <2>3. QED
    BY <2>2
<1>5. ASSUME NEW d \in Clients PROVE at'[d] \in Waiting <=> \E i \in 1 .. n - 1 : lock'[i] = d
  <2>1. CASE d = c
    <3>1. \A i \in 1 .. n - 1 : i + 1 \in 2 .. n
      BY <1>1
    <3>2. QED
      BY <1>2, <1>3, <2>1, <3>1
  <2>2. CASE d # c
    <3>1. ASSUME NEW i \in 1 .. n, lock[i] = d PROVE \E j \in 1 .. n - 1 : lock'[j] = d
      <4>1. i - 1 \in 1 .. n - 1 /\ (i - 1) + 1 = i
        BY <1>1, <2>2, <3>1
      <4>2. QED
        BY <1>2, <3>1, <4>1
    <3>2. ASSUME NEW j \in 1 .. n - 1, lock'[j] = d PROVE \E i \in 1 .. n : lock[i] = d
      <4>1. j + 1 \in 1 .. n /\ lock[j + 1] = d
        BY <1>1, <1>2, <3>2
      <4>2. QED
        BY <4>1
    <3>3. at'[d] = at[d]
      BY <2>2
    <3>4. QED
      BY <3>1, <3>2, <3>3 DEF LockInv
  <2>3. QED
    BY <2>1, <2>2
<1>6. ASSUME NEW d \in Clients, at'[d] \in {"starting", "stopping"} PROVE Holds(d)'
  BY <1>6 DEF LockInv, Holds, Waiting
<1>7. QED
  BY <1>2, <1>4, <1>5, <1>6 DEF LockInv

(* A handler moves on without touching the lock.                           *)
LEMMA LockKeeps ==
    ASSUME LockInv, NEW c \in Clients, NEW a, at \in [Clients -> Places],
           at' = [at EXCEPT ![c] = a], lock' = lock, at[c] \in Waiting <=> a \in Waiting,
           a \in {"starting", "stopping"} => Holds(c)
    PROVE  LockInv'
BY DEF LockInv, Holds

LEMMA LockStep == IInv /\ LockInv /\ [Next]_vars => LockInv'
<1>. SUFFICES ASSUME IInv, LockInv, [Next]_vars PROVE LockInv'
  OBVIOUS
<1>1. at \in [Clients -> Places]
  BY DEF IInv, Counted, Places
<1>2. ASSUME NEW c \in Clients, Connect(c) \/ ConnectionClosed(c) PROVE LockInv'
  BY <1>1, <1>2, LockWaits DEF Connect, ConnectionClosed, Goes, Waiting
<1>3. ASSUME NEW c \in Clients, Register(c) \/ Unregister(c) PROVE LockInv'
  <2>1. Holds(c) /\ at[c] \in Waiting
    BY <1>3 DEF Register, Unregister, Goes, Waiting
  <2>2. CASE Releases /\ \E a \in {"hello", "out"} : at' = [at EXCEPT ![c] = a]
    BY <1>1, <2>1, <2>2, LockReleases DEF Waiting
  <2>3. CASE lock' = lock /\ \E a \in {"starting", "stopping"} : at' = [at EXCEPT ![c] = a]
    BY <1>1, <2>1, <2>3, LockKeeps DEF Waiting
  <2>4. QED
    BY <1>3, <2>2, <2>3 DEF Register, Unregister, Goes
<1>4. ASSUME NEW c \in Clients, Started(c) \/ Stopped(c) PROVE LockInv'
  <2>1. Holds(c) /\ Releases /\ \E a \in {"hello", "out"} : at' = [at EXCEPT ![c] = a]
    BY <1>4 DEF Started, Stopped, Goes, LockInv
  <2>2. QED
    BY <1>1, <2>1, LockReleases DEF Waiting
<1>5. ASSUME NEW c \in Clients, Hello(c) \/ Controlled(c) \/ \E ms \in Periods : SetPeriod(c, ms)
      PROVE  LockInv'
  <2>1. /\ lock' = lock /\ at[c] \in {"hello", "control", "serving"}
        /\ \E a \in {"serving", "control"} : at' = [at EXCEPT ![c] = a]
    BY <1>5 DEF Hello, Controlled, SetPeriod, Goes
  <2>2. QED
    BY <1>1, <2>1, LockKeeps DEF Waiting
<1>6. ASSUME UNCHANGED <<at, lock>> PROVE LockInv'
  BY <1>6 DEF LockInv, Holds
<1>7. CASE \E l \in Loops : _broadcast_loop(l)
  BY <1>6, <1>7 DEF _broadcast_loop, Wake, Take, Send, SentAll, handlerVars
<1>8. CASE ServeCall \/ PublishFrame \/ Source
  BY <1>6, <1>8 DEF ServeCall, PublishFrame, Source, handlerVars, serverVars
<1>9. CASE Sigint \/ _main \/ \E c \in Clients : Disconnect(c)
  BY <1>6, <1>9 DEF Sigint, _main, Closed, LoopOver, Over, Disconnect, handlerVars
<1>10. CASE UNCHANGED vars
  BY <1>6, <1>10 DEF vars, serverVars, handlerVars
<1>11. QED
  BY <1>2, <1>3, <1>4, <1>5, <1>7, <1>8, <1>9, <1>10 DEF Next, _handler

-----------------------------------------------------------------------------
(* The source.                                                             *)

(* What the dumper serves last is what it was called for last.             *)
LEMMA SourceKeeps ==
    ASSUME PeriodsOK, EndsOn, ServeCall \/ PublishFrame \/ Source
    PROVE  EndsOn'
<1>1. CASE PublishFrame \/ Source
  <2>1. calls' = calls /\ missing' = missing /\ (run # "off" => run' # "off")
    BY <1>1 DEF PublishFrame, Source, Publish, Ends, Drains, serverVars
  <2>2. QED
    BY <2>1 DEF EndsOn
<1>2. CASE ServeCall
  <2>1. /\ calls # <<>> /\ calls \in Seq(Requests) /\ Len(calls) \in Nat \ {0}
        /\ calls[Len(calls)].op = "start"
    BY <1>2, EmptySeq DEF ServeCall, TurnOff, StaysOff, TurnOn, SpawnFails, Serving, PeriodsOK, EndsOn
  <2>2. CASE calls' = calls
    BY <2>1, <2>2 DEF EndsOn
  <2>3. CASE calls' = Tail(calls) /\ Len(calls) # 1
    <3>1. /\ Tail(calls) \in Seq(Requests) /\ Len(Tail(calls)) = Len(calls) - 1
          /\ \A i \in 1 .. Len(Tail(calls)) : Tail(calls)[i] = calls[i + 1]
      BY <2>1, HeadTailProperties
    <3>2. Len(calls') # 0 /\ calls'[Len(calls')] = calls[Len(calls)]
      BY <2>1, <2>3, <3>1
    <3>3. calls' # <<>>
      BY <3>2, EmptySeq
    <3>4. QED
      BY <2>1, <3>2, <3>3 DEF EndsOn
  <2>4. CASE calls' = Tail(calls) /\ calls' # calls /\ Len(calls) = 1
    <3>1. Head(calls).op = "start"
      BY <2>1, <2>4
    <3>2. run' = "on" \/ missing'
      BY <1>2, <2>4, <3>1 DEF ServeCall, TurnOff, StaysOff, TurnOn, SpawnFails, Serving
    <3>3. calls' = <<>>
      <4>1. calls' \in Seq(Requests) /\ Len(calls') = 0
        BY <2>1, <2>4, HeadTailProperties
      <4>2. QED
        BY <4>1, EmptySeq
    <3>4. QED
      BY <3>2, <3>3 DEF EndsOn
  <2>5. QED
    BY <1>2, <2>2, <2>3, <2>4 DEF ServeCall, TurnOff, StaysOff, TurnOn, SpawnFails
<1>3. QED
  BY <1>1, <1>2

LEMMA SourceCalled ==
    ASSUME PeriodsOK, NEW c \in Callers, NEW ms \in Periods, Call(c, "start", ms)
    PROVE  EndsOn'
<1>1. /\ calls \in Seq(Requests) /\ calls' = Append(calls, Request(c, "start", ms))
      /\ Request(c, "start", ms).op = "start" /\ Len(calls) \in Nat
  BY DEF Call, Request, PeriodsOK
<1>2. Len(calls') = Len(calls) + 1 /\ calls'[Len(calls) + 1].op = "start" /\ calls' # <<>>
  BY <1>1
<1>3. QED
  BY <1>2 DEF EndsOn

LEMMA SourceStep == IInv /\ DownInv /\ SourceInv /\ [Next]_vars => SourceInv'
<1>. SUFFICES ASSUME IInv, DownInv, SourceInv, [Next]_vars PROVE SourceInv'
  OBVIOUS
<1>. USE WsAssumption
<1>1. ASSUME UNCHANGED <<calls, run, missing>>, clients' # {} => clients # {} PROVE SourceInv'
  BY <1>1 DEF SourceInv, EndsOn
<1>2. ASSUME NEW c \in Clients, Connect(c) \/ Disconnect(c) \/ Started(c) \/ Hello(c) \/ Controlled(c)
                                 \/ ConnectionClosed(c) \/ Stopped(c)
      PROVE  SourceInv'
  BY <1>1, <1>2 DEF Connect, Disconnect, Started, Hello, Controlled, ConnectionClosed, Stopped, dumperVars
<1>3. ASSUME NEW c \in Clients, Register(c) PROVE SourceInv'
  <2>1. CASE count = 0
    BY <1>3, <2>1, SourceCalled DEF Register, IInv, PeriodsOK, SourceInv
  <2>2. CASE count # 0
    <3>1. clients # {}
      BY <2>2, FS_EmptySet DEF IInv, Counted
    <3>2. QED
      BY <1>1, <1>3, <2>2, <3>1 DEF Register, dumperVars
  <2>3. QED
    BY <2>1, <2>2
<1>4. ASSUME NEW c \in Clients, NEW ms \in Periods, SetPeriod(c, ms) PROVE SourceInv'
  BY <1>4, SourceCalled DEF SetPeriod, IInv, SourceInv
<1>5. ASSUME NEW c \in Clients, Unregister(c) PROVE SourceInv'
  <2>1. CASE count' > 0
    <3>1. ~(count' <= 0)
      BY <1>5, <2>1, FS_CardinalityType DEF Unregister, IInv, Counted
    <3>2. QED
      BY <1>1, <1>5, <3>1 DEF Unregister, dumperVars
  <2>2. CASE ~(count' > 0)
    <3>1. Counted'
      BY <1>5, ServerStep DEF IInv
    <3>2. clients' = {}
      BY <2>2, <3>1, FS_EmptySet, FS_CardinalityType DEF Counted
    <3>3. QED
      BY <3>2 DEF SourceInv
  <2>3. QED
    BY <2>1, <2>2
<1>6. CASE ServeCall \/ PublishFrame \/ Source
  <2>1. clients' = clients
    BY <1>6 DEF ServeCall, PublishFrame, Source, serverVars, handlerVars
  <2>2. QED
    BY <1>6, <2>1, SourceKeeps DEF IInv, SourceInv
<1>7. CASE \E l \in Loops : _broadcast_loop(l)
  BY <1>1, <1>7 DEF _broadcast_loop, Wake, Take, Send, SentAll, handlerVars, dumperVars
<1>8. CASE Sigint \/ Closed \/ Over
  BY <1>1, <1>8 DEF Sigint, Closed, Over, handlerVars, dumperVars
<1>9. CASE LoopOver
  <2>1. clients' = {}
    BY <1>9 DEF LoopOver, handlerVars, DownInv, ServerIsDown, IInv, Counted, Inside
  <2>2. QED
    BY <2>1 DEF SourceInv
<1>10. CASE UNCHANGED vars
  BY <1>1, <1>10 DEF vars, serverVars, handlerVars, dumperVars
<1>11. QED
  BY <1>2, <1>3, <1>4, <1>5, <1>6, <1>7, <1>8, <1>9, <1>10 DEF Next, _handler, _main

-----------------------------------------------------------------------------
(* The loop.                                                               *)

(* To take one target from a loop does not change where it is.             *)
LEMMA LeftKeeps ==
    ASSUME NEW c \in Clients, Left(c), loop \in [Loops -> LoopRecords]
    PROVE  \A l \in Loops : /\ loop'[l].pc = loop[l].pc /\ loop'[l].last = loop[l].last
                            /\ loop'[l].todo = loop[l].todo \ {c}
                            /\ IsDone(l) => IsDone(l)'
<1>1. \A l \in Loops : loop'[l] = [loop[l] EXCEPT !.todo = loop[l].todo \ {c}]
  BY DEF Left
<1>2. \A l \in Loops : loop[l] \in LoopRecords
  OBVIOUS
<1>3. \A l \in Loops : /\ loop'[l].pc = loop[l].pc /\ loop'[l].last = loop[l].last
                        /\ loop'[l].todo = loop[l].todo \ {c}
  BY <1>1, <1>2 DEF LoopRecords
<1>4. [Done EXCEPT !.todo = Done.todo \ {c}] = Done
  BY DEF Done
<1>5. \A l \in Loops : IsDone(l) => IsDone(l)'
  BY <1>1, <1>4 DEF IsDone
<1>6. QED
  BY <1>3, <1>5

LEMMA LoopStep == IInv /\ DownInv /\ LockInv /\ LoopInv /\ [Next]_vars => LoopInv'
<1>. SUFFICES ASSUME IInv, DownInv, LockInv, LoopInv, [Next]_vars PROVE LoopInv'
  OBVIOUS
<1>. USE WsAssumption
<1>1. at \in [Clients -> Places]
  BY DEF IInv, Counted, Places
(* A handler takes a step that leaves the loops where they are.            *)
<1>2. ASSUME NEW c \in Clients, NEW a, at' = [at EXCEPT ![c] = a],
             at[c] # "starting", a = "starting" \/ clients' = {} \/ clients # {},
             UNCHANGED task, \A l \in Loops : loop'[l].pc = loop[l].pc,
             \A l \in Loops : IsDone(l) => IsDone(l)'
      PROVE  LoopInv'
  <2>1. (\A d \in Clients : at'[d] # "starting") =>
            a # "starting" /\ \A d \in Clients : at[d] # "starting"
    BY <1>1, <1>2
  <2>2. QED
    BY <1>2, <2>1 DEF LoopInv, DownInv
<1>3. ASSUME UNCHANGED <<at, clients, task, loop>> PROVE LoopInv'
  BY <1>3 DEF LoopInv, IsDone
<1>4. ASSUME NEW c \in Clients, Connect(c) \/ Hello(c) \/ Controlled(c) \/ ConnectionClosed(c)
                                 \/ \E ms \in Periods : SetPeriod(c, ms)
      PROVE  LoopInv'
  <2>1. /\ at[c] # "starting" /\ UNCHANGED <<clients, loop, task>>
        /\ \E a : at' = [at EXCEPT ![c] = a]
    BY <1>4 DEF Connect, Hello, Controlled, ConnectionClosed, SetPeriod, Goes, loopVars
  <2>2. QED
    BY <1>2, <2>1 DEF IsDone
<1>5. ASSUME NEW c \in Clients, Register(c) PROVE LoopInv'
  <2>1. at[c] = "registering" /\ UNCHANGED <<loop, task>>
    BY <1>5 DEF Register, Goes, loopVars
  <2>2. CASE at' = [at EXCEPT ![c] = "starting"]
    BY <1>2, <2>1, <2>2 DEF IsDone
  <2>3. CASE count # 0 /\ at' = [at EXCEPT ![c] = "hello"]
    <3>1. clients # {}
      BY <2>3, FS_EmptySet DEF IInv, Counted
    <3>2. QED
      BY <1>2, <2>1, <2>3, <3>1 DEF IsDone
  <2>4. QED
    BY <1>5, <2>2, <2>3 DEF Register, Goes
<1>6. ASSUME NEW c \in Clients, Started(c) PROVE LoopInv'
  <2>1. CASE LoopIsDone /\ ~UNCHANGED <<task, loop>>
    <3>1. PICK l \in Loops : task' = l /\ loop' = [loop EXCEPT ![l] = [Done EXCEPT !.pc = "wait"]]
      BY <1>6, <2>1 DEF Started
    <3>2. loop'[l].pc = "wait" /\ \A m \in Loops : m # l => loop'[m] = loop[m]
      BY <3>1 DEF DownInv, Done
    <3>3. QED
      BY <3>1, <3>2 DEF LoopInv, IsDone
  <2>2. CASE ~LoopIsDone /\ UNCHANGED <<task, loop>>
    BY <2>2 DEF LoopIsDone, LoopInv, IsDone, DownInv
  <2>3. CASE LoopIsDone /\ UNCHANGED <<task, loop>>
    <3>1. PICK l \in Loops : task' = l /\ IsDone(l) /\ loop' = [loop EXCEPT ![l] = [Done EXCEPT !.pc = "wait"]]
      BY <1>6, <2>3 DEF Started
    <3>2. loop'[l].pc = "wait"
      BY <3>1 DEF DownInv, Done
    <3>3. QED
      BY <2>3, <3>1, <3>2 DEF IsDone, Done
  <2>4. QED
    BY <1>6, <2>1, <2>2, <2>3 DEF Started
<1>7. ASSUME NEW c \in Clients, Unregister(c) PROVE LoopInv'
  <2>1. /\ at[c] = "unregistering" /\ clients' \subseteq clients /\ UNCHANGED task
        /\ UNCHANGED loop \/ Left(c)
        /\ \E a : at' = [at EXCEPT ![c] = a]
    BY <1>7 DEF Unregister, Goes
  <2>2. /\ \A l \in Loops : loop'[l].pc = loop[l].pc
        /\ \A l \in Loops : IsDone(l) => IsDone(l)'
    BY <2>1, LeftKeeps DEF DownInv, IsDone
  <2>3. QED
    BY <1>2, <2>1, <2>2
<1>8. ASSUME NEW c \in Clients, Stopped(c) PROVE LoopInv'
  <2>1. at[c] = "stopping" /\ UNCHANGED <<clients, task>> /\ Left(c) /\ at' = [at EXCEPT ![c] = "out"]
    BY <1>8 DEF Stopped, Goes
  <2>2. /\ \A l \in Loops : loop'[l].pc = loop[l].pc
        /\ \A l \in Loops : IsDone(l) => IsDone(l)'
    BY <2>1, LeftKeeps DEF DownInv
  <2>3. QED
    BY <1>2, <2>1, <2>2
<1>9. ASSUME NEW l \in Loops, _broadcast_loop(l) PROVE LoopInv'
  <2>1. /\ UNCHANGED <<at, clients, task>> /\ ~IsDone(l) /\ loop[l] \in LoopRecords
        /\ l = task
    BY <1>9 DEF _broadcast_loop, Wake, Take, Send, SentAll, handlerVars, IsDone, Done, DownInv
  <2>2. /\ \A m \in Loops : m # l => loop'[m] = loop[m]
        /\ loop'[l].pc # "done" \/ (clients = {} /\ loop'[l] = Done)
    <3>1. CASE Again(l)
      <4>1. CASE count > 0
        BY <3>1, <4>1 DEF Again, Becomes, DownInv, LoopRecords
      <4>2. CASE ~(count > 0)
        <5>1. clients = {}
          BY <4>2, FS_EmptySet, FS_CardinalityType DEF IInv, Counted
        <5>2. QED
          BY <3>1, <4>2, <5>1 DEF Again, DownInv
      <4>3. QED
        BY <4>1, <4>2
    <3>2. CASE Wake(l)
      BY <2>1, <3>2 DEF Wake, Becomes, DownInv, LoopRecords
    <3>3. CASE loop' = [loop EXCEPT ![l] = [pc |-> "send", last |-> latest, todo |-> clients]]
      BY <3>3 DEF DownInv
    <3>4. ASSUME NEW c \in Clients, Send(l, c)
          PROVE  /\ \A m \in Loops : m # l => loop'[m] = loop[m]
                 /\ loop'[l].pc # "done"
      <4>1. c \in loop[l].todo /\ loop' = [loop EXCEPT ![l] = [loop[l] EXCEPT !.todo = loop[l].todo \ {c}]]
        BY <3>4 DEF Send, DownInv
      <4>2. loop[l].pc # "done"
        BY <2>1 DEF LoopInv
      <4>3. QED
        BY <2>1, <4>1, <4>2 DEF DownInv, LoopRecords
    <3>5. QED
      BY <1>9, <3>1, <3>2, <3>3, <3>4 DEF _broadcast_loop, Take, SentAll
  <2>3. QED
    BY <2>1, <2>2 DEF LoopInv, IsDone
<1>10. CASE ServeCall \/ PublishFrame \/ Source
  BY <1>3, <1>10 DEF ServeCall, PublishFrame, Source, serverVars, handlerVars, loopVars
<1>11. CASE Sigint \/ Closed \/ Over \/ \E c \in Clients : Disconnect(c)
  BY <1>3, <1>11 DEF Sigint, Closed, Over, Disconnect, handlerVars, loopVars
<1>12. CASE LoopOver
  <2>1. clients' = {}
    BY <1>12 DEF LoopOver, handlerVars, DownInv, ServerIsDown, IInv, Counted, Inside
  <2>2. \A l \in Loops : IsDone(l)'
    BY <1>12 DEF LoopOver, DownInv, IsDone
  <2>3. QED
    BY <2>1, <2>2 DEF LoopInv
<1>13. CASE UNCHANGED vars
  BY <1>3, <1>13 DEF vars, serverVars, handlerVars, loopVars
<1>14. QED
  BY <1>4, <1>5, <1>6, <1>7, <1>8, <1>9, <1>10, <1>11, <1>12, <1>13 DEF Next, _handler, _main

-----------------------------------------------------------------------------
(* The frames.                                                             *)

LEMMA FramesInit == Init => FramesOK /\ FlagsOK
<1>. SUFFICES ASSUME Init PROVE FramesOK /\ FlagsOK
  OBVIOUS
<1>1. published = 0 /\ latest = 0 /\ 0 .. published = {0} /\ 0 \in 0 .. MaxFrames
  BY WsAssumption DEF Init, DumperInit
<1>2. FramesOK
  BY <1>1 DEF Init, FramesOK, Done
<1>3. FlagsOK
  BY DEF Init, DumperInit, FlagsOK
<1>4. QED
  BY <1>2, <1>3

(* What the loops and the clients have, when at most one of each gets what *)
(* there is.                                                               *)
LEMMA FramesStep == IInv /\ DownInv /\ FramesOK /\ [Next]_vars => FramesOK'
<1>. SUFFICES ASSUME IInv, DownInv, FramesOK, [Next]_vars PROVE FramesOK'
  OBVIOUS
<1>. USE WsAssumption
<1>1. ASSUME UNCHANGED <<latest, published, loop, got>> PROVE FramesOK'
  BY <1>1 DEF FramesOK
<1>2. ASSUME UNCHANGED <<latest, published>>,
             got' = got \/ \E c \in Clients, n \in 0 .. published : got' = [got EXCEPT ![c] = n],
             \A l \in Loops : loop'[l].last \in 0 .. published
      PROVE  FramesOK'
  BY <1>2 DEF FramesOK
<1>3. ASSUME NEW c \in Clients, Connect(c) \/ Disconnect(c) \/ Register(c) \/ Hello(c) \/ Controlled(c)
                                 \/ ConnectionClosed(c) \/ \E ms \in Periods : SetPeriod(c, ms)
      PROVE  FramesOK'
  BY <1>1, <1>3 DEF Connect, Disconnect, Register, Hello, Controlled, ConnectionClosed, SetPeriod,
     Call, loopVars, dumperVars
<1>4. ASSUME NEW c \in Clients, Started(c) PROVE FramesOK'
  <2>1. CASE UNCHANGED loop
    BY <1>1, <1>4, <2>1 DEF Started, dumperVars
  <2>2. CASE \E l \in Loops : loop' = [loop EXCEPT ![l] = [Done EXCEPT !.pc = "wait"]]
    <3>1. \A l \in Loops : loop'[l].last \in 0 .. published
      BY <2>2 DEF Done, FramesOK, DownInv
    <3>2. QED
      BY <1>2, <1>4, <3>1 DEF Started, dumperVars
  <2>3. QED
    BY <1>4, <2>1, <2>2 DEF Started
<1>5. ASSUME NEW c \in Clients, Unregister(c) \/ Stopped(c) PROVE FramesOK'
  <2>1. /\ UNCHANGED <<latest, published>>
        /\ UNCHANGED <<loop, got>> \/ Left(c)
    BY <1>5 DEF Unregister, Stopped, Call, dumperVars
  <2>2. CASE Left(c)
    <3>1. \A l \in Loops : loop'[l].last \in 0 .. published
      BY <2>2, LeftKeeps DEF DownInv, FramesOK
    <3>2. got' = [got EXCEPT ![c] = 0] /\ 0 \in 0 .. published
      BY <2>2 DEF Left, FramesOK
    <3>3. QED
      BY <1>2, <2>1, <3>1, <3>2
  <2>3. QED
    BY <1>1, <2>1, <2>2
<1>6. ASSUME NEW l \in Loops, _broadcast_loop(l) PROVE FramesOK'
  <2>1. UNCHANGED <<latest, published>> /\ loop[l] \in LoopRecords
    BY <1>6 DEF _broadcast_loop, Wake, Take, Send, SentAll, dumperVars, DownInv
  <2>2. \A m \in Loops : loop'[m].last \in 0 .. published
    <3>1. CASE Again(l)
      BY <2>1, <3>1 DEF Again, Becomes, Done, DownInv, FramesOK, LoopRecords
    <3>2. CASE Wake(l)
      BY <2>1, <3>2 DEF Wake, Becomes, DownInv, FramesOK, LoopRecords
    <3>3. CASE loop' = [loop EXCEPT ![l] = [pc |-> "send", last |-> latest, todo |-> clients]]
      BY <3>3 DEF DownInv, FramesOK
    <3>4. ASSUME NEW c \in Clients, Send(l, c) PROVE \A m \in Loops : loop'[m].last \in 0 .. published
      <4>1. loop' = [loop EXCEPT ![l] = [loop[l] EXCEPT !.todo = loop[l].todo \ {c}]]
        BY <3>4 DEF Send, DownInv
      <4>2. QED
        BY <2>1, <4>1 DEF DownInv, FramesOK, LoopRecords
    <3>5. QED
      BY <1>6, <3>1, <3>2, <3>3, <3>4 DEF _broadcast_loop, Take, SentAll
  <2>3. got' = got \/ \E c \in Clients, n \in 0 .. published : got' = [got EXCEPT ![c] = n]
    <3>1. loop[l].last \in 0 .. published
      BY DEF FramesOK
    <3>2. QED
      BY <1>6, <3>1 DEF _broadcast_loop, Wake, Take, Send, SentAll
  <2>4. QED
    BY <1>2, <2>1, <2>2, <2>3
<1>7. CASE PublishFrame
  BY <1>7 DEF PublishFrame, Publish, FramesOK
<1>8. CASE ServeCall \/ Source
  <2>1. UNCHANGED <<published, loop, got>> /\ latest' \in {0, latest}
    BY <1>8 DEF ServeCall, TurnOff, StaysOff, TurnOn, SpawnFails, Source, Ends, Drains, serverVars, loopVars
  <2>2. QED
    BY <2>1 DEF FramesOK
<1>9. CASE Sigint \/ Closed \/ Over
  BY <1>1, <1>9 DEF Sigint, Closed, Over, handlerVars, loopVars, dumperVars
<1>10. CASE LoopOver
  <2>1. \A l \in Loops : loop'[l].last \in 0 .. published
    BY <1>10 DEF LoopOver, Done, FramesOK
  <2>2. QED
    BY <1>2, <1>10, <2>1 DEF LoopOver, Call
<1>11. CASE UNCHANGED vars
  BY <1>1, <1>11 DEF vars, serverVars, loopVars, dumperVars
<1>12. QED
  BY <1>3, <1>4, <1>5, <1>6, <1>7, <1>8, <1>9, <1>10, <1>11 DEF Next, _handler, _main

(* A connection that has ended is forgotten by those who have left.        *)
LEMMA FlagsStep == IInv /\ FlagsOK /\ [Next]_vars => FlagsOK'
<1>. SUFFICES ASSUME IInv, FlagsOK, [Next]_vars PROVE FlagsOK'
  OBVIOUS
<1>1. at \in [Clients -> Places]
  BY DEF IInv, Counted, Places
<1>2. ASSUME NEW c \in Clients, NEW a, at' = [at EXCEPT ![c] = a],
             (gone' = gone /\ a # "out") \/ gone' = gone \ {c},
             UNCHANGED <<run, stray, phase, missing>>, event' \in BOOLEAN
      PROVE  FlagsOK'
  BY <1>1, <1>2 DEF FlagsOK
<1>3. ASSUME NEW c \in Clients, Connect(c) \/ Started(c) \/ Hello(c) \/ Controlled(c)
                                 \/ ConnectionClosed(c) \/ \E ms \in Periods : SetPeriod(c, ms)
      PROVE  FlagsOK'
  <2>1. \E a : a # "out" /\ at' = [at EXCEPT ![c] = a]
    BY <1>3 DEF Connect, Started, Hello, Controlled, ConnectionClosed, SetPeriod, Goes
  <2>2. UNCHANGED <<gone, run, stray, phase, missing, event>>
    BY <1>3 DEF Connect, Started, Hello, Controlled, ConnectionClosed, SetPeriod, Call, loopVars, dumperVars
  <2>3. QED
    BY <1>2, <2>1, <2>2 DEF FlagsOK
<1>4. ASSUME NEW c \in Clients, Register(c) \/ Unregister(c) \/ Stopped(c) PROVE FlagsOK'
  <2>1. \E a : at' = [at EXCEPT ![c] = a] /\ ((gone' = gone /\ a # "out") \/ gone' = gone \ {c})
    BY <1>4 DEF Register, Unregister, Stopped, Goes, Left
  <2>2. UNCHANGED <<run, stray, phase, missing>> /\ event' \in BOOLEAN
    BY <1>4 DEF Register, Unregister, Stopped, Call, loopVars, dumperVars, FlagsOK
  <2>3. QED
    BY <1>2, <2>1, <2>2
<1>5. CASE ServeCall \/ PublishFrame \/ Source
  <2>1. /\ UNCHANGED <<at, gone, phase>> /\ event' \in BOOLEAN /\ missing' \in BOOLEAN
        /\ run' \in {"off", "on", "ended"} /\ stray' \in BOOLEAN
    BY <1>5 DEF ServeCall, TurnOff, StaysOff, TurnOn, SpawnFails, PublishFrame, Publish,
       Source, Ends, Drains, serverVars, handlerVars, loopVars, FlagsOK
  <2>2. QED
    BY <2>1 DEF FlagsOK
<1>6. CASE \E l \in Loops : _broadcast_loop(l)
  <2>1. UNCHANGED <<at, gone, phase, run, stray, missing>> /\ event' \in BOOLEAN
    BY <1>6 DEF _broadcast_loop, Wake, Take, Send, SentAll, handlerVars, dumperVars, FlagsOK
  <2>2. QED
    BY <2>1 DEF FlagsOK
<1>7. CASE Sigint \/ Closed \/ LoopOver \/ Over \/ \E c \in Clients : Disconnect(c)
  <2>1. /\ UNCHANGED <<at, run, stray, missing>> /\ event' \in BOOLEAN
        /\ phase' \in {phase, "closing", "closed", "stopping", "over"}
        /\ gone' \subseteq {c \in Clients : at[c] # "out"}
    BY <1>7 DEF Sigint, Closed, LoopOver, Over, Disconnect, Call, handlerVars, loopVars, dumperVars, FlagsOK
  <2>2. QED
    BY <2>1 DEF FlagsOK
<1>8. CASE UNCHANGED vars
  BY <1>8 DEF vars, serverVars, handlerVars, loopVars, dumperVars, FlagsOK
<1>9. QED
  BY <1>3, <1>4, <1>5, <1>6, <1>7, <1>8 DEF Next, _handler, _main

LEMMA GotInit == Init => GotInv
BY DEF Init, GotInv

(* Only the loop of _state_task sends, and what it takes is the last frame *)
(* that there was.                                                         *)
LEMMA GotStep == IInv /\ DownInv /\ FramesOK /\ GotInv /\ [Next]_vars => GotInv'
<1>. SUFFICES ASSUME IInv, DownInv, FramesOK, GotInv, [Next]_vars PROVE GotInv'
  OBVIOUS
<1>. USE WsAssumption
<1>. DEFINE Upto == IF task = 0 THEN 0 ELSE loop[task].last
<1>1. /\ at \in [Clients -> Places] /\ clients \subseteq Clients
      /\ Upto \in Nat /\ published \in Nat
      /\ got \in [Clients -> 0 .. published]
  BY DEF IInv, Counted, Places, FramesOK, DownInv
<1>2. ASSUME UNCHANGED <<at, clients, task, loop, got>> PROVE GotInv'
  BY <1>2 DEF GotInv
(* A handler takes a step that sends nothing.                              *)
<1>3. ASSUME NEW c \in Clients, NEW a, at' = [at EXCEPT ![c] = a],
             got' = [got EXCEPT ![c] = 0] \/
                (got' = got /\ (a \in {"out", "registering"} => at[c] \in {"out", "registering"})),
             clients' \subseteq clients \/ (clients' = clients \cup {c} /\ at[c] = "registering"),
             Upto' = Upto
      PROVE  GotInv'
  <2>1. \A d \in Clients : at'[d] \in {"out", "registering"} => got'[d] = 0
    BY <1>1, <1>3 DEF GotInv
  <2>2. \A d \in clients' : got'[d] <= Upto
    BY <1>1, <1>3 DEF GotInv
  <2>3. QED
    BY <1>3, <2>1, <2>2 DEF GotInv
<1>4. ASSUME NEW c \in Clients, Connect(c) \/ Hello(c) \/ Controlled(c) \/ ConnectionClosed(c)
                                 \/ Register(c) \/ \E ms \in Periods : SetPeriod(c, ms)
      PROVE  GotInv'
  <2>1. /\ UNCHANGED <<task, loop, got>>
        /\ clients' = clients \/ (clients' = clients \cup {c} /\ at[c] = "registering")
        /\ \E a : at' = [at EXCEPT ![c] = a] /\ (a \in {"out", "registering"} => at[c] = "out")
    BY <1>4 DEF Connect, Hello, Controlled, ConnectionClosed, Register, SetPeriod, Goes, loopVars
  <2>2. QED
    BY <1>3, <2>1
<1>5. ASSUME NEW c \in Clients, Started(c) PROVE GotInv'
  <2>1. /\ at' = [at EXCEPT ![c] = "hello"] /\ UNCHANGED <<clients, got>>
    BY <1>5 DEF Started, Goes
  <2>2. Upto' = Upto
    <3>1. CASE UNCHANGED <<task, loop>>
      BY <3>1
    <3>2. CASE LoopIsDone /\ ~UNCHANGED <<task, loop>>
      <4>1. PICK l \in Loops : task' = l /\ loop' = [loop EXCEPT ![l] = [Done EXCEPT !.pc = "wait"]]
        BY <1>5, <3>2 DEF Started
      <4>2. loop'[task'].last = 0 /\ task' # 0
        BY <4>1 DEF DownInv, Done
      <4>3. Upto = 0
        BY <3>2 DEF LoopIsDone, DownInv, IsDone, Done
      <4>4. QED
        BY <4>2, <4>3
    <3>3. QED
      BY <1>5, <3>1, <3>2 DEF Started
  <2>3. QED
    BY <1>3, <2>1, <2>2
<1>6. ASSUME NEW c \in Clients, Unregister(c) \/ Stopped(c) PROVE GotInv'
  <2>1. /\ UNCHANGED task /\ clients' \subseteq clients
        /\ \E a : /\ at' = [at EXCEPT ![c] = a]
                  /\ Left(c) \/ (UNCHANGED <<loop, got>> /\ a = "stopping")
    BY <1>6 DEF Unregister, Stopped, Goes
  <2>2. Upto' = Upto
    BY <2>1, LeftKeeps DEF DownInv
  <2>3. QED
    BY <1>3, <2>1, <2>2 DEF Left
<1>7. ASSUME NEW l \in Loops, _broadcast_loop(l) PROVE GotInv'
  <2>1. /\ UNCHANGED <<at, clients, task>> /\ l = task /\ loop[l] \in LoopRecords
        /\ task # 0 /\ Upto = loop[l].last
    BY <1>7 DEF _broadcast_loop, Wake, Take, Send, SentAll, handlerVars, DownInv, IsDone, Done
  <2>2. CASE Again(l) /\ got' = got
    <3>1. CASE count > 0
      <4>1. Upto' = Upto
        BY <2>1, <2>2, <3>1 DEF Again, Becomes, DownInv, LoopRecords
      <4>2. QED
        BY <2>1, <2>2, <4>1 DEF GotInv
    <3>2. CASE ~(count > 0)
      <4>1. clients = {}
        BY <3>2, FS_EmptySet, FS_CardinalityType DEF IInv, Counted
      <4>2. QED
        BY <2>1, <2>2, <4>1 DEF GotInv
    <3>3. QED
      BY <3>1, <3>2
  <2>3. CASE Wake(l)
    <3>1. Upto' = Upto /\ got' = got
      BY <2>1, <2>3 DEF Wake, Becomes, DownInv, LoopRecords
    <3>2. QED
      BY <2>1, <3>1 DEF GotInv
  <2>4. CASE /\ latest # 0 /\ got' = got
             /\ loop' = [loop EXCEPT ![l] = [pc |-> "send", last |-> latest, todo |-> clients]]
    <3>1. Upto' = latest /\ latest = published
      BY <2>1, <2>4 DEF DownInv, FramesOK
    <3>2. \A d \in clients : got[d] <= latest
      BY <1>1, <3>1
    <3>3. QED
      BY <2>1, <2>4, <3>1, <3>2 DEF GotInv
  <2>5. ASSUME NEW c \in Clients, Send(l, c) PROVE GotInv'
    <3>1. loop' = [loop EXCEPT ![l] = [loop[l] EXCEPT !.todo = loop[l].todo \ {c}]]
      BY <2>5 DEF Send, DownInv
    <3>2. Upto' = Upto
      BY <2>1, <3>1 DEF DownInv, LoopRecords
    <3>3. got' = got \/ (c \in clients /\ got' = [got EXCEPT ![c] = Upto])
      BY <2>1, <2>5 DEF Send
    <3>4. \A d \in clients : at[d] \notin {"out", "registering"}
      BY DEF IInv, Counted, Inside
    <3>5. QED
      BY <1>1, <2>1, <3>2, <3>3, <3>4 DEF GotInv
  <2>6. QED
    BY <1>7, <2>2, <2>3, <2>4, <2>5 DEF _broadcast_loop, Take, SentAll
<1>8. CASE ServeCall \/ PublishFrame \/ Source
  BY <1>2, <1>8 DEF ServeCall, PublishFrame, Source, serverVars, handlerVars, loopVars
<1>9. CASE Sigint \/ Closed \/ Over \/ \E c \in Clients : Disconnect(c)
  BY <1>2, <1>9 DEF Sigint, Closed, Over, Disconnect, handlerVars, loopVars
<1>10. CASE LoopOver
  <2>1. clients = {} /\ UNCHANGED <<at, clients, got>>
    BY <1>10 DEF LoopOver, handlerVars, DownInv, ServerIsDown, IInv, Counted, Inside
  <2>2. QED
    BY <2>1 DEF GotInv
<1>11. CASE UNCHANGED vars
  BY <1>2, <1>11 DEF vars, serverVars, handlerVars, loopVars
<1>12. QED
  BY <1>3, <1>4, <1>5, <1>6, <1>7, <1>8, <1>9, <1>10, <1>11 DEF Next, _handler, _main

-----------------------------------------------------------------------------
ServerInv == IInv /\ DownInv /\ LockInv /\ SourceInv /\ LoopInv /\ FramesOK /\ FlagsOK /\ GotInv

LEMMA ServerInvariant == Spec => []ServerInv
<1>1. Init => ServerInv
  <2>1. Init => SourceInv /\ LoopInv
    BY DEF Init, SourceInv, LoopInv, IsDone
  <2>2. QED
    BY <2>1, ServerInit, DownInit, LockInit, FramesInit, GotInit DEF ServerInv
<1>2. ServerInv /\ [Next]_vars => ServerInv'
  BY ServerStep, DownStep, LockStep, SourceStep, LoopStep, FramesStep, FlagsStep, GotStep DEF ServerInv
<1>3. QED
  BY <1>1, <1>2, PTL DEF Spec

(* Every client is counted once, in whatever order the handlers come and   *)
(* go, and what the handlers, the lock and the loops know fits together.   *)
THEOREM ServerIsConsistent == Spec => []TypeOK
<1>1. ServerInv => TypeOK
  <2>. SUFFICES ASSUME ServerInv PROVE TypeOK
    OBVIOUS
  <2>. USE DEF ServerInv
  <2>1. clients = {c \in Clients :
                    at[c] \in {"starting", "hello", "serving", "control", "unregistering"}}
    BY DEF IInv, Counted, Inside
  <2>2. \A c \in Clients :
            (at[c] \in {"registering", "starting", "unregistering", "stopping"})
                <=> (\E i \in DOMAIN lock : lock[i] = c)
    BY DEF LockInv, Waiting
  <2>3. loop \in [Loops -> [pc : {"done", "wait", "woken", "send"},
                             last : 0 .. published, todo : SUBSET Clients]]
    <3>1. \A l \in Loops : loop[l] \in LoopRecords /\ loop[l].last \in 0 .. published
      BY DEF DownInv, FramesOK
    <3>2. \A l \in Loops : loop[l] \in [pc : {"done", "wait", "woken", "send"},
                                         last : 0 .. published, todo : SUBSET Clients]
      BY <3>1 DEF LoopRecords
    <3>3. QED
      BY <3>2 DEF DownInv
  <2>4. at \in [Clients -> {"out", "registering", "starting", "hello", "serving",
                             "control", "unregistering", "stopping"}]
    BY DEF IInv, Counted, Inside
  <2>5. /\ count = Cardinality(clients) /\ period \in Periods /\ period_ms \in Periods
        /\ task \in Loops \cup {0}
    BY DEF IInv, Counted, PeriodsOK, DownInv
  <2>6. QED
    BY <2>1, <2>2, <2>3, <2>4, <2>5 DEF TypeOK, FramesOK, FlagsOK
<1>2. QED
  BY <1>1, ServerInvariant, PTL

(* Whoever watches has a source and one broadcast loop: whatever handlers  *)
(* overtook one another, once nothing is under way both are there.         *)
THEOREM WatchedHasSource == Spec => []WatchedIsOn
<1>1. ServerInv => WatchedIsOn
  <2>. SUFFICES ASSUME ServerInv PROVE WatchedIsOn
    OBVIOUS
  <2>. USE DEF ServerInv
  <2>1. ASSUME Quiet, clients # {} PROVE (run # "off" \/ missing) /\ task # 0 /\ ~IsDone(task)
    <3>1. run # "off" \/ missing
      BY <2>1 DEF SourceInv, EndsOn, Quiet
    <3>2. \A c \in Clients : at[c] # "starting"
      BY <2>1 DEF LockInv, Holds, Quiet
    <3>3. task # 0 /\ loop[task].pc # "done"
      BY <2>1, <3>2 DEF LoopInv
    <3>4. QED
      BY <3>1, <3>3 DEF IsDone, Done
  <2>2. QED
    BY <2>1 DEF WatchedIsOn, DownInv
<1>2. QED
  BY <1>1, ServerInvariant, PTL

(* No client gets an earlier frame after a later one, across restarts of   *)
(* the source and of the broadcast loop.                                   *)
THEOREM FramesComeInOrder == Spec => FramesInOrder
<1>1. ASSUME ServerInv, [Next]_vars,
             NEW c \in Clients, c \in clients, c \in clients'
      PROVE  got'[c] >= got[c]
  <2>. USE <1>1 DEF ServerInv
  <2>1. got \in [Clients -> 0 .. published] /\ published \in Nat
    BY DEF FramesOK, DownInv
  <2>2. CASE got' = got
    BY <2>1, <2>2
  <2>3. ASSUME NEW d \in Clients, Left(d), Unregister(d) \/ Stopped(d) PROVE got'[c] >= got[c]
    <3>1. c # d
      BY <1>1, <2>3 DEF Unregister, Stopped, Goes, IInv, Counted, Inside
    <3>2. QED
      BY <2>1, <2>3, <3>1 DEF Left
  <2>4. ASSUME NEW l \in Loops, NEW d \in Clients, Send(l, d) PROVE got'[c] >= got[c]
    <3>1. l = task /\ l # 0
      BY <2>4, WsAssumption DEF Send, DownInv, IsDone, Done
    <3>2. got[c] <= loop[l].last /\ loop[l].last \in Nat
      BY <1>1, <3>1 DEF GotInv, DownInv, LoopRecords
    <3>3. QED
      BY <2>1, <2>4, <3>2 DEF Send
  <2>5. CASE \E d \in Clients : Unregister(d) \/ Stopped(d)
    BY <2>2, <2>3, <2>5 DEF Unregister, Stopped
  <2>6. CASE \E l \in Loops : _broadcast_loop(l)
    BY <2>2, <2>4, <2>6 DEF _broadcast_loop, Wake, Take, SentAll
  <2>7. ASSUME NEW d \in Clients, Connect(d) \/ Disconnect(d) \/ Register(d) \/ Started(d) \/ Hello(d)
               \/ Controlled(d) \/ ConnectionClosed(d) \/ \E ms \in Periods : SetPeriod(d, ms)
        PROVE  got' = got
    BY <2>7 DEF Connect, Disconnect, Register, Started, Hello, Controlled, ConnectionClosed,
       SetPeriod, loopVars
  <2>8. CASE ServeCall \/ PublishFrame \/ Source \/ Sigint \/ _main \/ UNCHANGED vars
    BY <2>2, <2>8 DEF ServeCall, PublishFrame, Source, Sigint, _main, Closed, LoopOver, Over,
       vars, serverVars, loopVars
  <2>9. QED
    BY <1>1, <2>2, <2>5, <2>6, <2>7, <2>8 DEF Next, _handler
<1>2. ServerInv /\ [Next]_vars =>
        [\A c \in Clients : c \in clients /\ c \in clients' => got'[c] >= got[c]]_vars
  BY <1>1
<1>3. QED
  BY <1>2, ServerInvariant, PTL DEF Spec, FramesInOrder
=============================================================================
