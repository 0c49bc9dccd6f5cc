--------------------------- MODULE KeyScan_proofs ---------------------------
(***************************************************************************)
(* Theorems about the keypad driver for every number of keys, debounce     *)
(* count and long-press threshold.                                         *)
(***************************************************************************)
EXTENDS KeyScan, TLAPS

(* One key through key_process_single(): the record stays well formed, and *)
(* no edge is left for the next scan.                                      *)
LEMMA ProcessedKey ==
    ASSUME NEW k \in KeyRecords, NEW raw \in 0 .. 1
    PROVE  /\ Debounced(k, raw) \in KeyRecords
           /\ Detected(Debounced(k, raw)) \in KeyRecords
           /\ ~Edge(Detected(Debounced(k, raw)))
           /\ Debounced(k, raw).last_press = k.last_press
           /\ Detected(Debounced(k, raw)).state = Debounced(k, raw).state
<1>. DEFINE d == Debounced(k, raw)
<1>0. /\ k.state \in 0 .. 1 /\ k.debounce \in 0 .. KEY_DEBOUNCE_COUNT - 1
      /\ k.last_press \in 0 .. 1 /\ k.longpress \in 0 .. LONGPRESS_THRESHOLD - 1
      /\ k = [state |-> k.state, debounce |-> k.debounce,
             last_press |-> k.last_press, longpress |-> k.longpress]
  BY DEF KeyRecords
<1>1. d \in KeyRecords /\ d.last_press = k.last_press
  <2>1. \E s \in 0 .. 1, n \in 0 .. KEY_DEBOUNCE_COUNT - 1 :
          d = [state |-> s, debounce |-> n,
               last_press |-> k.last_press, longpress |-> k.longpress]
    <3>1. CASE raw = k.state
      BY <1>0, <3>1, KeyAssumption DEF Debounced
    <3>2. CASE raw # k.state /\ k.debounce + 1 < KEY_DEBOUNCE_COUNT
      BY <1>0, <3>2, KeyAssumption DEF Debounced
    <3>3. CASE raw # k.state /\ ~(k.debounce + 1 < KEY_DEBOUNCE_COUNT)
      <4>1. d = [state |-> raw, debounce |-> 0,
                 last_press |-> k.last_press, longpress |-> k.longpress]
        BY <1>0, <3>3 DEF Debounced
      <4>2. 0 \in 0 .. KEY_DEBOUNCE_COUNT - 1
        BY KeyAssumption
      <4>3. QED
        BY <4>1, <4>2
    <3>4. QED
      BY <3>1, <3>2, <3>3
  <2>2. PICK s \in 0 .. 1, n \in 0 .. KEY_DEBOUNCE_COUNT - 1 :
          d = [state |-> s, debounce |-> n,
               last_press |-> k.last_press, longpress |-> k.longpress]
    BY <2>1
  <2>3. d.last_press = k.last_press
    BY <2>2
  <2>4. QED
    BY <1>0, <2>2, <2>3 DEF KeyRecords
<1>. HIDE DEF d
<1>2. CASE Edge(d)
  <2>1. Detected(d) = [d EXCEPT !.last_press = d.state, !.longpress = 0]
    BY <1>2 DEF Detected
  <2>2. Detected(d).last_press = d.state /\ Detected(d).state = d.state
    BY <1>1, <2>1 DEF KeyRecords
  <2>3. d.state \in 0 .. 1 /\ 0 \in 0 .. LONGPRESS_THRESHOLD - 1
    BY <1>1, KeyAssumption DEF KeyRecords
  <2>4. Detected(d) \in KeyRecords
    BY <1>1, <2>1, <2>3 DEF KeyRecords
  <2>5. QED
    BY <1>1, <2>2, <2>4 DEF Edge, d
<1>3. CASE ~Edge(d) /\ d.state = 0
  <2>1. Detected(d) = d
    BY <1>3 DEF Detected
  <2>2. QED
    BY <1>1, <1>3, <2>1 DEF d
<1>4. CASE ~Edge(d) /\ d.state = 1
  <2>1. Detected(d) =
          [d EXCEPT !.longpress = IF @ + 1 < LONGPRESS_THRESHOLD THEN @ + 1 ELSE 0]
    BY <1>4 DEF Detected
  <2>2. QED
    BY <1>1, <1>4, <2>1, KeyAssumption DEF KeyRecords, Edge, d
<1>5. QED
  BY <1>1, <1>2, <1>3, <1>4 DEF KeyRecords

(* What a key raises is an event of its own.                               *)
LEMMA RaisedIsEvent ==
    ASSUME NEW i \in Keys
    PROVE  Raised(i) \in {NoEvent, Short(i), Long(i)}
BY DEF Raised, EventOf

(* The counters and flags of the driver, and the event it returns.         *)
THEOREM KeyTypes == Spec => []TypeOK
<1>. USE DEF TypeOK
<1>1. Init => TypeOK
  BY KeyAssumption DEF Init, Idle, KeyRecords, Events, Edge
<1>2. TypeOK /\ [Next]_keyVars => TypeOK'
  <2>1. ASSUME TypeOK, key_scan PROVE TypeOK'
    <3>1. ASSUME NEW i \in Keys PROVE key'[i] \in KeyRecords /\ ~Edge(key'[i])
      <4>1. key'[i] = After(i) \/ key'[i] = key[i]
        BY <2>1, <3>1 DEF key_scan
      <4>2. key[i] \in KeyRecords /\ pin[i] \in 0 .. 1
        BY <2>1
      <4>3. QED
        BY <2>1, <4>1, <4>2, ProcessedKey DEF After
    <3>2. event' \in Events
      <4>1. CASE event' = NoEvent
        BY <4>1 DEF Events
      <4>2. ASSUME NEW i \in Keys, event' = Raised(i) PROVE event' \in Events
        BY <4>2, RaisedIsEvent DEF Events
      <4>3. event' = NoEvent \/ \E i \in Keys : event' = Raised(i)
        BY <2>1 DEF key_scan
      <4>4. QED
        BY <4>1, <4>2, <4>3
    <3>3. key' \in [Keys -> KeyRecords]
      BY <2>1, <3>1 DEF key_scan
    <3>4. QED
      BY <2>1, <3>1, <3>2, <3>3 DEF key_scan
  <2>2. ASSUME TypeOK, PinChanges PROVE TypeOK'
    BY <2>2 DEF PinChanges
  <2>3. QED
    BY <2>1, <2>2 DEF Next, keyVars
<1>3. QED
  BY <1>1, <1>2, PTL DEF Spec

(* Every press that the driver recognises is returned in that scan, however*)
(* many keys there are and whatever they do.                               *)
THEOREM NoPressIsLost == Spec => PressIsReported
<1>1. ASSUME TypeOK, key_scan, NEW i \in Keys, key[i].state = 0, key'[i].state = 1
      PROVE  event' = Short(i)
  <2>1. key'[i] = After(i) /\ Reached(i)
    BY <1>1 DEF key_scan
  <2>2. key[i] \in KeyRecords /\ pin[i] \in 0 .. 1 /\ key[i].last_press = 0
    BY <1>1 DEF TypeOK, Edge, KeyRecords
  <2>3. Raised(i) = Short(i)
    BY <1>1, <2>1, <2>2, ProcessedKey DEF After, Raised, EventOf, Edge
  <2>4. Raised(i) # NoEvent
    BY <2>3 DEF Short, NoEvent
  <2>5. PICK j \in Keys : /\ \A l \in Keys : l < j => Raised(l) = NoEvent
                          /\ Raised(j) # NoEvent
                          /\ event' = Raised(j)
    BY <1>1, <2>4 DEF key_scan
  <2>6. i = j
    BY <2>1, <2>4, <2>5, KeyAssumption DEF Reached, Keys
  <2>7. QED
    BY <2>3, <2>5, <2>6
<1>2. TypeOK /\ [Next]_keyVars
        => [\A i \in Keys : key[i].state = 0 /\ key'[i].state = 1 => event' = Short(i)]_keyVars
  <2>1. ASSUME PinChanges, NEW i \in Keys, key[i].state = 0 PROVE key'[i].state # 1
    BY <2>1 DEF PinChanges
  <2>2. QED
    BY <1>1, <2>1 DEF Next
<1>3. QED
  BY <1>2, KeyTypes, PTL DEF Spec, PressIsReported

-----------------------------------------------------------------------------
(* The samples of a key are a window that moves by one sample.             *)
Window == {w \in Seq(0 .. 1) : Len(w) = KEY_DEBOUNCE_COUNT}

LEMMA WindowMoves ==
    ASSUME NEW w \in Window, NEW raw \in 0 .. 1
    PROVE  /\ Append(Tail(w), raw) \in Window
           /\ \A n \in 1 .. KEY_DEBOUNCE_COUNT :
                Append(Tail(w), raw)[n] = IF n = KEY_DEBOUNCE_COUNT THEN raw ELSE w[n + 1]
<1>1. /\ w \in Seq(0 .. 1) /\ Len(w) = KEY_DEBOUNCE_COUNT
      /\ KEY_DEBOUNCE_COUNT \in Nat \ {0} /\ w # <<>>
  BY KeyAssumption DEF Window
<1>. DEFINE t == Tail(w)
<1>2. /\ t \in Seq(0 .. 1) /\ Len(t) = KEY_DEBOUNCE_COUNT - 1
      /\ \A n \in 1 .. KEY_DEBOUNCE_COUNT - 1 : t[n] = w[n + 1]
  BY <1>1
<1>. HIDE DEF t
<1>3. /\ Append(t, raw) \in Seq(0 .. 1) /\ Len(Append(t, raw)) = KEY_DEBOUNCE_COUNT
      /\ \A n \in 1 .. KEY_DEBOUNCE_COUNT :
           Append(t, raw)[n] = IF n = KEY_DEBOUNCE_COUNT THEN raw ELSE t[n]
  BY <1>1, <1>2
<1>4. ASSUME NEW n \in 1 .. KEY_DEBOUNCE_COUNT
      PROVE  Append(t, raw)[n] = IF n = KEY_DEBOUNCE_COUNT THEN raw ELSE w[n + 1]
  BY <1>1, <1>2, <1>3
<1>5. QED
  BY <1>3, <1>4 DEF Window, t

(* What a sample does to the level and the count of a key.                 *)
LEMMA DebounceCounts ==
    ASSUME NEW k \in KeyRecords, NEW raw \in 0 .. 1
    PROVE  LET a == Detected(Debounced(k, raw)) IN
           \/ a.state = k.state /\ a.debounce = 0
           \/ a.state = k.state /\ raw # k.state /\ a.debounce = k.debounce + 1
           \/ a.state = raw /\ raw # k.state /\ a.debounce = 0
                /\ k.debounce = KEY_DEBOUNCE_COUNT - 1
<1>. DEFINE d == Debounced(k, raw)
<1>1. \/ d.state = k.state /\ d.debounce = 0
      \/ d.state = k.state /\ raw # k.state /\ d.debounce = k.debounce + 1
      \/ d.state = raw /\ raw # k.state /\ d.debounce = 0
           /\ k.debounce = KEY_DEBOUNCE_COUNT - 1
  BY KeyAssumption DEF Debounced, KeyRecords
<1>2. d \in KeyRecords
  BY ProcessedKey
<1>. HIDE DEF d
<1>3. Detected(d).state = d.state /\ Detected(d).debounce = d.debounce
  BY <1>2 DEF Detected, KeyRecords, Edge
<1>4. QED
  BY <1>1, <1>3 DEF d

(* The count of a key is the number of its last samples that differ from   *)
(* its level, none of them missing.                                        *)
CountInv ==
    \A i \in Keys :
        /\ samples[i] \in Window
        /\ \A n \in 1 .. KEY_DEBOUNCE_COUNT :
             n > KEY_DEBOUNCE_COUNT - key[i].debounce => samples[i][n] # key[i].state

(* One key of a scan.                                                      *)
LEMMA SampleStep ==
    ASSUME TypeOK, CountInv, key_scan, NEW i \in Keys
    PROVE  /\ samples'[i] \in Window
           /\ \A n \in 1 .. KEY_DEBOUNCE_COUNT :
                n > KEY_DEBOUNCE_COUNT - key'[i].debounce => samples'[i][n] # key'[i].state
           /\ key'[i].state # key[i].state =>
                \A n \in 1 .. KEY_DEBOUNCE_COUNT : samples'[i][n] = key'[i].state
<1>1. /\ key[i] \in KeyRecords /\ pin[i] \in 0 .. 1 /\ KEY_DEBOUNCE_COUNT \in Nat \ {0}
      /\ key[i].debounce \in 0 .. KEY_DEBOUNCE_COUNT - 1 /\ key[i].state \in 0 .. 1
  BY KeyAssumption DEF TypeOK, KeyRecords
<1>2. /\ samples[i] \in Window
      /\ \A n \in 1 .. KEY_DEBOUNCE_COUNT :
           n > KEY_DEBOUNCE_COUNT - key[i].debounce => samples[i][n] # key[i].state
      /\ \A n \in 1 .. KEY_DEBOUNCE_COUNT : samples[i][n] \in 0 .. 1
  BY DEF CountInv, Window
<1>3. CASE ~Reached(i)
  <2>1. key'[i] = key[i] /\ samples'[i] = samples[i]
    BY <1>3 DEF key_scan
  <2>2. QED
    BY <1>2, <2>1
<1>4. CASE Reached(i)
  <2>. DEFINE a == Detected(Debounced(key[i], pin[i]))
              w == Append(Tail(samples[i]), pin[i])
  <2>1. key'[i] = a /\ samples'[i] = w
    BY <1>4 DEF key_scan, After
  <2>2. /\ w \in Window
        /\ \A n \in 1 .. KEY_DEBOUNCE_COUNT :
             w[n] = IF n = KEY_DEBOUNCE_COUNT THEN pin[i] ELSE samples[i][n + 1]
    BY <1>1, <1>2, WindowMoves
  <2>3. \/ a.state = key[i].state /\ a.debounce = 0
        \/ a.state = key[i].state /\ pin[i] # key[i].state /\ a.debounce = key[i].debounce + 1
        \/ a.state = pin[i] /\ pin[i] # key[i].state /\ a.debounce = 0
             /\ key[i].debounce = KEY_DEBOUNCE_COUNT - 1
    BY <1>1, DebounceCounts
  <2>. HIDE DEF a, w
  <2>4. ASSUME NEW n \in 1 .. KEY_DEBOUNCE_COUNT, n > KEY_DEBOUNCE_COUNT - a.debounce
        PROVE  w[n] # a.state
    <3>1. a.state = key[i].state /\ pin[i] # key[i].state /\ a.debounce = key[i].debounce + 1
      BY <1>1, <2>3, <2>4
    <3>2. CASE n = KEY_DEBOUNCE_COUNT
      BY <2>2, <3>1, <3>2
    <3>3. CASE n # KEY_DEBOUNCE_COUNT
      <4>1. n + 1 \in 1 .. KEY_DEBOUNCE_COUNT /\ n + 1 > KEY_DEBOUNCE_COUNT - key[i].debounce
        BY <1>1, <2>4, <3>1, <3>3
      <4>2. samples[i][n + 1] # key[i].state
        BY <1>2, <4>1
      <4>3. QED
        BY <2>2, <3>1, <3>3, <4>2
    <3>4. QED
      BY <3>2, <3>3
  <2>5. ASSUME a.state # key[i].state, NEW n \in 1 .. KEY_DEBOUNCE_COUNT PROVE w[n] = a.state
    <3>1. a.state = pin[i] /\ pin[i] # key[i].state /\ key[i].debounce = KEY_DEBOUNCE_COUNT - 1
      BY <2>3, <2>5
    <3>2. CASE n = KEY_DEBOUNCE_COUNT
      BY <2>2, <3>1, <3>2
    <3>3. CASE n # KEY_DEBOUNCE_COUNT
      <4>1. n + 1 \in 1 .. KEY_DEBOUNCE_COUNT /\ n + 1 > KEY_DEBOUNCE_COUNT - key[i].debounce
        BY <1>1, <3>1, <3>3
      <4>2. samples[i][n + 1] # key[i].state /\ samples[i][n + 1] \in 0 .. 1
        BY <1>2, <4>1
      <4>3. w[n] = samples[i][n + 1]
        BY <2>2, <3>3
      <4>4. QED
        BY <1>1, <3>1, <4>2, <4>3
    <3>4. QED
      BY <3>2, <3>3
  <2>6. QED
    BY <2>1, <2>2, <2>4, <2>5
<1>5. QED
  BY <1>3, <1>4

(* The driver takes a level over only after KEY_DEBOUNCE_COUNT samples of  *)
(* it in a row, although it does not sample every key in every scan.       *)
THEOREM LevelIsStable == Spec => StableBeforeTaken
<1>1. Init => CountInv
  <2>. SUFFICES ASSUME Init PROVE CountInv
    OBVIOUS
  <2>1. [n \in 1 .. KEY_DEBOUNCE_COUNT |-> 0] \in Window
    BY KeyAssumption DEF Window
  <2>2. QED
    BY <2>1, KeyAssumption DEF Init, CountInv, Idle
<1>2. TypeOK /\ CountInv /\ [Next]_keyVars => CountInv'
  <2>1. ASSUME TypeOK, CountInv, key_scan PROVE CountInv'
    BY <2>1, SampleStep DEF CountInv
  <2>2. ASSUME CountInv, UNCHANGED <<key, samples>> PROVE CountInv'
    BY <2>2 DEF CountInv
  <2>3. QED
    BY <2>1, <2>2 DEF Next, PinChanges, keyVars
<1>3. TypeOK /\ CountInv /\ [Next]_keyVars =>
        [\A i \in Keys : key'[i].state # key[i].state
           => \A n \in 1 .. KEY_DEBOUNCE_COUNT : samples'[i][n] = key'[i].state]_keyVars
  <2>1. ASSUME TypeOK, CountInv, key_scan, NEW i \in Keys, key'[i].state # key[i].state
        PROVE  \A n \in 1 .. KEY_DEBOUNCE_COUNT : samples'[i][n] = key'[i].state
    BY <2>1, SampleStep
  <2>2. PinChanges => UNCHANGED key
    BY DEF PinChanges
  <2>3. QED
    BY <2>1, <2>2 DEF Next
<1>4. QED
  BY <1>1, <1>2, <1>3, KeyTypes, PTL DEF Spec, StableBeforeTaken

-----------------------------------------------------------------------------
(* The counter of the long press is the number of samples since the last   *)
(* event of a key that is down, and 0 while the key is up.                 *)
HeldInv ==
    \A i \in Keys : held[i] = key[i].longpress /\ (key[i].state = 0 => held[i] = 0)

LEMMA HeldStep ==
    ASSUME TypeOK, HeldInv, key_scan, NEW i \in Keys
    PROVE  /\ held'[i] = key'[i].longpress /\ (key'[i].state = 0 => held'[i] = 0)
           /\ Raised(i) = Long(i) => held[i] + 1 = LONGPRESS_THRESHOLD
<1>. DEFINE d == Debounced(key[i], pin[i])
<1>1. /\ key[i] \in KeyRecords /\ pin[i] \in 0 .. 1 /\ key[i].last_press = key[i].state
      /\ held[i] = key[i].longpress /\ (key[i].state = 0 => held[i] = 0)
  BY DEF TypeOK, Edge, HeldInv
<1>2. /\ d \in KeyRecords /\ d.longpress = key[i].longpress /\ d.last_press = key[i].state
      /\ Detected(d).state = d.state
  <2>1. d \in KeyRecords /\ d.last_press = key[i].state /\ Detected(d).state = d.state
    BY <1>1, ProcessedKey
  <2>2. d.longpress = key[i].longpress
    BY <1>1 DEF Debounced, KeyRecords
  <2>3. QED
    BY <2>1, <2>2
<1>3. After(i) = Detected(d) /\ Raised(i) = EventOf(i, d)
  BY DEF After, Raised
<1>. HIDE DEF d
<1>4. /\ d.state \in 0 .. 1 /\ d.last_press \in 0 .. 1 /\ LONGPRESS_THRESHOLD \in Nat \ {0}
      /\ d.longpress \in 0 .. LONGPRESS_THRESHOLD - 1
  BY <1>2, KeyAssumption DEF KeyRecords
<1>5. Short(i) # NoEvent /\ Long(i) # NoEvent /\ Short(i) # Long(i)
  BY DEF Short, Long, NoEvent
<1>6. /\ Edge(d) => Detected(d).longpress = 0
      /\ Edge(d) /\ d.state = 1 => EventOf(i, d) = Short(i)
      /\ ~Edge(d) /\ d.state = 0 => Detected(d).longpress = d.longpress
      /\ d.state = 0 => EventOf(i, d) = NoEvent
      /\ ~Edge(d) /\ d.state = 1 /\ d.longpress + 1 < LONGPRESS_THRESHOLD
           => Detected(d).longpress = d.longpress + 1 /\ EventOf(i, d) = NoEvent
      /\ ~Edge(d) /\ d.state = 1 /\ ~(d.longpress + 1 < LONGPRESS_THRESHOLD)
           => Detected(d).longpress = 0 /\ EventOf(i, d) = Long(i)
  BY <1>2, <1>4 DEF Detected, EventOf, KeyRecords
<1>7. CASE ~Reached(i)
  <2>1. key'[i] = key[i] /\ held'[i] = held[i]
    BY <1>7 DEF key_scan
  <2>2. Raised(i) = Long(i) => held[i] + 1 = LONGPRESS_THRESHOLD
    BY <1>1, <1>2, <1>3, <1>4, <1>5, <1>6 DEF Edge
  <2>3. QED
    BY <1>1, <2>1, <2>2
<1>8. CASE Reached(i)
  <2>1. key'[i] = Detected(d)
    BY <1>3, <1>8 DEF key_scan
  <2>2. held'[i] = IF d.state = 0 \/ EventOf(i, d) # NoEvent THEN 0 ELSE held[i] + 1
    BY <1>2, <1>3, <1>8 DEF key_scan, Spent
  <2>3. QED
    BY <1>1, <1>2, <1>3, <1>4, <1>5, <1>6, <2>1, <2>2 DEF Edge
<1>9. QED
  BY <1>7, <1>8

(* A long press is reported with the LONGPRESS_THRESHOLDth sample of a key *)
(* that is down, and the next one after as many again.                     *)
THEOREM LongPressOnTime == Spec => LongPressIsTimed
<1>1. Init => HeldInv
  BY DEF Init, HeldInv, Idle
<1>2. TypeOK /\ HeldInv /\ [Next]_keyVars => HeldInv'
  <2>1. ASSUME TypeOK, HeldInv, key_scan PROVE HeldInv'
    BY <2>1, HeldStep DEF HeldInv
  <2>2. ASSUME HeldInv, UNCHANGED <<key, held>> PROVE HeldInv'
    BY <2>2 DEF HeldInv
  <2>3. QED
    BY <2>1, <2>2 DEF Next, PinChanges, keyVars
<1>3. TypeOK /\ HeldInv /\ [Next]_keyVars =>
        [\A i \in Keys : /\ held'[i] < LONGPRESS_THRESHOLD
                         /\ key' # key /\ event' = Long(i)
                              => held[i] + 1 = LONGPRESS_THRESHOLD]_keyVars
  <2>1. ASSUME TypeOK, HeldInv, key_scan, NEW i \in Keys
        PROVE  held'[i] < LONGPRESS_THRESHOLD
    <3>1. held'[i] = key'[i].longpress
      BY <2>1, HeldStep
    <3>2. key'[i] \in KeyRecords
      BY <2>1, ProcessedKey DEF key_scan, After, TypeOK
    <3>3. QED
      BY <3>1, <3>2, KeyAssumption DEF KeyRecords
  <2>2. ASSUME TypeOK, HeldInv, key_scan, NEW i \in Keys, event' = Long(i)
        PROVE  held[i] + 1 = LONGPRESS_THRESHOLD
    <3>1. PICK j \in Keys : event' = Raised(j) /\ Raised(j) # NoEvent
      BY <2>2 DEF key_scan, Long, NoEvent
    <3>2. Raised(j) \in {Short(j), Long(j)}
      BY <3>1, RaisedIsEvent
    <3>3. j = i /\ Raised(i) = Long(i)
      BY <2>2, <3>1, <3>2 DEF Short, Long
    <3>4. QED
      BY <2>2, <3>3, HeldStep
  <2>3. ASSUME TypeOK, HeldInv, PinChanges, NEW i \in Keys
        PROVE  held'[i] < LONGPRESS_THRESHOLD /\ key' = key
    BY <2>3, KeyAssumption DEF PinChanges, TypeOK, HeldInv, KeyRecords
  <2>4. QED
    BY <2>1, <2>2, <2>3 DEF Next
<1>4. QED
  BY <1>1, <1>2, <1>3, KeyTypes, PTL DEF Spec, LongPressIsTimed

=============================================================================
