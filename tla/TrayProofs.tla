----------------------------- MODULE TrayProofs -----------------------------
(***************************************************************************)
(* Proofs about TrayApp, in four parts.  However many windows are opened,  *)
(* and whatever the threads do meanwhile, no window reaches into a loop    *)
(* that has returned.  The text of a configuration reads back as that      *)
(* configuration.  No device is listed without its key, whatever save ends *)
(* half-way.  And the file comes to say what is in memory.                 *)
(***************************************************************************)
EXTENDS TrayApp, SequenceTheorems, FiniteSetTheorems, TLAPS

(* What the windows and loops satisfy at any time: each loop and each window
   was opened, and the global variables point to loops of their kind. *)
LoopsInv ==
  /\ loops \in Seq(Loop) /\ Len(loops) <= opened
  /\ state \in [Kind -> Nat]
  /\ windows \in [Kind -> Nat] /\ \A k \in Kind : windows[k] <= opened
  /\ quitting \in BOOLEAN
  /\ opened \in 0..MaxOpened
  /\ NoDanglingState

LEMMA LoopsInvInit == LoopsInit => LoopsInv
<1> SUFFICES ASSUME LoopsInit PROVE LoopsInv
  OBVIOUS
<1>1. loops \in Seq(Loop) /\ Len(loops) = 0 /\ opened = 0 /\ quitting = FALSE
  BY EmptySeq DEF LoopsInit
<1>2. /\ state \in [Kind -> Nat] /\ windows \in [Kind -> Nat]
      /\ \A k \in Kind : state[k] = 0 /\ windows[k] = 0
  BY DEF LoopsInit
<1>3. NoDanglingState
  BY <1>2 DEF NoDanglingState
<1>4. opened \in 0..MaxOpened /\ \A k \in Kind : windows[k] <= opened
  BY <1>1, <1>2, LoopsAssumption
<1>5. Len(loops) <= opened
  BY <1>1
<1>6. quitting \in BOOLEAN
  BY <1>1
<1> QED BY <1>1, <1>2, <1>3, <1>4, <1>5, <1>6, Zenon DEF LoopsInv

LEMMA LoopsInvType == LoopsInv => LoopsTypeOK
<1> SUFFICES ASSUME LoopsInv PROVE LoopsTypeOK
  OBVIOUS
<1>1. Len(loops) \in Nat /\ Len(loops) <= MaxOpened
  BY LoopsAssumption DEF LoopsInv
<1>2. \A k \in Kind : state[k] \in 0..MaxOpened /\ windows[k] \in 0..MaxOpened
  BY <1>1, LoopsAssumption DEF LoopsInv, NoDanglingState
<1> QED BY <1>1, <1>2 DEF LoopsInv, LoopsTypeOK

LEMMA ShowWindowKeeps ==
  ASSUME LoopsInv, NEW kind \in Kind, NEW was, ShowWindow(kind, was)
  PROVE  LoopsInv'
<1> DEFINE replaces == kind = "picker" /\ windows["picker"] > 0
           loop == [kind |-> kind, done |-> replaces, result |-> FALSE,
                    was |-> kind = "settings" /\ was = TRUE]
<1>1. /\ loop \in Loop
      /\ loop.kind = kind
  BY DEF Loop
<1>2. /\ opened' = opened + 1 /\ opened' \in 0..MaxOpened
      /\ loops' = Append(loops, loop)
      /\ state' = [state EXCEPT ![kind] = Len(loops) + 1]
      /\ windows' = IF replaces THEN windows ELSE [windows EXCEPT ![kind] = @ + 1]
      /\ quitting' = quitting
  BY LoopsAssumption DEF ShowWindow, LoopsInv
<1> HIDE DEF loop, replaces
<1>3. /\ loops' \in Seq(Loop) /\ Len(loops') = Len(loops) + 1
      /\ \A i \in 1..Len(loops) : loops'[i] = loops[i]
      /\ loops'[Len(loops) + 1] = loop
      /\ Len(loops) \in Nat
  BY <1>1, <1>2 DEF LoopsInv
<1>4. state' \in [Kind -> Nat] /\ \A k \in Kind : state'[k] = IF k = kind THEN Len(loops) + 1 ELSE state[k]
  BY <1>2, <1>3 DEF LoopsInv
<1>5. windows' \in [Kind -> Nat] /\ \A k \in Kind : windows'[k] <= opened'
  BY <1>2, LoopsAssumption DEF LoopsInv
<1>6. NoDanglingState'
  <2> SUFFICES ASSUME NEW k \in Kind, state'[k] # 0
               PROVE  state'[k] <= Len(loops') /\ loops'[state'[k]].kind = k
    BY DEF NoDanglingState
  <2>1. CASE k = kind
    BY <1>1, <1>3, <1>4, <2>1
  <2>2. CASE k # kind
    <3>1. state'[k] = state[k] /\ state[k] \in 1..Len(loops) /\ loops[state[k]].kind = k
      BY <1>3, <1>4, <2>2 DEF LoopsInv, NoDanglingState
    <3> QED BY <1>3, <3>1
  <2> QED BY <2>1, <2>2
<1> QED BY <1>2, <1>3, <1>4, <1>5, <1>6, LoopsAssumption DEF LoopsInv

LEMMA AnswerKeeps ==
  ASSUME LoopsInv, NEW kind \in Kind, NEW result \in BOOLEAN, Answer(kind, result)
  PROVE  LoopsInv'
<1>1. /\ windows' = [windows EXCEPT ![kind] = @ - 1] /\ windows[kind] > 0
      /\ UNCHANGED <<state, quitting, opened>>
  BY DEF Answer
<1>2. windows' \in [Kind -> Nat] /\ \A k \in Kind : windows'[k] <= opened
  BY <1>1, LoopsAssumption DEF LoopsInv
<1>3. /\ loops' \in Seq(Loop) /\ Len(loops') = Len(loops)
      /\ \A i \in 1..Len(loops) : loops'[i].kind = loops[i].kind
  <2>1. CASE state[kind] = 0
    BY <2>1 DEF Answer, LoopsInv
  <2>2. CASE state[kind] # 0
    <3> DEFINE n == state[kind]
    <3>1. n \in 1..Len(loops) /\ loops[n] \in Loop /\ n \in DOMAIN loops
      BY <2>2 DEF LoopsInv, NoDanglingState
    <3>2. loops' = [loops EXCEPT ![n].done = TRUE,
                                 ![n].result = (@ /\ kind # "picker") \/ result]
      BY <2>2 DEF Answer
    <3> HIDE DEF n
    <3> DEFINE new == [loops[n] EXCEPT !.done = TRUE,
                                       !.result = (@ /\ kind # "picker") \/ result]
    <3>3. loops' = [loops EXCEPT ![n] = new]
      BY <3>1, <3>2 DEF LoopsInv
    <3>4. new \in Loop /\ new.kind = loops[n].kind
      BY <3>1 DEF Loop
    <3> HIDE DEF new
    <3> QED BY <3>1, <3>3, <3>4 DEF LoopsInv
  <2> QED BY <2>1, <2>2
<1>4. NoDanglingState'
  BY <1>1, <1>3, SMTT(30) DEF LoopsInv, NoDanglingState
<1> QED BY <1>1, <1>2, <1>3, <1>4 DEF LoopsInv

(* What is left of a sequence without its last member. *)
LEMMA FrontIs ==
  ASSUME NEW S, NEW s \in Seq(S), s # <<>>
  PROVE  /\ Front(s) \in Seq(S) /\ Len(Front(s)) = Len(s) - 1
         /\ \A i \in 1..(Len(s) - 1) : Front(s)[i] = s[i]
<1> DEFINE n == Len(s)
<1>1. n \in Nat \ {0}
  BY EmptySeq, LenProperties
<1>2. \A i \in 1..(n - 1) : s[i] \in S
  BY <1>1, ElementOfSeq
<1>3. n - 1 \in Int /\ Front(s) = SubSeq(s, 1, n - 1)
  BY <1>1 DEF Front
<1> HIDE DEF n
<1>4. /\ SubSeq(s, 1, n - 1) \in Seq(S)
      /\ Len(SubSeq(s, 1, n - 1)) = IF 1 <= n - 1 THEN (n - 1) - 1 + 1 ELSE 0
      /\ \A i \in 1..((n - 1) - 1 + 1) : SubSeq(s, 1, n - 1)[i] = s[1 + i - 1]
  BY <1>2, <1>3, SubSeqProperties
<1>5. Front(s) \in Seq(S) /\ Len(Front(s)) = n - 1 /\ \A i \in 1..(n - 1) : Front(s)[i] = s[i]
  BY <1>1, <1>3, <1>4
<1> QED BY <1>5 DEF n

(* The innermost loop returns: the pointer of its kind is the only one that
   may have pointed to it. *)
LEMMA LeaveKeeps ==
  ASSUME LoopsInv, loops # <<>>, Leave, quitting' \in BOOLEAN
  PROVE  LoopsInv'
<1> DEFINE n == Len(loops)
<1>1. /\ n \in Nat \ {0}
      /\ Last(loops) = loops[n] /\ loops[n] \in Loop /\ loops[n].kind \in Kind
  <2>1. loops \in Seq(Loop)
    BY DEF LoopsInv
  <2>2. n \in Nat \ {0}
    BY <2>1, EmptySeq
  <2>3. n \in 1..Len(loops)
    BY <2>2
  <2>4. loops[n] \in Loop
    BY <2>1, <2>3, ElementOfSeq
  <2> QED BY <2>2, <2>4 DEF Last, Loop
<1>2. /\ loops' \in Seq(Loop) /\ Len(loops') = n - 1
      /\ \A i \in 1..(n - 1) : loops'[i] = loops[i]
  BY <1>1, FrontIs DEF LoopsInv, Leave
<1>3. /\ state' \in [Kind -> Nat]
      /\ \A k \in Kind : state'[k] = IF k = loops[n].kind THEN 0 ELSE state[k]
      /\ windows' = windows /\ opened' = opened
  BY <1>1 DEF LoopsInv, Leave
<1>4. NoDanglingState'
  <2> SUFFICES ASSUME NEW k \in Kind, state'[k] # 0
               PROVE  state'[k] <= Len(loops') /\ loops'[state'[k]].kind = k
    BY DEF NoDanglingState
  <2>1. k # loops[n].kind /\ state'[k] = state[k]
    BY <1>3
  <2>2. state[k] \in 1..n /\ loops[state[k]].kind = k
    BY <2>1, <1>1 DEF LoopsInv, NoDanglingState
  <2>3. state[k] \in 1..(n - 1)
    BY <1>1, <2>1, <2>2
  <2> QED BY <1>2, <2>1, <2>2, <2>3
<1> QED BY <1>1, <1>2, <1>3, <1>4, LoopsAssumption DEF LoopsInv

LEMMA LoopsInvStep == LoopsInv /\ [Next]_vars => LoopsInv'
<1> SUFFICES ASSUME LoopsInv, [Next]_vars PROVE LoopsInv'
  OBVIOUS
<1> USE DEF InLoops
<1>0. "settings" \in Kind /\ "picker" \in Kind /\ "add" \in Kind
  BY DEF Kind
<1>1. CASE UNCHANGED loopVars
  BY <1>1 DEF loopVars, LoopsInv, NoDanglingState
<1>2. CASE LoopsEnd
  <2>1. LoopsInit'
    BY <1>2 DEF LoopsEnd, LoopsInit
  <2> QED BY <2>1, LoopsInvInit, PTL
<1>3. CASE Opens
  BY <1>0, <1>3, ShowWindowKeeps DEF Opens, OpensAdd, OpenPicker, OpenFromMenu
<1>4. CASE Answers
  BY <1>0, <1>4, AnswerKeeps, LoopsAssumption
     DEF Answers, PickerKey, PickerLosesFocus, AnswerAdd, AnswerSettings
<1>5. CASE \E text \in HotkeyTexts, startup \in BOOLEAN : PressSave(text, startup)
  BY <1>0, <1>5, AnswerKeeps DEF PressSave, AnswerSettings
<1>6. CASE LoopReturns
  BY <1>6, LeaveKeeps DEF LoopReturns, Return, Returning, LoopsInv
<1>7. CASE LoopTakesQuit
  BY <1>7, LeaveKeeps DEF LoopTakesQuit, TakeQuit
<1>8. CASE Quits
  BY <1>8 DEF Quits, AskQuit, LoopsInv, NoDanglingState
<1>9. CASE Begin \/ MenuStartup \/ Pairs \/ Works
  BY <1>1, <1>9 DEF Begin, MenuStartup, Pairs, Works
<1>10. CASE Dies \/ MainLoopTakesQuit \/ NullPointer
  BY <1>2, <1>10 DEF Dies, MainLoopTakesQuit, NullPointer, Ends
<1>11. CASE UNCHANGED vars
  BY <1>1, <1>11 DEF vars
<1> QED BY <1>3, <1>4, <1>5, <1>6, <1>7, <1>8, <1>9, <1>10, <1>11 DEF Next

(* The windows, the loops and the three pointers fit together whatever the
   application does: no operation disturbs them but ShowWindow, Answer and
   Leave. *)
THEOREM LoopsInvariant == Spec => []LoopsInv
<1>1. Init => LoopsInv
  BY LoopsInvInit DEF Init
<1> QED BY <1>1, LoopsInvStep, PTL DEF Spec

(* The type of the windows and loops. *)
THEOREM LoopsTyped == Spec => []LoopsTypeOK
BY LoopsInvType, LoopsInvariant, PTL

(* No handler reaches into the frame of a function that has returned
   (showSettingsWindow, showPicker, showDiscoveryPicker), with any number of
   windows and whatever else the application does. *)
THEOREM NoWindowDangles == Spec => []NoDanglingState
<1>1. LoopsInv => NoDanglingState
  BY DEF LoopsInv
<1> QED BY <1>1, LoopsInvariant, PTL
----------------------------------------------------------------------------
(* The text of the configuration. *)

(* The members of a finite set of numbers come one after the other. *)
LEMMA NthIs ==
  ASSUME NEW S \in SUBSET Nat, IsFiniteSet(S), NEW n \in 1..Cardinality(S)
  PROVE  Nth(S, n) \in S /\ Cardinality({j \in S : j <= Nth(S, n)}) = n
<1> DEFINE Upto(i) == {j \in S : j <= i}
           T == 1..Cardinality(S)
           rank == [i \in S |-> Cardinality(Upto(i))]
<1>1. Cardinality(S) \in Nat
  BY FS_CardinalityType
<1>2. ASSUME NEW i \in S
      PROVE  IsFiniteSet(Upto(i)) /\ Cardinality(Upto(i)) \in T /\ i \in Upto(i)
  <2>1. Upto(i) \in SUBSET S /\ i \in Upto(i)
    OBVIOUS
  <2>2. IsFiniteSet(Upto(i)) /\ Cardinality(Upto(i)) <= Cardinality(S) /\ Cardinality(Upto(i)) \in Nat
    BY <2>1, FS_Subset, FS_CardinalityType
  <2>3. Cardinality(Upto(i)) # 0
    BY <2>1, <2>2, FS_EmptySet
  <2> HIDE DEF Upto
  <2> QED BY <1>1, <2>1, <2>2, <2>3
<1>3. ASSUME NEW i \in S, NEW k \in S, i < k PROVE Cardinality(Upto(i)) # Cardinality(Upto(k))
  <2>0. i \in Nat /\ k \in Nat /\ \A j \in S : j \in Nat
    OBVIOUS
  <2>1. Upto(i) \in SUBSET Upto(k) /\ k \in Upto(k) /\ k \notin Upto(i)
    <3>1. ASSUME NEW j \in S, j <= i PROVE j <= k
      BY <1>3, <2>0, <3>1
    <3>2. k <= k /\ ~(k <= i)
      BY <1>3, <2>0
    <3> QED BY <3>1, <3>2
  <2>2. IsFiniteSet(Upto(k))
    BY <1>2
  <2> HIDE DEF Upto
  <2> QED BY <2>1, <2>2, FS_Subset
<1> HIDE DEF Upto
<1>4. rank \in [S -> T]
  BY <1>2
<1>5. \A i, k \in S : rank[i] = rank[k] => i = k
  BY <1>3
<1>6. rank \in Injection(S, T)
  BY <1>4, <1>5 DEF Injection, IsInjective
<1>7. IsFiniteSet(T) /\ Cardinality(T) = Cardinality(S)
  BY <1>1, FS_Interval
<1> HIDE DEF T, rank
<1>8. rank \in Surjection(S, T)
  BY <1>6, <1>7, FS_Injection
<1>9. \E i \in S : rank[i] = n
  BY <1>8 DEF Surjection, T
<1>10. \E i \in S : Cardinality({j \in S : j <= i}) = n
  BY <1>9 DEF rank, Upto
<1> QED BY <1>10 DEF Nth

LEMMA NthOfInterval ==
  ASSUME NEW a \in Nat, NEW b \in Nat, NEW n \in 1..Cardinality(a..b)
  PROVE  Nth(a..b, n) = a + n - 1
<1> DEFINE S == a..b
           i == Nth(S, n)
<1>1. S \in SUBSET Nat /\ IsFiniteSet(S)
  BY FS_Interval
<1>2. i \in S /\ Cardinality({j \in S : j <= i}) = n
  <2> HIDE DEF S
  <2>1. n \in 1..Cardinality(S)
    BY DEF S
  <2> QED BY <1>1, <2>1, NthIs
<1> HIDE DEF i
<1>3. {j \in S : j <= i} = a..i /\ i \in Int /\ ~(a > i)
  <2>1. i \in Nat /\ a <= i /\ i <= b
    BY <1>2
  <2>2. \A j : j \in S /\ j <= i <=> j \in a..i
    BY <2>1
  <2> QED BY <2>1, <2>2
<1>4. n = i - a + 1
  <2>1. Cardinality(a..i) = i - a + 1
    BY <1>3, FS_Interval
  <2> QED BY <1>2, <1>3, <2>1
<1>5. n \in Int
  BY FS_Interval
<1> QED BY <1>3, <1>4, <1>5 DEF i

LEMMA LinesAre ==
  ASSUME NEW text \in Seq(Line), NEW key
  PROVE  /\ Lines(text, key) \in SUBSET Nat /\ IsFiniteSet(Lines(text, key))
         /\ \A i \in Lines(text, key) : i \in 1..Len(text) /\ text[i] \in Line /\ text[i].key = key
<1>1. Len(text) \in Nat /\ DOMAIN text = 1..Len(text) /\ \A i \in 1..Len(text) : text[i] \in Line
  BY LenProperties, ElementOfSeq
<1>2. Lines(text, key) \in SUBSET (1..Len(text))
  BY <1>1 DEF Lines
<1>3. IsFiniteSet(1..Len(text))
  BY <1>1, FS_Interval
<1>4. IsFiniteSet(Lines(text, key))
  BY <1>2, <1>3, FS_Subset
<1> QED BY <1>1, <1>2, <1>4 DEF Lines

LEMMA NthLine ==
  ASSUME NEW text \in Seq(Line), NEW key, NEW n \in 1..Cardinality(Lines(text, key))
  PROVE  /\ Nth(Lines(text, key), n) \in Lines(text, key)
         /\ text[Nth(Lines(text, key), n)] \in Line
BY LinesAre, NthIs

LEMMA FieldTyped ==
  ASSUME NEW line \in Line, NEW i \in Nat
  PROVE  Field(line, i) \in Word
<1>1. line.fields \in Seq(Word)
  BY DEF Line
<1>2. "" \in Word
  BY WordAssumption
<1>3. CASE i \in DOMAIN line.fields
  BY <1>1, <1>3, ElementOfSeq, LenProperties DEF Field
<1>4. CASE i \notin DOMAIN line.fields
  BY <1>2, <1>4 DEF Field
<1> QED BY <1>3, <1>4

LEMMA SettingTyped ==
  ASSUME NEW text \in Seq(Line), NEW key, NEW default \in Seq(Word)
  PROVE  Setting(text, key, default) \in Seq(Word)
<1> DEFINE S == Lines(text, key)
           n == Cardinality(S)
<1>1. CASE S = {}
  BY <1>1 DEF Setting
<1>2. CASE S # {}
  <2>1. IsFiniteSet(S)
    BY LinesAre
  <2>2. n \in 1..n
    <3>1. n \in Nat /\ n # 0
      BY <1>2, <2>1, FS_CardinalityType, FS_EmptySet
    <3> HIDE DEF n
    <3> QED BY <3>1
  <2>3. text[Nth(S, n)] \in Line
    BY <2>2, NthLine
  <2> QED BY <1>2, <2>3 DEF Setting, Line
<1> QED BY <1>1, <1>2

(* Whatever the file says, what is read of it is a configuration. *)
LEMMA ParseTyped ==
  ASSUME NEW text \in Seq(Line)
  PROVE  Parse(text) \in Config
<1>1. CtrlAltSpace \in Seq(Word) /\ <<>> \in Seq(Word) /\ No \in Seq(Word)
  <2>1. "ctrl" \in Word /\ "alt" \in Word /\ "space" \in Word /\ "0" \in Word
    BY WordAssumption
  <2>2. <<"ctrl", "alt", "space">> \in Seq(Word)
    BY <2>1
  <2>3. <<"0">> \in Seq(Word)
    BY <2>1
  <2> QED BY <2>2, <2>3 DEF CtrlAltSpace, No
<1>2. ASSUME NEW fields \in Seq(Word) PROVE IdsIn(fields) \in IdList
  BY <1>1 DEF IdsIn, IdList
<1> DEFINE S == Lines(text, "device")
           m == Cardinality(S)
           ds == [n \in 1..m |-> [id |-> Field(text[Nth(S, n)], 1), ip |-> Field(text[Nth(S, n)], 2)]]
<1>3. m \in Nat
  BY LinesAre, FS_CardinalityType
<1>4. ASSUME NEW n \in 1..m
      PROVE  [id |-> Field(text[Nth(S, n)], 1), ip |-> Field(text[Nth(S, n)], 2)] \in [id : Word, ip : Word]
  <2>1. text[Nth(S, n)] \in Line
    BY NthLine
  <2> QED BY <2>1, FieldTyped
<1>5. ds \in Seq([id : Word, ip : Word])
  <2> DEFINE D == [id : Word, ip : Word]
  <2>1. ds \in [1..m -> D]
    BY <1>4
  <2> HIDE DEF m, ds, D
  <2>2. ds \in Seq(D)
    BY <1>3, <2>1, SeqDef
  <2> QED BY <2>2 DEF D
<1> DEFINE h == Setting(text, "setting.hotkey", DefaultConfig.hotkey)
           f == Setting(text, "setting.run_on_startup", No) = Yes
           p == IdsIn(Setting(text, "priority", <<>>))
           i == IdsIn(Setting(text, "ineligible", <<>>))
<1>6. h \in Seq(Word) /\ p \in IdList /\ i \in IdList
  BY <1>1, <1>2, SettingTyped DEF DefaultConfig
<1>7. Parse(text) = [hotkey |-> h, startup |-> f, devices |-> ds, priority |-> p, ineligible |-> i]
  BY DEF Parse
<1>8. f \in BOOLEAN
  OBVIOUS
<1> HIDE DEF h, f, ds, p, i
<1> QED BY <1>5, <1>6, <1>7, <1>8 DEF Config

(* The machines in a file are those its lines name. *)
LEMMA ParseIds ==
  ASSUME NEW text \in Seq(Line)
  PROVE  Ids(Parse(text)) = {Field(text[i], 1) : i \in Lines(text, "device")}
<1> DEFINE S == Lines(text, "device")
           m == Cardinality(S)
           ds == [n \in 1..m |-> [id |-> Field(text[Nth(S, n)], 1), ip |-> Field(text[Nth(S, n)], 2)]]
<1>1. Parse(text).devices = ds
  BY DEF Parse
<1>2. Ids(Parse(text)) = {ds[n].id : n \in 1..m}
  BY <1>1 DEF Ids
<1>3. Ids(Parse(text)) = {Field(text[Nth(S, n)], 1) : n \in 1..m}
  BY <1>2
<1>4. ASSUME NEW n \in 1..m PROVE Nth(S, n) \in S
  BY NthLine
<1>5. ASSUME NEW i \in S PROVE \E n \in 1..m : Nth(S, n) = i
  <2> DEFINE U == {j \in S : j <= i}
             n == Cardinality(U)
  <2>1. S \in SUBSET Nat /\ IsFiniteSet(S) /\ U \in SUBSET S /\ i \in U
    BY LinesAre
  <2>2. IsFiniteSet(U) /\ n <= m /\ n \in Nat /\ m \in Nat /\ n # 0
    BY <2>1, FS_Subset, FS_CardinalityType, FS_EmptySet
  <2>3. n \in 1..m
    <3> HIDE DEF n, m
    <3> QED BY <2>2
  <2> DEFINE k == Nth(S, n)
             V == {j \in S : j <= k}
  <2>4. k \in S /\ Cardinality(V) = n
    BY <2>1, <2>3, NthIs
  <2>5. k = i
    <3>1. CASE k < i
      <4>0. i \in Nat /\ k \in Nat /\ \A j \in S : j \in Nat
        BY <2>1, <2>4
      <4>1. V \in SUBSET U /\ i \notin V
        <5>1. \A j \in S : j <= k => j <= i
          <6> HIDE DEF k, S
          <6> QED BY <3>1, <4>0
        <5>2. ~(i <= k)
          <6> HIDE DEF k
          <6> QED BY <3>1, <4>0
        <5> HIDE DEF k
        <5> QED BY <5>1, <5>2
      <4> HIDE DEF U, V, k
      <4> QED BY <2>1, <2>2, <2>4, <4>1, FS_Subset DEF n
    <3>2. CASE i < k
      <4>0. i \in Nat /\ k \in Nat /\ \A j \in S : j \in Nat
        BY <2>1, <2>4
      <4>1. U \in SUBSET V /\ k \in V /\ k \notin U /\ V \in SUBSET S
        <5>1. \A j \in S : j <= i => j <= k
          <6> HIDE DEF k, S
          <6> QED BY <3>2, <4>0
        <5>2. k <= k /\ ~(k <= i) /\ k \in S
          <6> HIDE DEF k
          <6> QED BY <2>4, <3>2, <4>0
        <5> HIDE DEF k
        <5> QED BY <5>1, <5>2
      <4>2. IsFiniteSet(V)
        BY <2>1, <4>1, FS_Subset
      <4> HIDE DEF U, V, k
      <4> QED BY <2>4, <4>1, <4>2, FS_Subset DEF n
    <3> HIDE DEF k
    <3> QED BY <2>1, <2>4, <3>1, <3>2
  <2> QED BY <2>3, <2>5
<1> HIDE DEF S, m
<1> QED BY <1>3, <1>4, <1>5 DEF S

(* The lines of a configuration that is saved. *)
LEMMA SerializedIs ==
  ASSUME NEW c \in Config
  PROVE  /\ Serialize(c) \in Seq(Line) /\ Len(c.devices) \in Nat
         /\ Len(Serialize(c)) = Len(c.devices) + 4
         /\ Serialize(c)[1] = [key |-> "setting.hotkey", fields |-> c.hotkey]
         /\ Serialize(c)[2] = [key |-> "setting.run_on_startup", fields |-> IF c.startup THEN Yes ELSE No]
         /\ \A i \in 1..Len(c.devices) :
              Serialize(c)[i + 2] = [key |-> "device", fields |-> <<c.devices[i].id, c.devices[i].ip>>]
         /\ Serialize(c)[Len(c.devices) + 3] = [key |-> "priority", fields |-> c.priority]
         /\ Serialize(c)[Len(c.devices) + 4] = [key |-> "ineligible", fields |-> c.ineligible]
<1> DEFINE n == Len(c.devices)
           h == [key |-> "setting.hotkey", fields |-> c.hotkey]
           f == [key |-> "setting.run_on_startup", fields |-> IF c.startup THEN Yes ELSE No]
           p == [key |-> "priority", fields |-> c.priority]
           q == [key |-> "ineligible", fields |-> c.ineligible]
           d(i) == [key |-> "device", fields |-> <<c.devices[i].id, c.devices[i].ip>>]
           ds == [i \in DOMAIN c.devices |-> d(i)]
           first == <<h, f>>
           last == <<p, q>>
           s == first \o ds
           t == s \o last
<1>1. /\ c.hotkey \in Seq(Word) /\ c.priority \in Seq(Word) /\ c.ineligible \in Seq(Word)
      /\ c.devices \in Seq([id : Word, ip : Word]) /\ Yes \in Seq(Word) /\ No \in Seq(Word)
  <2>1. "0" \in Word /\ "1" \in Word
    BY WordAssumption
  <2>2. <<"1">> \in Seq(Word) /\ <<"0">> \in Seq(Word)
    BY <2>1
  <2> QED BY <2>2 DEF Config, IdList, Yes, No
<1>2. h \in Line /\ f \in Line /\ p \in Line /\ q \in Line
  BY <1>1 DEF Line, LineKey
<1>3. n \in Nat /\ DOMAIN c.devices = 1..n
  BY <1>1, LenProperties
<1>4. ASSUME NEW i \in 1..n PROVE d(i) \in Line
  <2>1. c.devices[i] \in [id : Word, ip : Word]
    BY <1>1, <1>3, ElementOfSeq
  <2>2. <<c.devices[i].id, c.devices[i].ip>> \in Seq(Word)
    BY <2>1
  <2> QED BY <2>2 DEF Line, LineKey
<1>5. ds \in Seq(Line) /\ Len(ds) = n /\ \A i \in 1..n : ds[i] = d(i)
  <2>1. ds \in [1..n -> Line] /\ \A i \in 1..n : ds[i] = d(i)
    BY <1>3, <1>4
  <2> HIDE DEF ds, d, n
  <2>2. ds \in Seq(Line)
    BY <1>3, <2>1, SeqDef
  <2>3. Len(ds) = n
    BY <1>3, <2>1, <2>2, LenProperties
  <2> QED BY <2>1, <2>2, <2>3
<1> HIDE DEF ds, n, h, f, p, q, d
<1>6. first \in Seq(Line) /\ Len(first) = 2 /\ first[1] = h /\ first[2] = f
      /\ last \in Seq(Line) /\ Len(last) = 2 /\ last[1] = p /\ last[2] = q
  BY <1>2
<1> HIDE DEF first, last
<1>7. s \in Seq(Line) /\ Len(s) = 2 + n
      /\ \A i \in 1..(2 + n) : s[i] = IF i <= 2 THEN first[i] ELSE ds[i - 2]
  <2>1. s \in Seq(Line) /\ Len(s) = Len(first) + Len(ds)
        /\ \A i \in 1..(Len(first) + Len(ds)) : s[i] = IF i <= Len(first) THEN first[i] ELSE ds[i - Len(first)]
    BY <1>5, <1>6, ConcatProperties
  <2> HIDE DEF s
  <2> QED BY <1>5, <1>6, <2>1
<1> HIDE DEF s
<1>8. t \in Seq(Line) /\ Len(t) = n + 4
      /\ \A i \in 1..(n + 4) : t[i] = IF i <= n + 2 THEN s[i] ELSE last[i - (n + 2)]
  <2>1. t \in Seq(Line) /\ Len(t) = Len(s) + Len(last)
        /\ \A i \in 1..(Len(s) + Len(last)) : t[i] = IF i <= Len(s) THEN s[i] ELSE last[i - Len(s)]
    BY <1>6, <1>7, ConcatProperties
  <2>2. Len(s) = n + 2 /\ Len(last) = 2 /\ Len(s) + Len(last) = n + 4
    BY <1>3, <1>6, <1>7
  <2> HIDE DEF t
  <2> QED BY <2>1, <2>2
<1>9. t = Serialize(c)
  BY DEF Serialize, t, s, ds, d, first, last, h, f, p, q
<1> HIDE DEF t
<1>10. t[1] = h /\ t[2] = f
  BY <1>3, <1>6, <1>7, <1>8
<1>11. ASSUME NEW i \in 1..n PROVE t[i + 2] = d(i)
  <2>1. i + 2 \in 1..(n + 4) /\ i + 2 <= n + 2 /\ i + 2 \in 1..(2 + n) /\ ~(i + 2 <= 2) /\ (i + 2) - 2 = i
    BY <1>3
  <2> QED BY <1>5, <1>7, <1>8, <2>1
<1>12. t[n + 3] = p /\ t[n + 4] = q
  <2>1. n + 3 \in 1..(n + 4) /\ n + 4 \in 1..(n + 4) /\ ~(n + 3 <= n + 2) /\ ~(n + 4 <= n + 2)
        /\ (n + 3) - (n + 2) = 1 /\ (n + 4) - (n + 2) = 2
    BY <1>3
  <2> QED BY <1>6, <1>8, <2>1
<1> QED BY <1>3, <1>8, <1>9, <1>10, <1>11, <1>12 DEF n, h, f, p, q, d

LEMMA SettingOnce ==
  ASSUME NEW text \in Seq(Line), NEW key, NEW i, Lines(text, key) = {i}, NEW default
  PROVE  Setting(text, key, default) = text[i].fields
<1> DEFINE S == Lines(text, key)
           n == Cardinality(S)
<1>1. n = 1
  BY FS_Singleton
<1>2. Nth(S, n) \in S
  BY <1>1, NthLine
<1>3. Nth(S, n) = i
  BY <1>2
<1> QED BY <1>3 DEF Setting

(* What was saved is read back as it was. *)
LEMMA ReadsBack ==
  ASSUME NEW c \in Config
  PROVE  Parse(Serialize(c)) = c
<1> DEFINE n == Len(c.devices)
           t == Serialize(c)
           S == Lines(t, "device")
           ds == [k \in 1..Cardinality(S) |-> [id |-> Field(t[Nth(S, k)], 1), ip |-> Field(t[Nth(S, k)], 2)]]
<1>1. /\ t \in Seq(Line) /\ n \in Nat /\ Len(t) = n + 4
      /\ t[1] = [key |-> "setting.hotkey", fields |-> c.hotkey]
      /\ t[2] = [key |-> "setting.run_on_startup", fields |-> IF c.startup THEN Yes ELSE No]
      /\ \A i \in 1..n : t[i + 2] = [key |-> "device", fields |-> <<c.devices[i].id, c.devices[i].ip>>]
      /\ t[n + 3] = [key |-> "priority", fields |-> c.priority]
      /\ t[n + 4] = [key |-> "ineligible", fields |-> c.ineligible]
  BY SerializedIs
<1> HIDE DEF t, n
<1>2. DOMAIN t = 1..(n + 4)
  BY <1>1, LenProperties
<1>3. ASSUME NEW i \in 3..(n + 2)
      PROVE  t[i] = [key |-> "device", fields |-> <<c.devices[i - 2].id, c.devices[i - 2].ip>>]
  <2>1. i - 2 \in 1..n /\ (i - 2) + 2 = i
    BY <1>1
  <2> QED BY <1>1, <2>1
<1>4. \A i \in 1..(n + 4) : i = 1 \/ i = 2 \/ i \in 3..(n + 2) \/ i = n + 3 \/ i = n + 4
  BY <1>1
<1>5. /\ 1 \in 1..(n + 4) /\ 2 \in 1..(n + 4) /\ 3..(n + 2) \subseteq 1..(n + 4)
      /\ n + 3 \in 1..(n + 4) /\ n + 4 \in 1..(n + 4)
  BY <1>1
<1>6. /\ t[1].key = "setting.hotkey" /\ t[2].key = "setting.run_on_startup"
      /\ t[n + 3].key = "priority" /\ t[n + 4].key = "ineligible"
      /\ \A i \in 3..(n + 2) : t[i].key = "device"
  <2>1. t[1].key = "setting.hotkey"
    BY <1>1
  <2>2. t[2].key = "setting.run_on_startup"
    BY <1>1
  <2>3. t[n + 3].key = "priority"
    BY <1>1
  <2>4. t[n + 4].key = "ineligible"
    BY <1>1
  <2>5. ASSUME NEW i \in 3..(n + 2) PROVE t[i].key = "device"
    <3>1. t[i] = [key |-> "device", fields |-> <<c.devices[i - 2].id, c.devices[i - 2].ip>>]
      BY <1>3
    <3> QED BY <3>1
  <2> QED BY <2>1, <2>2, <2>3, <2>4, <2>5
<1>7. Lines(t, "setting.hotkey") = {1} /\ Lines(t, "setting.run_on_startup") = {2}
      /\ Lines(t, "priority") = {n + 3} /\ Lines(t, "ineligible") = {n + 4}
  BY <1>2, <1>4, <1>5, <1>6 DEF Lines
<1>8. S = 3..(n + 2)
  BY <1>2, <1>4, <1>5, <1>6 DEF Lines
<1>9. /\ Setting(t, "setting.hotkey", DefaultConfig.hotkey) = c.hotkey
      /\ (Setting(t, "setting.run_on_startup", No) = Yes) = c.startup
      /\ IdsIn(Setting(t, "priority", <<>>)) = c.priority
      /\ IdsIn(Setting(t, "ineligible", <<>>)) = c.ineligible
  <2>0. t \in Seq(Line)
    BY <1>1
  <2>1. Setting(t, "setting.hotkey", DefaultConfig.hotkey) = c.hotkey
    <3>1. t[1].fields = c.hotkey
      BY <1>1
    <3> QED BY <1>7, <2>0, <3>1, SettingOnce
  <2>2. Setting(t, "setting.run_on_startup", No) = IF c.startup THEN Yes ELSE No
    <3>1. t[2].fields = IF c.startup THEN Yes ELSE No
      BY <1>1
    <3> QED BY <1>7, <2>0, <3>1, SettingOnce
  <2>3. Setting(t, "priority", <<>>) = c.priority /\ Setting(t, "ineligible", <<>>) = c.ineligible
    <3>1. t[n + 3].fields = c.priority
      BY <1>1
    <3>2. t[n + 4].fields = c.ineligible
      BY <1>1
    <3> QED BY <1>7, <2>0, <3>1, <3>2, SettingOnce
  <2>4. c.startup \in BOOLEAN /\ c.priority # <<"">> /\ c.ineligible # <<"">>
    BY DEF Config, IdList
  <2>5. Yes # No
    BY DEF Yes, No
  <2>6. (Setting(t, "setting.run_on_startup", No) = Yes) = c.startup
    BY <2>2, <2>4, <2>5
  <2> QED BY <2>1, <2>3, <2>4, <2>6 DEF IdsIn
<1>10. Cardinality(S) = n
  <2>1. Cardinality(3..(n + 2)) = n
    <3>1. Cardinality(3..(n + 2)) = IF 3 > n + 2 THEN 0 ELSE (n + 2) - 3 + 1
      BY <1>1, FS_Interval
    <3> QED BY <1>1, <3>1
  <2> QED BY <1>8, <2>1
<1>11. c.devices \in Seq([id : Word, ip : Word]) /\ DOMAIN c.devices = 1..n
  BY LenProperties DEF Config, n
<1>12. ASSUME NEW k \in 1..n PROVE ds[k] = c.devices[k]
  <2>1. Nth(S, k) = k + 2
    <3>1. Nth(3..(n + 2), k) = 3 + k - 1
      <4>1. n + 2 \in Nat /\ 3 \in Nat /\ k \in 1..Cardinality(3..(n + 2))
        BY <1>1, <1>8, <1>10
      <4> DEFINE a == 3
                 b == n + 2
      <4>2. a \in Nat /\ b \in Nat /\ k \in 1..Cardinality(a..b)
        BY <4>1
      <4> HIDE DEF a, b
      <4>3. Nth(a..b, k) = a + k - 1
        BY <4>2, NthOfInterval
      <4> QED BY <4>3 DEF a, b
    <3> QED BY <1>8, <3>1
  <2>2. t[k + 2].fields = <<c.devices[k].id, c.devices[k].ip>>
    <3>1. t[k + 2] = [key |-> "device", fields |-> <<c.devices[k].id, c.devices[k].ip>>]
      BY <1>1
    <3> QED BY <3>1
  <2>3. Field(t[k + 2], 1) = c.devices[k].id /\ Field(t[k + 2], 2) = c.devices[k].ip
    BY <2>2 DEF Field
  <2>4. c.devices[k] \in [id : Word, ip : Word]
    <3> DEFINE l == c.devices
    <3>1. l \in Seq([id : Word, ip : Word]) /\ k \in 1..Len(l)
      BY <1>11 DEF n
    <3> HIDE DEF l
    <3>2. l[k] \in [id : Word, ip : Word]
      BY <3>1, ElementOfSeq
    <3> QED BY <3>2 DEF l
  <2>5. ds[k] = [id |-> Field(t[k + 2], 1), ip |-> Field(t[k + 2], 2)]
    BY <1>10, <2>1
  <2> QED BY <2>3, <2>4, <2>5
<1>13. ds = c.devices
  <2>1. DOMAIN ds = 1..n /\ ds = [k \in 1..n |-> ds[k]]
    BY <1>10
  <2>2. c.devices = [k \in 1..n |-> c.devices[k]]
    <3> DEFINE l == c.devices
    <3>1. l \in Seq([id : Word, ip : Word]) /\ DOMAIN l = 1..n
      BY <1>11
    <3> HIDE DEF l
    <3>2. l = [k \in 1..n |-> l[k]]
      BY <3>1
    <3> QED BY <3>2 DEF l
  <2> HIDE DEF ds
  <2> QED BY <1>12, <2>1, <2>2
<1>14. Parse(t) = [hotkey |-> c.hotkey, startup |-> c.startup, devices |-> c.devices,
                   priority |-> c.priority, ineligible |-> c.ineligible]
  <2> DEFINE h == Setting(t, "setting.hotkey", DefaultConfig.hotkey)
             f == Setting(t, "setting.run_on_startup", No) = Yes
             p == IdsIn(Setting(t, "priority", <<>>))
             q == IdsIn(Setting(t, "ineligible", <<>>))
  <2>1. Parse(t) = [hotkey |-> h, startup |-> f, devices |-> ds, priority |-> p, ineligible |-> q]
    BY DEF Parse
  <2>2. h = c.hotkey /\ f = c.startup /\ p = c.priority /\ q = c.ineligible
    BY <1>9
  <2> HIDE DEF h, f, p, q, ds
  <2> QED BY <1>13, <2>1, <2>2
<1> QED BY <1>14 DEF Config, t

(* A text over another one names no machine that neither of them names. *)
LEMMA OverlayIs ==
  ASSUME NEW new \in Seq(Line), NEW old \in Seq(Line), Len(new) > 1, NEW text \in Overlays(new, old)
  PROVE  text \in Seq(Line) /\ Ids(Parse(text)) \subseteq Ids(Parse(new)) \cup Ids(Parse(old))
<1>1. CASE text = new
  BY <1>1
<1>2. CASE text # new
  <2> DEFINE n == Len(new)
             l == Len(old)
             rest == SubSeq(old, l - 1, l)
  <2>1. l > n /\ text = new \o rest /\ n \in Nat /\ l \in Nat /\ n > 1
    BY <1>2, LenProperties DEF Overlays
  <2>2. \A i \in 1..l : old[i] \in Line
    BY ElementOfSeq
  <2> HIDE DEF n, l
  <2>3. /\ rest \in Seq(Line) /\ Len(rest) = 2
        /\ \A i \in 1..2 : rest[i] = old[l - 2 + i] /\ l - 2 + i \in 1..l
    <3>1. \A i \in (l - 1)..l : old[i] \in Line
      BY <2>1, <2>2
    <3>2. l - 1 \in Int /\ l \in Int /\ l - (l - 1) + 1 = 2 /\ l - 1 <= l
      BY <2>1
    <3>3. rest \in Seq(Line) /\ Len(rest) = 2 /\ \A i \in 1..2 : rest[i] = old[(l - 1) + i - 1]
      BY <3>1, <3>2, SubSeqProperties
    <3>4. \A i \in 1..2 : (l - 1) + i - 1 = l - 2 + i /\ l - 2 + i \in 1..l
      BY <2>1
    <3> QED BY <3>3, <3>4
  <2> HIDE DEF rest
  <2>4. /\ text \in Seq(Line) /\ Len(text) = n + 2
        /\ \A i \in 1..(n + 2) : text[i] = IF i <= n THEN new[i] ELSE rest[i - n]
    <3> DEFINE t == new \o rest
    <3>1. t \in Seq(Line) /\ Len(t) = Len(new) + Len(rest)
          /\ \A i \in 1..(Len(new) + Len(rest)) : t[i] = IF i <= Len(new) THEN new[i] ELSE rest[i - Len(new)]
      BY <2>3, ConcatProperties
    <3>2. text = t /\ Len(new) = n /\ Len(rest) = 2
      BY <2>1, <2>3 DEF n
    <3> HIDE DEF t
    <3> QED BY <3>1, <3>2
  <2>5. ASSUME NEW i \in Lines(text, "device")
        PROVE  Field(text[i], 1) \in Ids(Parse(new)) \cup Ids(Parse(old))
    <3>1. i \in 1..(n + 2) /\ text[i].key = "device"
      BY <2>4, LinesAre
    <3>2. CASE i <= n
      <4>1. i \in DOMAIN new /\ text[i] = new[i]
        BY <2>1, <2>4, <3>1, <3>2, LenProperties DEF n
      <4>2. i \in Lines(new, "device")
        BY <3>1, <4>1 DEF Lines
      <4> QED BY <4>1, <4>2, ParseIds
    <3>3. CASE ~(i <= n)
      <4>1. i - n \in 1..2
        BY <2>1, <3>1, <3>3
      <4> DEFINE k == l - 2 + (i - n)
      <4>2. k \in DOMAIN old /\ text[i] = old[k]
        BY <2>1, <2>3, <2>4, <3>1, <3>3, <4>1, LenProperties DEF l
      <4> HIDE DEF k
      <4>3. k \in Lines(old, "device")
        BY <3>1, <4>2 DEF Lines
      <4> QED BY <4>2, <4>3, ParseIds
    <3> QED BY <3>2, <3>3
  <2>6. Ids(Parse(text)) = {Field(text[i], 1) : i \in Lines(text, "device")}
    BY <2>4, ParseIds
  <2> QED BY <2>4, <2>5, <2>6
<1> QED BY <1>1, <1>2

(* A machine that was paired is added. *)
LEMMA AddDeviceIs ==
  ASSUME NEW c \in Config, NEW d \in [id : Device, ip : Addr \cup {NoAddr}]
  PROVE  AddDevice(c, d) \in Config /\ Ids(AddDevice(c, d)) \subseteq Ids(c) \cup {d.id}
<1> DEFINE known == {i \in DOMAIN c.devices : c.devices[i].id = d.id}
           listed == ToSet(c.priority) \cup ToSet(c.ineligible)
           ds == IF known = {} THEN Append(c.devices, d) ELSE [c.devices EXCEPT ![Min(known)] = d]
           p == IF d.id \in listed THEN c.priority ELSE Append(c.priority, d.id)
           D == [id : Word, ip : Word]
           n == Len(c.devices)
<1>1. AddDevice(c, d) = [c EXCEPT !.devices = ds, !.priority = p]
  BY DEF AddDevice
<1>2. d \in D /\ d.id \in Word /\ d.id # ""
  BY StoreAssumption, WordAssumption DEF NoAddr
<1>3. c.devices \in Seq(D) /\ n \in Nat /\ DOMAIN c.devices = 1..n
      /\ c.priority \in Seq(Word) /\ c.priority # <<"">>
  BY LenProperties DEF Config, IdList
<1> HIDE DEF known, listed, D
<1>4. /\ ds \in Seq(D)
      /\ \A i \in DOMAIN ds : ds[i] = d \/ (i \in DOMAIN c.devices /\ ds[i] = c.devices[i])
  <2> DEFINE l == c.devices
  <2>1. l \in Seq(D) /\ Len(l) = n /\ DOMAIN l = 1..n
    BY <1>3
  <2> HIDE DEF l, n
  <2>2. CASE known = {}
    <3> DEFINE a == Append(l, d)
    <3>1. a \in Seq(D) /\ Len(a) = n + 1 /\ a[n + 1] = d /\ \A i \in 1..n : a[i] = l[i]
      <4>1. l \in Seq(D) /\ d \in D
        BY <1>2, <2>1
      <4>2. a \in Seq(D) /\ Len(a) = Len(l) + 1 /\ a[Len(l) + 1] = d /\ \A i \in 1..Len(l) : a[i] = l[i]
        BY <4>1, AppendProperties
      <4> HIDE DEF a
      <4> QED BY <2>1, <4>2
    <3>2. DOMAIN a = 1..(n + 1)
      BY <3>1, LenProperties
    <3> HIDE DEF a
    <3>3. \A i \in DOMAIN a : a[i] = d \/ (i \in DOMAIN l /\ a[i] = l[i])
      <4>1. n \in Nat
        BY <1>3 DEF n
      <4>2. ASSUME NEW i \in DOMAIN a PROVE a[i] = d \/ (i \in DOMAIN l /\ a[i] = l[i])
        <5>1. i = n + 1 \/ i \in 1..n
          BY <3>2, <4>1, <4>2
        <5>2. CASE i = n + 1
          BY <3>1, <5>2
        <5>3. CASE i \in 1..n
          BY <2>1, <3>1, <5>3
        <5> QED BY <5>1, <5>2, <5>3
      <4> QED BY <4>2
    <3>4. ds = a
      BY <2>2 DEF a, l
    <3> QED BY <3>1, <3>3, <3>4 DEF l
  <2>3. CASE known # {}
    <3> DEFINE e == [l EXCEPT ![Min(known)] = d]
    <3>1. e \in Seq(D)
      <4>1. e \in [1..n -> D]
        <5>1. l \in [1..n -> D]
          BY <2>1, ElementOfSeq
        <5> QED BY <1>2, <5>1
      <4>2. n \in Nat
        BY <1>3 DEF n
      <4> HIDE DEF e
      <4> QED BY <4>1, <4>2, SeqDef
    <3>2. DOMAIN e = DOMAIN l /\ \A i \in DOMAIN l : e[i] = d \/ e[i] = l[i]
      OBVIOUS
    <3>3. ds = e
      BY <2>3 DEF l
    <3> QED BY <3>1, <3>2, <3>3 DEF l
  <2> QED BY <2>2, <2>3
<1>5. p \in IdList
  <2> DEFINE q == c.priority
             x == d.id
             a == Append(q, x)
  <2>1. q \in Seq(Word) /\ q # <<"">> /\ x \in Word /\ x # ""
    BY <1>2, <1>3
  <2> HIDE DEF q, x
  <2>2. a \in Seq(Word) /\ Len(a) = Len(q) + 1 /\ a[Len(q) + 1] = x /\ Len(q) \in Nat
    <3>1. q \in Seq(Word) /\ x \in Word
      BY <2>1
    <3>2. a \in Seq(Word) /\ Len(a) = Len(q) + 1 /\ a[Len(q) + 1] = x
      BY <3>1, AppendProperties
    <3> QED BY <3>1, <3>2, LenProperties
  <2> HIDE DEF a
  <2>3. a # <<"">>
    <3> SUFFICES ASSUME a = <<"">> PROVE FALSE
      OBVIOUS
    <3>1. Len(a) = 1 /\ a[1] = ""
      OBVIOUS
    <3>2. Len(q) + 1 = 1
      BY <2>2, <3>1
    <3> QED BY <2>1, <2>2, <3>1, <3>2
  <2>4. a \in IdList /\ q \in IdList
    BY <2>1, <2>2, <2>3 DEF IdList
  <2>5. p = q \/ p = a
    BY DEF q, x, a
  <2> QED BY <2>4, <2>5
<1> HIDE DEF ds, p
<1>6. AddDevice(c, d) \in Config
  BY <1>1, <1>4, <1>5 DEF Config, D
<1>7. Ids(AddDevice(c, d)) = {ds[i].id : i \in DOMAIN ds}
  BY <1>1 DEF Ids, Config
<1>8. \A i \in DOMAIN ds : ds[i].id \in Ids(c) \cup {d.id}
  BY <1>4 DEF Ids
<1> QED BY <1>6, <1>7, <1>8

(* The address of a machine is another one. *)
LEMMA SetAddressIs ==
  ASSUME NEW c \in Config, NEW id, NEW ip \in Word
  PROVE  SetAddress(c, id, ip) \in Config /\ Ids(SetAddress(c, id, ip)) = Ids(c)
<1> DEFINE D == [id : Word, ip : Word]
           l == c.devices
           n == Len(l)
           ds == [i \in DOMAIN l |-> IF l[i].id = id THEN [l[i] EXCEPT !.ip = ip] ELSE l[i]]
<1>1. SetAddress(c, id, ip) = [c EXCEPT !.devices = ds]
  BY DEF SetAddress
<1>2. l \in Seq(D) /\ n \in Nat /\ DOMAIN l = 1..n /\ \A i \in 1..n : l[i] \in D
  <2>1. l \in Seq(D)
    BY DEF Config
  <2> HIDE DEF l, D
  <2> QED BY <2>1, LenProperties, ElementOfSeq
<1> HIDE DEF l, n
<1>3. ASSUME NEW i \in 1..n PROVE ds[i] \in D /\ ds[i].id = l[i].id
  BY <1>2
<1>4. ds \in [1..n -> D]
  <2>1. DOMAIN ds = 1..n
    BY <1>2
  <2> HIDE DEF D
  <2> QED BY <1>2, <1>3, <2>1
<1>5. ds \in Seq(D) /\ DOMAIN ds = 1..n
  <2> HIDE DEF ds, D
  <2> QED BY <1>2, <1>4, SeqDef
<1> HIDE DEF ds
<1>6. SetAddress(c, id, ip) \in Config
  BY <1>1, <1>5 DEF Config
<1>7. Ids(SetAddress(c, id, ip)) = {ds[i].id : i \in DOMAIN ds}
  BY <1>1 DEF Ids, Config
<1>8. Ids(c) = {l[i].id : i \in DOMAIN l}
  BY DEF Ids, l
<1> QED BY <1>2, <1>3, <1>5, <1>6, <1>7, <1>8
----------------------------------------------------------------------------
(* The threads and what they work on. *)

(* What a step of the application does to the memory, the files and the
   threads. *)
StoreNext ==
  \/ UNCHANGED storeVars
  \/ Load
  \/ Stop /\ faults' \in 0..MaxFaults
  \/ \E id \in Device, ip \in Addr \cup {NoAddr} : PairingConfirmed(id, ip)
  \/ \E text \in HotkeyTexts, startup \in BOOLEAN : EnterSettings(text, startup)
  \/ \E was \in BOOLEAN : SaveSettings(was)
  \/ ToggleStartup
  \/ Background

(* Where the threads stand: those that take the mutex hold it from before they
   change anything until they are done. *)
Places ==
  /\ at["ui"] \in {"idle", "open", "serialize", "write", "task"}
  /\ at["disco"] \in {"idle", "assign", "open", "serialize", "write"}
  /\ at["pair"] # "task" /\ at["pair"] # "assign"
  /\ \A t \in {"disco", "pair"} : at[t] # "idle" <=> mutex = t
  /\ at["pair"] # "idle" => job["pair"].id \in Device
  /\ \A t \in Thread : at[t] = "write" => Len(draft[t]) > 1

ThreadsInv == StoreTypeOK /\ Places

LEMMA Threads == Thread = {"ui", "disco", "pair"} /\ Nobody \notin Thread
BY StoreAssumption DEF Thread

LEMMA DefaultTyped == DefaultConfig \in Config
<1>1. CtrlAltSpace \in Seq(Word)
  <2>1. "ctrl" \in Word /\ "alt" \in Word /\ "space" \in Word
    BY WordAssumption
  <2> QED BY <2>1 DEF CtrlAltSpace
<1>2. <<>> # <<"">>
  OBVIOUS
<1>3. <<>> \in Seq([id : Word, ip : Word]) /\ <<>> \in Seq(Word)
  OBVIOUS
<1> HIDE DEF CtrlAltSpace
<1> QED BY <1>1, <1>2, <1>3 DEF DefaultConfig, Config, IdList

LEMMA ThreadsInvInit == StoreInit => ThreadsInv
<1> SUFFICES ASSUME StoreInit PROVE ThreadsInv
  OBVIOUS
<1>1. FirstFile \in Seq(Line) /\ MaxFaults \in Nat
  BY StoreAssumption
<1>2. Parse(FirstFile) \in Config
  BY <1>1, ParseTyped
<1>3. Parse(FirstFile).startup \in BOOLEAN
  BY <1>2 DEF Config
<1>4. NoJob \in [id : Device \cup {""}, ip : Addr \cup {NoAddr}] /\ <<>> \in Seq(Line)
  BY DEF NoJob, NoAddr
<1>5. StoreTypeOK
  <2>1. config \in Config /\ faults \in 0..MaxFaults /\ configFile \in Seq(Line) /\ task \in BOOLEAN
    BY <1>1, <1>3, DefaultTyped DEF StoreInit
  <2>2. /\ job \in [Thread -> [id : Device \cup {""}, ip : Addr \cup {NoAddr}]]
        /\ draft \in [Thread -> Seq(Line)]
    BY <1>4 DEF StoreInit
  <2> QED BY <2>1, <2>2, Threads DEF StoreInit, StoreTypeOK
<1>6. Places
  BY Threads DEF StoreInit, Places
<1> QED BY <1>5, <1>6 DEF ThreadsInv

(* A thread is done with its save. *)
LEMMA DoneKeeps ==
  ASSUME ThreadsInv, NEW t \in Thread, at[t] \in {"open", "write"}, Done(t),
         UNCHANGED <<running, config, keys, keyFile, task, retask, keyFault>>,
         configFile' \in Seq(Line), mixed' \in BOOLEAN, faults' \in 0..MaxFaults
  PROVE  ThreadsInv'
<1> USE Threads DEF ThreadsInv
<1>1. running
  BY DEF StoreTypeOK
<1>2. /\ at' = [at EXCEPT ![t] = IF t = "ui" /\ retask THEN "task" ELSE "idle"]
      /\ job' = [job EXCEPT ![t] = NoJob]
      /\ draft' = [draft EXCEPT ![t] = <<>>]
      /\ mutex' = IF mutex = t THEN Nobody ELSE mutex
  BY DEF Done, Unlock
<1>3. NoJob \in [id : Device \cup {""}, ip : Addr \cup {NoAddr}] /\ <<>> \in Seq(Line)
  BY DEF NoJob, NoAddr
<1>4. job' \in [Thread -> [id : Device \cup {""}, ip : Addr \cup {NoAddr}]]
      /\ draft' \in [Thread -> Seq(Line)]
  BY <1>2, <1>3 DEF StoreTypeOK
<1>5. StoreTypeOK'
  BY <1>1, <1>2, <1>4 DEF StoreTypeOK
<1>6. Places'
  BY <1>2, ZenonT(30) DEF StoreTypeOK, Places
<1> QED BY <1>5, <1>6

(* What is formed from memory. *)
LEMMA ReadingsTyped ==
  ASSUME ThreadsInv, NEW t \in Thread, NEW c \in Readings(t)
  PROVE  c \in Config /\ Ids(c) = Ids(config)
<1>1. config \in Config
  BY DEF ThreadsInv, StoreTypeOK
<1>2. Torn \in Word
  BY WordAssumption
<1>3. c = config \/ c = SetAddress(config, job[mutex].id, Torn)
  BY DEF Readings
<1> QED BY <1>1, <1>2, <1>3, SetAddressIs

LEMMA DraftTyped ==
  ASSUME NEW c \in Config
  PROVE  Serialize(c) \in Seq(Line) /\ Len(Serialize(c)) > 1
<1> DEFINE t == Serialize(c)
           n == Len(c.devices)
<1>1. t \in Seq(Line) /\ n \in Nat /\ Len(t) = n + 4
  BY SerializedIs
<1> HIDE DEF t, n
<1> QED BY <1>1 DEF t

LEMMA SaveKeepsThreads ==
  ASSUME ThreadsInv, NEW t \in Thread, Save(t)
  PROVE  ThreadsInv'
<1> USE Threads DEF ThreadsInv
<1>1. CASE Open(t)
  <2>1. <<>> \in Seq(Line) /\ MeetsAnother(t) \in BOOLEAN
    BY DEF MeetsAnother
  <2>2. StoreTypeOK'
    BY <1>1, <2>1 DEF Open, memory, StoreTypeOK
  <2>3. Places'
    BY <1>1 DEF Open, StoreTypeOK, Places
  <2> QED BY <2>2, <2>3
<1>2. CASE OpenFails(t)
  <2>1. /\ at[t] \in {"open", "write"} /\ Done(t)
        /\ UNCHANGED <<running, config, keys, keyFile, task, retask, keyFault>>
        /\ configFile' = configFile /\ mixed' = TRUE /\ faults' = faults + 1 /\ faults < MaxFaults
    BY <1>2 DEF OpenFails, memory, files
  <2>2. faults \in 0..MaxFaults /\ MaxFaults \in Nat /\ configFile \in Seq(Line)
    BY StoreAssumption DEF StoreTypeOK
  <2>3. configFile' \in Seq(Line) /\ mixed' \in BOOLEAN /\ faults' \in 0..MaxFaults
    BY <2>1, <2>2
  <2> QED BY <2>1, <2>3, DoneKeeps
<1>3. CASE SerializeConfig(t)
  <2>1. PICK c \in Readings(t) : draft' = [draft EXCEPT ![t] = Serialize(c)]
    BY <1>3 DEF SerializeConfig
  <2> DEFINE d == Serialize(c)
  <2>2. d \in Seq(Line) /\ Len(d) > 1
    BY ReadingsTyped, DraftTyped
  <2>3. draft' = [draft EXCEPT ![t] = d]
    BY <2>1
  <2> HIDE DEF d
  <2>4. at[t] = "serialize" /\ at' = [at EXCEPT ![t] = "write"]
    BY <1>3 DEF SerializeConfig
  <2>5. StoreTypeOK'
    <3>1. draft' \in [Thread -> Seq(Line)]
      BY <2>2, <2>3 DEF StoreTypeOK
    <3>2. UNCHANGED <<running, config, keys, configFile, keyFile, task, mutex, job, retask,
                      mixed, keyFault, faults>>
      BY <1>3 DEF SerializeConfig, memory, files, history
    <3> QED BY <2>4, <3>1, <3>2 DEF StoreTypeOK
  <2>6. \A u \in Thread : at'[u] = "write" => Len(draft'[u]) > 1
    BY <2>2, <2>3, <2>4 DEF StoreTypeOK, Places
  <2>7. Places'
    BY <1>3, <2>4, <2>6 DEF SerializeConfig, StoreTypeOK, Places
  <2> QED BY <2>5, <2>7
<1>4. CASE Write(t)
  <2>1. /\ at[t] \in {"open", "write"} /\ Done(t)
        /\ UNCHANGED <<running, config, keys, keyFile, task, retask, keyFault>>
        /\ configFile' \in Overlays(draft[t], configFile) /\ mixed' = mixed /\ faults' = faults
    BY <1>4 DEF Write, memory, history
  <2>2. draft[t] \in Seq(Line) /\ configFile \in Seq(Line) /\ Len(draft[t]) > 1
    BY <1>4 DEF Write, StoreTypeOK, Places
  <2>3. configFile' \in Seq(Line)
    BY <2>1, <2>2, OverlayIs
  <2>4. mixed' \in BOOLEAN /\ faults' \in 0..MaxFaults
    BY <2>1 DEF StoreTypeOK
  <2> QED BY <2>1, <2>3, <2>4, DoneKeeps
<1> QED BY <1>1, <1>2, <1>3, <1>4 DEF Save

LEMMA ThreadsInvStep == ThreadsInv /\ StoreNext => ThreadsInv'
<1> SUFFICES ASSUME ThreadsInv, StoreNext PROVE ThreadsInv'
  OBVIOUS
<1> USE Threads DEF ThreadsInv, memory, files, history
<1>0. config \in Config /\ configFile \in Seq(Line) /\ MaxFaults \in Nat
  BY StoreAssumption DEF StoreTypeOK
<1>1. CASE UNCHANGED storeVars
  <2>1. StoreTypeOK'
    BY <1>1 DEF storeVars, StoreTypeOK
  <2>2. Places'
    BY <1>1 DEF storeVars, Places
  <2> QED BY <2>1, <2>2
<1>2. CASE Load
  <2>1. Parse(configFile) \in Config /\ ReadKeys \subseteq Device
    BY <1>0, ParseTyped DEF ReadKeys, StoreTypeOK
  <2>2. StoreTypeOK'
    BY <1>2, <2>1 DEF Load, StoreTypeOK
  <2>3. Places'
    BY <1>2 DEF Load, Places
  <2> QED BY <2>2, <2>3
<1>3. CASE Stop /\ faults' \in 0..MaxFaults
  <2>1. NoJob \in [id : Device \cup {""}, ip : Addr \cup {NoAddr}] /\ <<>> \in Seq(Line)
    BY DEF NoJob, NoAddr
  <2>2. StoreTypeOK'
    BY <1>3, <2>1, DefaultTyped DEF Stop, StoreTypeOK
  <2>3. Places'
    BY <1>3 DEF Stop, Places
  <2> QED BY <2>2, <2>3
<1>4. ASSUME NEW id \in Device, NEW ip \in Addr \cup {NoAddr}, PairingConfirmed(id, ip)
      PROVE  ThreadsInv'
  <2>1. [id |-> id, ip |-> ip] \in [id : Device \cup {""}, ip : Addr \cup {NoAddr}]
    OBVIOUS
  <2>2. StoreTypeOK'
    BY <1>4, <2>1 DEF PairingConfirmed, StoreTypeOK
  <2>3. Places'
    BY <1>4 DEF PairingConfirmed, StoreTypeOK, Places
  <2> QED BY <2>2, <2>3
<1>5. ASSUME NEW text \in HotkeyTexts, NEW startup \in BOOLEAN, EnterSettings(text, startup)
      PROVE  ThreadsInv'
  <2>1. config' \in Config
    <3>1. text \in Seq(Word) /\ config' = [config EXCEPT !.hotkey = text, !.startup = startup]
      BY <1>5, StoreAssumption DEF EnterSettings
    <3> QED BY <1>0, <3>1 DEF Config
  <2>2. StoreTypeOK'
    BY <1>5, <2>1 DEF EnterSettings, StoreTypeOK
  <2>3. Places'
    BY <1>5 DEF EnterSettings, Places
  <2> QED BY <2>2, <2>3
<1>6. ASSUME NEW was \in BOOLEAN, SaveSettings(was) PROVE ThreadsInv'
  <2>1. retask' \in BOOLEAN
    BY <1>6 DEF SaveSettings
  <2>2. StoreTypeOK'
    BY <1>6, <2>1 DEF SaveSettings, StoreTypeOK
  <2>3. Places'
    BY <1>6 DEF SaveSettings, StoreTypeOK, Places
  <2> QED BY <2>2, <2>3
<1>7. CASE ToggleStartup
  <2>1. config' \in Config /\ task' \in BOOLEAN
    <3>1. config' = [config EXCEPT !.startup = ~task] /\ task' = ~task /\ task \in BOOLEAN
      BY <1>7 DEF ToggleStartup, StoreTypeOK
    <3> QED BY <1>0, <3>1 DEF Config
  <2>2. StoreTypeOK'
    BY <1>7, <2>1 DEF ToggleStartup, StoreTypeOK
  <2>3. Places'
    BY <1>7 DEF ToggleStartup, StoreTypeOK, Places
  <2> QED BY <2>2, <2>3
<1>8. ASSUME NEW t \in Thread, Save(t) PROVE ThreadsInv'
  BY <1>8, SaveKeepsThreads
<1>9. CASE AssignAddress
  <2>1. config' \in Config
    <3>1. job["disco"].ip \in Word
      BY StoreAssumption, WordAssumption DEF StoreTypeOK, NoAddr
    <3> QED BY <1>0, <1>9, <3>1, SetAddressIs DEF AssignAddress
  <2>2. StoreTypeOK'
    BY <1>9, <2>1 DEF AssignAddress, StoreTypeOK
  <2>3. Places'
    BY <1>9 DEF AssignAddress, StoreTypeOK, Places
  <2> QED BY <2>2, <2>3
<1>10. CASE SetPsk
  <2>1. StoreTypeOK'
    BY <1>10 DEF SetPsk, StoreTypeOK, Places
  <2>2. Places'
    BY <1>10 DEF SetPsk, StoreTypeOK, Places
  <2> QED BY <2>1, <2>2
<1>11. CASE OpenKeys \/ OpenKeysFails \/ WriteKeys
  <2>1. StoreTypeOK'
    <3>1. faults' \in 0..MaxFaults
      <4>1. faults \in 0..MaxFaults
        BY DEF StoreTypeOK
      <4> QED BY <1>0, <1>11, <4>1 DEF OpenKeys, OpenKeysFails, WriteKeys
    <3>2. CASE OpenKeys
      BY <3>1, <3>2 DEF OpenKeys, StoreTypeOK
    <3>3. CASE OpenKeysFails
      BY <3>1, <3>3 DEF OpenKeysFails, StoreTypeOK
    <3>4. CASE WriteKeys
      BY <3>1, <3>4 DEF WriteKeys, StoreTypeOK
    <3> QED BY <1>11, <3>2, <3>3, <3>4
  <2>2. Places'
    BY <1>11 DEF OpenKeys, OpenKeysFails, WriteKeys, StoreTypeOK, Places
  <2> QED BY <2>1, <2>2
<1>12. CASE AddPaired
  <2>1. config' \in Config
    <3>1. job["pair"] \in [id : Device, ip : Addr \cup {NoAddr}]
      BY <1>12 DEF AddPaired, StoreTypeOK, Places
    <3> QED BY <1>0, <1>12, <3>1, AddDeviceIs DEF AddPaired
  <2>2. StoreTypeOK'
    BY <1>12, <2>1 DEF AddPaired, StoreTypeOK
  <2>3. Places'
    BY <1>12 DEF AddPaired, StoreTypeOK, Places
  <2> QED BY <2>2, <2>3
<1>13. CASE ChangeTask
  <2>1. config' \in Config /\ task' \in BOOLEAN
    <3>1. CASE config' = config /\ task' = config.startup
      BY <1>0, <3>1 DEF Config
    <3>2. CASE config' = [config EXCEPT !.startup = ~@] /\ task' = task
      BY <1>0, <3>2 DEF Config, StoreTypeOK
    <3> QED BY <1>13, <3>1, <3>2 DEF ChangeTask
  <2>2. StoreTypeOK'
    BY <1>13, <2>1 DEF ChangeTask, StoreTypeOK
  <2>3. Places'
    BY <1>13, ZenonT(30) DEF ChangeTask, StoreTypeOK, Places
  <2> QED BY <2>2, <2>3
<1>14. ASSUME NEW id \in Device, NEW ip \in Addr, BeaconMoves(id, ip) PROVE ThreadsInv'
  <2>1. [id |-> id, ip |-> ip] \in [id : Device \cup {""}, ip : Addr \cup {NoAddr}]
    OBVIOUS
  <2>2. StoreTypeOK'
    BY <1>14, <2>1 DEF BeaconMoves, StoreTypeOK
  <2>3. Places'
    BY <1>14 DEF BeaconMoves, StoreTypeOK, Places
  <2> QED BY <2>2, <2>3
<1>15. CASE Background
  BY <1>8, <1>9, <1>10, <1>11, <1>12, <1>13, <1>14, <1>15 DEF Background
<1> QED BY <1>1, <1>2, <1>3, <1>4, <1>5, <1>6, <1>7, <1>15 DEF StoreNext

(* What the rest of the application does to the store is one of these. *)
LEMMA StepsOfTheStore == LoopsInv /\ ThreadsInv /\ [Next]_vars => StoreNext
<1> SUFFICES ASSUME LoopsInv, ThreadsInv, [Next]_vars PROVE StoreNext
  OBVIOUS
<1>1. CASE UNCHANGED vars
  BY <1>1 DEF vars, StoreNext
<1>2. CASE Begin
  BY <1>2 DEF Begin, StoreNext
<1>8. CASE MenuStartup
  BY <1>8 DEF MenuStartup, StoreNext
<1>9. CASE Works
  BY <1>9 DEF Works, StoreNext
<1>3. CASE Dies \/ MainLoopTakesQuit \/ NullPointer
  <2>1. faults' \in 0..MaxFaults
    <3>1. faults \in 0..MaxFaults /\ MaxFaults \in Nat
      BY StoreAssumption DEF ThreadsInv, StoreTypeOK
    <3>2. faults' = faults \/ (faults' = faults + 1 /\ faults < MaxFaults)
      BY <1>3 DEF Dies, Crash, MainLoopTakesQuit, NullPointer
    <3> QED BY <3>1, <3>2
  <2> QED BY <1>3, <2>1 DEF Dies, Crash, MainLoopTakesQuit, NullPointer, StoreNext
<1>4. CASE Opens \/ Answers \/ Quits \/ LoopTakesQuit
  BY <1>4 DEF Opens, OpensAdd, Answers, Quits, LoopTakesQuit, InLoops, StoreNext
<1>5. CASE LoopReturns
  <2>1. Last(loops).was \in BOOLEAN
    <3>1. loops \in Seq(Loop) /\ loops # <<>>
      BY <1>5 DEF LoopReturns, Return, Returning, LoopsInv
    <3>2. Len(loops) \in 1..Len(loops)
      BY <3>1, EmptySeq
    <3>3. loops[Len(loops)] \in Loop
      BY <3>1, <3>2, ElementOfSeq
    <3> QED BY <3>3 DEF Last, Loop
  <2> QED BY <1>5, <2>1 DEF LoopReturns, StoreNext
<1>6. CASE Pairs
  BY <1>6 DEF Pairs, StoreNext
<1>7. CASE \E text \in HotkeyTexts, startup \in BOOLEAN : PressSave(text, startup)
  BY <1>7 DEF PressSave, StoreNext
<1> QED BY <1>1, <1>2, <1>3, <1>4, <1>5, <1>6, <1>7, <1>8, <1>9 DEF Next


(* The memory and the files hold what they should and every thread stands where
   the mutex allows it. *)
THEOREM ThreadsInvariant == Spec => []ThreadsInv
<1>1. Init => ThreadsInv
  BY ThreadsInvInit DEF Init
<1>2. LoopsInv /\ ThreadsInv /\ [Next]_vars => ThreadsInv'
  BY StepsOfTheStore, ThreadsInvStep
<1> QED BY <1>1, <1>2, LoopsInvariant, PTL DEF Spec

(* The type of the whole application, with any file to begin with and whatever
   saves write over one another. *)
THEOREM TrayTyped == Spec => []TypeOK
<1> DEFINE Rest == pairing \in BOOLEAN /\ (~running => loops = <<>> /\ ~quitting)
<1>1. Init => Rest
  BY DEF Init, LoopsInit
<1>2. ThreadsInv /\ Rest /\ [Next]_vars => Rest'
  <2> SUFFICES ASSUME ThreadsInv, Rest, [Next]_vars PROVE Rest'
    OBVIOUS
  <2> USE DEF InLoops, Interactive
  <2>1. CASE UNCHANGED vars
    BY <2>1 DEF vars, storeVars, loopVars
  <2>2. CASE Begin
    BY <2>2 DEF Begin, Load
  <2>3. CASE Dies \/ MainLoopTakesQuit \/ NullPointer
    <3>1. loops' = <<>> /\ quitting' = FALSE /\ pairing' = FALSE
      BY <2>3 DEF Dies, MainLoopTakesQuit, NullPointer, Ends, LoopsEnd
    <3> QED BY <3>1
  <2>4. CASE Opens
    <3>1. running /\ running' = running /\ (pairing' = pairing \/ pairing' = TRUE)
      BY <2>4 DEF Opens, OpensAdd, storeVars
    <3> QED BY <3>1
  <2>5. CASE Answers
    <3>1. running /\ running' = running /\ pairing' = pairing
      BY <2>5 DEF Answers, storeVars
    <3> QED BY <3>1
  <2>6. CASE MenuStartup
    BY <2>6 DEF MenuStartup, ToggleStartup
  <2>7. CASE LoopReturns \/ LoopTakesQuit
    <3>1. running /\ running' = running /\ (pairing' = pairing \/ pairing' = FALSE)
      BY <2>7 DEF LoopReturns, LoopTakesQuit, EndsSession, SaveSettings, storeVars
    <3> QED BY <3>1
  <2>8. CASE Quits
    <3>1. running /\ running' = running /\ pairing' = pairing
      BY <2>8 DEF Quits, storeVars
    <3> QED BY <3>1
  <2>9. CASE Pairs
    <3>1. running /\ running' = running /\ pairing' = FALSE
      BY <2>9 DEF Pairs, PairingConfirmed, storeVars
    <3> QED BY <3>1
  <2>10. CASE Works
    <3>1. running' = running
      BY <2>10 DEF Works, Background, Save, Open, OpenFails, SerializeConfig, Write, AssignAddress,
                   SetPsk, OpenKeys, OpenKeysFails, WriteKeys, AddPaired, ChangeTask, BeaconMoves
    <3>2. loops' = loops /\ quitting' = quitting /\ pairing' = pairing
      BY <2>10 DEF Works, loopVars
    <3> QED BY <3>1, <3>2
  <2>11. CASE \E text \in HotkeyTexts, startup \in BOOLEAN : PressSave(text, startup)
    BY <2>11 DEF PressSave, EnterSettings, storeVars
  <2> QED BY <2>1, <2>2, <2>3, <2>4, <2>5, <2>6, <2>7, <2>8, <2>9, <2>10, <2>11 DEF Next
<1>3. LoopsTypeOK /\ ThreadsInv /\ Rest => TypeOK
  BY DEF TypeOK, ThreadsInv
<1> QED BY <1>1, <1>2, <1>3, LoopsTyped, ThreadsInvariant, PTL DEF Spec
----------------------------------------------------------------------------
(* Keys come first. *)

(* The machines in the configuration: in memory, in the file and on the way. *)
Listed ==
  Device \cap (Ids(config) \cup Ids(Parse(configFile)) \cup UNION {Ids(Parse(draft[t])) : t \in Thread})

(* The key of a machine is in memory and in the file of the keys before the
   machine is in the configuration. *)
KeysInv ==
  ~keyFault =>
    /\ at["pair"] # "writeKeys" => keyFile # NoKeys /\ Listed \subseteq keyFile
    /\ running => Listed \subseteq keys
    /\ running /\ at["pair"] # "writeKeys" => keyFile \subseteq keys
    /\ at["pair"] \in {"openKeys", "writeKeys"} => job["pair"].id \in keys
    /\ at["pair"] = "add" => job["pair"].id \in keys \cap keyFile

LEMMA NothingListed == Ids(Parse(<<>>)) = {} /\ Ids(DefaultConfig) = {}
<1>1. <<>> \in Seq(Line) /\ Lines(<<>>, "device") = {}
  BY DEF Lines
<1>2. Ids(Parse(<<>>)) = {Field(<<>>[i], 1) : i \in Lines(<<>>, "device")}
  BY <1>1, ParseIds
<1>3. DefaultConfig.devices = <<>>
  BY DEF DefaultConfig
<1>4. Ids(DefaultConfig) = {}
  BY <1>3 DEF Ids
<1> QED BY <1>1, <1>2, <1>4

(* A machine comes to be listed when it is added, and nowhere else: neither a
   draft nor two texts in one file name a machine that was not listed before. *)
LEMMA ListedStep ==
  ASSUME ThreadsInv, StoreNext
  PROVE  \/ Listed' \subseteq Listed
         \/ AddPaired /\ Listed' \subseteq Listed \cup {job["pair"].id}
<1> USE Threads DEF memory, files, history
<1>0. config \in Config /\ configFile \in Seq(Line) /\ draft \in [Thread -> Seq(Line)]
  BY DEF ThreadsInv, StoreTypeOK
<1>a. /\ Ids(config) \cap Device \subseteq Listed
      /\ Ids(Parse(configFile)) \cap Device \subseteq Listed
      /\ \A t \in Thread : Ids(Parse(draft[t])) \cap Device \subseteq Listed
  BY DEF Listed
<1>b. ASSUME NEW X,
             Ids(config') \cap Device \subseteq X,
             Ids(Parse(configFile')) \cap Device \subseteq X,
             \A t \in Thread : Ids(Parse(draft'[t])) \cap Device \subseteq X
      PROVE  Listed' \subseteq X
  BY <1>b DEF Listed
<1>2. CASE Load
  BY <1>2, <1>a, <1>b DEF Load
<1>3. CASE Stop
  <2>1. config' = DefaultConfig /\ configFile' = configFile /\ \A t \in Thread : draft'[t] = <<>>
    BY <1>3 DEF Stop
  <2> QED BY <2>1, <1>a, <1>b, NothingListed
<1>4. ASSUME NEW id, NEW ip, PairingConfirmed(id, ip) \/ BeaconMoves(id, ip)
      PROVE  Listed' \subseteq Listed
  <2>1. UNCHANGED <<configFile, draft, config>>
    BY <1>4 DEF PairingConfirmed, BeaconMoves
  <2> QED BY <2>1, <1>a, <1>b
<1>6. CASE \E text \in HotkeyTexts, startup \in BOOLEAN : EnterSettings(text, startup)
  <2>1. PICK text \in HotkeyTexts, startup \in BOOLEAN : EnterSettings(text, startup)
    BY <1>6
  <2>2. config' = [config EXCEPT !.hotkey = text, !.startup = startup] /\ UNCHANGED <<configFile, draft>>
    BY <2>1 DEF EnterSettings
  <2>3. config'.devices = config.devices
    BY <1>0, <2>2 DEF Config
  <2>4. Ids(config') = Ids(config)
    BY <2>3 DEF Ids
  <2> QED BY <2>2, <2>4, <1>a, <1>b
<1>7. CASE ToggleStartup \/ ChangeTask
  <2>1. UNCHANGED <<configFile, draft>>
    BY <1>7 DEF ToggleStartup, ChangeTask
  <2>2. config'.devices = config.devices
    <3>1. CASE ToggleStartup
      BY <1>0, <3>1 DEF ToggleStartup, Config
    <3>2. CASE ChangeTask
      BY <1>0, <3>2 DEF ChangeTask, Config
    <3> QED BY <1>7, <3>1, <3>2
  <2>3. Ids(config') = Ids(config)
    BY <2>2 DEF Ids
  <2> QED BY <2>1, <2>3, <1>a, <1>b
<1>8. CASE SetPsk \/ OpenKeys \/ OpenKeysFails \/ WriteKeys \/ (\E was \in BOOLEAN : SaveSettings(was))
           \/ UNCHANGED storeVars
  <2>1. UNCHANGED <<configFile, draft, config>>
    BY <1>8 DEF SetPsk, OpenKeys, OpenKeysFails, WriteKeys, SaveSettings, storeVars
  <2> QED BY <2>1, <1>a, <1>b
<1>9. CASE AssignAddress
  <2>1. job["disco"].ip \in Word
    BY StoreAssumption, WordAssumption DEF ThreadsInv, StoreTypeOK, NoAddr
  <2>2. Ids(config') = Ids(config) /\ UNCHANGED <<configFile, draft>>
    BY <1>0, <1>9, <2>1, SetAddressIs DEF AssignAddress
  <2> QED BY <2>2, <1>a, <1>b
<1>10. CASE AddPaired
  <2>1. job["pair"] \in [id : Device, ip : Addr \cup {NoAddr}]
    BY <1>10 DEF AddPaired, ThreadsInv, StoreTypeOK, Places
  <2>2. Ids(config') \subseteq Ids(config) \cup {job["pair"].id} /\ UNCHANGED <<configFile, draft>>
    BY <1>0, <1>10, <2>1, AddDeviceIs DEF AddPaired
  <2> QED BY <1>10, <2>2, <1>a, <1>b
<1>11. ASSUME NEW t \in Thread, Save(t) PROVE Listed' \subseteq Listed
  <2>1. CASE Open(t)
    <3>1. configFile' = <<>> /\ UNCHANGED <<config, draft>>
      BY <2>1 DEF Open
    <3> QED BY <3>1, <1>a, <1>b, NothingListed
  <2>2. CASE OpenFails(t)
    <3>1. draft' = [draft EXCEPT ![t] = <<>>] /\ UNCHANGED <<config, configFile>>
      BY <2>2 DEF OpenFails, Done
    <3>2. \A u \in Thread : draft'[u] = <<>> \/ draft'[u] = draft[u]
      BY <1>0, <3>1
    <3> QED BY <3>1, <3>2, <1>a, <1>b, NothingListed
  <2>3. CASE SerializeConfig(t)
    <3>1. PICK c \in Readings(t) : draft' = [draft EXCEPT ![t] = Serialize(c)]
      BY <2>3 DEF SerializeConfig
    <3>2. UNCHANGED <<config, configFile>>
      BY <2>3 DEF SerializeConfig
    <3> DEFINE d == Serialize(c)
    <3>3. Ids(Parse(d)) = Ids(config)
      BY ReadingsTyped, ReadsBack
    <3>4. draft' = [draft EXCEPT ![t] = d]
      BY <3>1
    <3> HIDE DEF d
    <3>5. \A u \in Thread : draft'[u] = d \/ draft'[u] = draft[u]
      BY <1>0, <3>4
    <3> QED BY <3>2, <3>3, <3>5, <1>a, <1>b
  <2>4. CASE Write(t)
    <3>1. /\ configFile' \in Overlays(draft[t], configFile)
          /\ draft' = [draft EXCEPT ![t] = <<>>] /\ UNCHANGED config
      BY <2>4 DEF Write, Done
    <3>2. draft[t] \in Seq(Line) /\ Len(draft[t]) > 1
      BY <1>0, <2>4 DEF Write, ThreadsInv, Places
    <3>3. Ids(Parse(configFile')) \subseteq Ids(Parse(draft[t])) \cup Ids(Parse(configFile))
      BY <1>0, <3>1, <3>2, OverlayIs
    <3>4. \A u \in Thread : draft'[u] = <<>> \/ draft'[u] = draft[u]
      BY <1>0, <3>1
    <3> QED BY <3>1, <3>3, <3>4, <1>a, <1>b, NothingListed
  <2> QED BY <1>11, <2>1, <2>2, <2>3, <2>4 DEF Save
<1> QED BY <1>2, <1>3, <1>4, <1>6, <1>7, <1>8, <1>9, <1>10, <1>11 DEF StoreNext, Background

LEMMA KeysInvInit == StoreInit => KeysInv
<1> SUFFICES ASSUME StoreInit PROVE KeysInv
  OBVIOUS
<1> DEFINE first == Ids(Parse(FirstFile)) \cap Device
<1>1. /\ keyFile = first /\ running = FALSE /\ at["pair"] = "idle"
      /\ config = DefaultConfig /\ configFile = FirstFile /\ \A t \in Thread : draft[t] = <<>>
  BY Threads DEF StoreInit
<1>2. Listed \subseteq first
  BY <1>1, NothingListed DEF Listed
<1>3. first # NoKeys
  BY StoreAssumption
<1> HIDE DEF first
<1> QED BY <1>1, <1>2, <1>3 DEF KeysInv

LEMMA KeysInvStep == ThreadsInv /\ KeysInv /\ StoreNext => KeysInv'
<1> SUFFICES ASSUME ThreadsInv, KeysInv, StoreNext, ~keyFault' PROVE KeysInv'
  BY DEF KeysInv
<1> USE Threads DEF memory, files, history
<1> DEFINE id == job["pair"].id
<1>0. /\ at \in [Thread -> {"idle", "assign", "setPsk", "openKeys", "writeKeys", "add",
                            "open", "serialize", "write", "task"}]
      /\ job \in [Thread -> [id : Device \cup {""}, ip : Addr \cup {NoAddr}]]
      /\ keys \subseteq Device
      /\ ~running => at["pair"] = "idle"
  BY DEF ThreadsInv, StoreTypeOK
<1>00. Listed' \subseteq Listed \/ (AddPaired /\ Listed' \subseteq Listed \cup {id})
  BY ListedStep
<1>a. ASSUME UNCHANGED <<running, keys, keyFile, job>>, ~keyFault, Listed' \subseteq Listed,
             at'["pair"] = at["pair"] \/ {at["pair"], at'["pair"]} \cap {"openKeys", "writeKeys", "add"} = {}
      PROVE  KeysInv'
  BY <1>a DEF KeysInv
<1>1. CASE UNCHANGED storeVars
  <2>1. UNCHANGED <<running, keys, keyFile, job, at>> /\ keyFault' = keyFault
    BY <1>1 DEF storeVars
  <2>2. Listed' \subseteq Listed
    BY <1>0, <1>00, <2>1 DEF AddPaired
  <2> QED BY <2>1, <2>2, <1>a
<1>2. CASE Load
  <2>1. /\ running' /\ ~running /\ keys' = ReadKeys /\ UNCHANGED <<at, job, keyFile, keyFault>>
        /\ at["pair"] = "idle"
    BY <1>0, <1>2 DEF Load
  <2>2. ~AddPaired
    BY <2>1 DEF AddPaired
  <2>3. keyFile # NoKeys /\ Listed \subseteq keyFile /\ keys' = keyFile
    BY <2>1 DEF KeysInv, ReadKeys
  <2> QED BY <2>1, <2>2, <2>3, <1>00 DEF KeysInv
<1>3. CASE Stop
  <2>1. /\ ~running' /\ at'["pair"] = "idle" /\ keyFile' = keyFile
        /\ ~keyFault /\ at["pair"] # "writeKeys"
    BY <1>3 DEF Stop
  <2>2. Listed' \subseteq Listed
    <3>1. config' = DefaultConfig /\ configFile' = configFile /\ \A t \in Thread : draft'[t] = <<>>
      BY <1>3 DEF Stop
    <3> QED BY <3>1, NothingListed DEF Listed
  <2>3. keyFile # NoKeys /\ Listed \subseteq keyFile
    BY <2>1 DEF KeysInv
  <2> QED BY <2>1, <2>2, <2>3 DEF KeysInv
<1>4. ASSUME NEW i \in Device, NEW ip \in Addr \cup {NoAddr}, PairingConfirmed(i, ip) PROVE KeysInv'
  <2>1. /\ at["pair"] = "idle" /\ at'["pair"] = "setPsk" /\ running /\ running'
        /\ UNCHANGED <<keys, keyFile>> /\ ~keyFault
    BY <1>0, <1>4 DEF PairingConfirmed
  <2>2. Listed' \subseteq Listed
    BY <2>1, <1>00 DEF AddPaired
  <2> QED BY <2>1, <2>2 DEF KeysInv
<1>5. CASE \/ \E text \in HotkeyTexts, startup \in BOOLEAN : EnterSettings(text, startup)
           \/ \E was \in BOOLEAN : SaveSettings(was)
           \/ ToggleStartup \/ ChangeTask
  <2>1. /\ UNCHANGED <<running, keys, keyFile, job>> /\ ~keyFault /\ at'["pair"] = at["pair"]
    <3>1. UNCHANGED <<running, keys, keyFile, job>> /\ keyFault' = keyFault
      BY <1>5 DEF EnterSettings, SaveSettings, ToggleStartup, ChangeTask
    <3>2. at' = at \/ \E x : at' = [at EXCEPT !["ui"] = x]
      BY <1>5 DEF EnterSettings, SaveSettings, ToggleStartup, ChangeTask
    <3> QED BY <1>0, <3>1, <3>2
  <2>2. Listed' \subseteq Listed
    <3>1. CASE AddPaired
      <4>1. at'["pair"] # at["pair"]
        BY <1>0, <3>1 DEF AddPaired
      <4> QED BY <2>1, <4>1
    <3> QED BY <1>00, <3>1
  <2> QED BY <2>1, <2>2, <1>a
<1>6. ASSUME NEW t \in Thread, Save(t) PROVE KeysInv'
  <2>1. /\ UNCHANGED <<running, keys, keyFile>> /\ ~keyFault
        /\ at[t] \in {"open", "serialize", "write"}
        /\ at' = [at EXCEPT ![t] = at'[t]]
        /\ at'[t] \in {"idle", "task", "serialize", "write"}
        /\ job' = job \/ job' = [job EXCEPT ![t] = NoJob]
    <3>1. CASE Open(t)
      BY <1>0, <3>1 DEF Open
    <3>2. CASE OpenFails(t)
      BY <1>0, <3>2 DEF OpenFails, Done
    <3>3. CASE SerializeConfig(t)
      BY <1>0, <3>3 DEF SerializeConfig
    <3>4. CASE Write(t)
      BY <1>0, <3>4 DEF Write, Done
    <3> QED BY <1>6, <3>1, <3>2, <3>3, <3>4 DEF Save
  <2>2. Listed' \subseteq Listed
    <3>1. CASE AddPaired
      BY <1>0, <2>1, <3>1 DEF AddPaired
    <3> QED BY <1>00, <3>1
  <2>3. CASE t = "pair"
    BY <1>0, <2>1, <2>2, <2>3 DEF KeysInv
  <2>4. CASE t # "pair"
    BY <1>0, <2>1, <2>2, <2>4 DEF KeysInv
  <2> QED BY <2>3, <2>4
<1>7. CASE AssignAddress
  <2>1. /\ UNCHANGED <<running, keys, keyFile, job>> /\ ~keyFault /\ at'["pair"] = at["pair"]
    BY <1>0, <1>7 DEF AssignAddress
  <2>2. ~AddPaired
    <3>1. CASE AddPaired
      BY <1>0, <1>7, <3>1, <2>1 DEF AddPaired
    <3> QED BY <3>1
  <2> QED BY <2>1, <2>2, <1>00, <1>a
<1>8. CASE SetPsk
  <2>1. /\ UNCHANGED <<running, keyFile, job>> /\ ~keyFault /\ keys' = keys \cup {id}
        /\ at["pair"] = "setPsk" /\ at'["pair"] = "openKeys"
    BY <1>0, <1>8 DEF SetPsk
  <2>2. Listed' \subseteq Listed
    BY <2>1, <1>00 DEF AddPaired
  <2> QED BY <2>1, <2>2 DEF KeysInv
<1>9. CASE OpenKeys
  <2>1. /\ UNCHANGED <<running, keys, job>> /\ ~keyFault
        /\ at["pair"] = "openKeys" /\ at'["pair"] = "writeKeys"
    BY <1>0, <1>9 DEF OpenKeys
  <2>2. Listed' \subseteq Listed
    BY <2>1, <1>00 DEF AddPaired
  <2> QED BY <2>1, <2>2 DEF KeysInv
<1>10. CASE OpenKeysFails
  BY <1>10 DEF OpenKeysFails, KeysInv
<1>11. CASE WriteKeys
  <2>1. /\ UNCHANGED <<running, keys, job>> /\ ~keyFault /\ keyFile' = keys
        /\ at["pair"] = "writeKeys" /\ at'["pair"] = "add" /\ running
    BY <1>0, <1>11 DEF WriteKeys
  <2>2. Listed' \subseteq Listed
    BY <2>1, <1>00 DEF AddPaired
  <2>3. keys # NoKeys
    BY <1>0, StoreAssumption
  <2> QED BY <2>1, <2>2, <2>3 DEF KeysInv
<1>12. CASE AddPaired
  <2>1. /\ UNCHANGED <<running, keys, keyFile, job>> /\ ~keyFault
        /\ at["pair"] = "add" /\ at'["pair"] = "open" /\ running
    BY <1>0, <1>12 DEF AddPaired
  <2>2. Listed' \subseteq Listed \cup {id} /\ id \in keys \cap keyFile
    BY <2>1, <1>00 DEF KeysInv
  <2> HIDE DEF id
  <2> QED BY <2>1, <2>2 DEF KeysInv
<1>13. CASE \E i \in Device, ip \in Addr : BeaconMoves(i, ip)
  <2>1. /\ UNCHANGED <<running, keys, keyFile>> /\ ~keyFault /\ at'["pair"] = at["pair"]
        /\ job'["pair"] = job["pair"]
    <3>1. PICK i \in Device, ip \in Addr : BeaconMoves(i, ip)
      BY <1>13
    <3>2. UNCHANGED <<running, keys, keyFile>> /\ keyFault' = keyFault
      BY <3>1 DEF BeaconMoves
    <3>3. /\ at' = [at EXCEPT !["disco"] = "assign"]
          /\ job' = [job EXCEPT !["disco"] = [id |-> i, ip |-> ip]]
      BY <3>1 DEF BeaconMoves
    <3> QED BY <1>0, <3>2, <3>3
  <2>2. Listed' \subseteq Listed
    <3>1. CASE AddPaired
      <4>1. at'["pair"] # at["pair"]
        BY <1>0, <3>1 DEF AddPaired
      <4> QED BY <2>1, <4>1
    <3> QED BY <1>00, <3>1
  <2> QED BY <2>1, <2>2 DEF KeysInv
<1> QED BY <1>1, <1>2, <1>3, <1>4, <1>5, <1>6, <1>7, <1>8, <1>9, <1>10, <1>11, <1>12, <1>13
       DEF StoreNext, Background

THEOREM KeysInvariant == Spec => []KeysInv
<1>1. Init => KeysInv
  BY KeysInvInit DEF Init
<1>2. LoopsInv /\ ThreadsInv /\ KeysInv /\ [Next]_vars => KeysInv'
  BY StepsOfTheStore, KeysInvStep
<1> QED BY <1>1, <1>2, LoopsInvariant, ThreadsInvariant, PTL DEF Spec

(* No machine is listed, in memory or on disk, without its key, wherever the
   application ends, but for a save of the keys that fails or is cut short
   (runPairingSession). *)
THEOREM KeysComeFirst == Spec => []ListedHaveKeys
<1>1. KeysInv => ListedHaveKeys
  BY DEF KeysInv, ListedHaveKeys, Listed
<1> QED BY <1>1, KeysInvariant, PTL
----------------------------------------------------------------------------
(* Saves reach the file. *)

(* What was saved in a window stays to be written until its loop returns. *)
SavedAreDone ==
  \A i \in DOMAIN loops : loops[i].kind = "settings" /\ loops[i].result => loops[i].done

(* A save is to come that will read the memory as it is then. *)
Preparing == {"assign", "setPsk", "openKeys", "writeKeys", "add", "open", "serialize"}
Coming == Unsaved \/ \E t \in Thread : at[t] \in Preparing

(* Unless saves have met, one thread at most saves, over an empty file; and the
   memory is in the file, on the way to it, or will be saved. *)
SaveInv ==
  running /\ ~mixed =>
    /\ \A t, u \in Thread : Saving(t) /\ Saving(u) => t = u
    /\ \A t \in Thread : Saving(t) => configFile = <<>>
    /\ \/ Coming
       \/ \E t \in Thread : at[t] = "write" /\ draft[t] = Serialize(config)
       \/ Parse(configFile) = config /\ \A t \in Thread : ~Saving(t)

(* A window is opened: the loops that run stay as they are. *)
LEMMA OpeningKeepsSaved ==
  ASSUME LoopsInv, SavedAreDone, NEW kind \in Kind, NEW was, ShowWindow(kind, was)
  PROVE  SavedAreDone' /\ (Unsaved => Unsaved')
<1> DEFINE replaces == kind = "picker" /\ windows["picker"] > 0
           loop == [kind |-> kind, done |-> replaces, result |-> FALSE,
                    was |-> kind = "settings" /\ was = TRUE]
<1>1. loop \in Loop /\ loop.result = FALSE
  BY DEF Loop
<1>2. loops' = Append(loops, loop)
  BY DEF ShowWindow
<1> HIDE DEF loop
<1>3. /\ loops' \in Seq(Loop) /\ Len(loops') = Len(loops) + 1
      /\ \A i \in 1..Len(loops) : loops'[i] = loops[i]
      /\ loops'[Len(loops) + 1] = loop
      /\ Len(loops) \in Nat
  BY <1>1, <1>2 DEF LoopsInv
<1>4. DOMAIN loops = 1..Len(loops) /\ DOMAIN loops' = 1..(Len(loops) + 1)
  BY <1>3, LenProperties DEF LoopsInv
<1>5. SavedAreDone'
  <2> SUFFICES ASSUME NEW i \in DOMAIN loops', loops'[i].kind = "settings", loops'[i].result
               PROVE  loops'[i].done
    BY DEF SavedAreDone
  <2>1. i # Len(loops) + 1
    BY <1>1, <1>3
  <2>2. i \in 1..Len(loops)
    BY <1>3, <1>4, <2>1
  <2> QED BY <1>3, <1>4, <2>2 DEF SavedAreDone
<1>6. Unsaved => Unsaved'
  <2> SUFFICES ASSUME NEW i \in DOMAIN loops, loops[i].kind = "settings", loops[i].result
               PROVE  Unsaved'
    BY DEF Unsaved
  <2>1. i \in DOMAIN loops' /\ loops'[i] = loops[i]
    BY <1>3, <1>4
  <2> QED BY <2>1 DEF Unsaved
<1> QED BY <1>5, <1>6

(* A window is answered: only what was saved or chosen in it changes, and what
   was saved stays. *)
LEMMA AnsweringKeepsSaved ==
  ASSUME LoopsInv, SavedAreDone, NEW kind \in Kind, NEW result \in BOOLEAN, Answer(kind, result)
  PROVE  /\ SavedAreDone' /\ (Unsaved => Unsaved')
         /\ kind = "settings" /\ result /\ state[kind] # 0 => Unsaved'
<1>1. CASE state[kind] = 0
  <2>1. loops' = loops
    BY <1>1 DEF Answer
  <2> QED BY <1>1, <2>1 DEF SavedAreDone, Unsaved
<1>2. CASE state[kind] # 0
  <2> DEFINE n == state[kind]
  <2>1. n \in 1..Len(loops) /\ loops[n] \in Loop /\ loops[n].kind = kind /\ DOMAIN loops = 1..Len(loops)
    BY <1>2, LenProperties DEF LoopsInv, NoDanglingState
  <2>2. loops' = [loops EXCEPT ![n].done = TRUE,
                               ![n].result = (@ /\ kind # "picker") \/ result]
    BY <1>2 DEF Answer
  <2> HIDE DEF n
  <2> DEFINE new == [loops[n] EXCEPT !.done = TRUE,
                                     !.result = (@ /\ kind # "picker") \/ result]
  <2>3. loops' = [loops EXCEPT ![n] = new]
    BY <2>1, <2>2 DEF LoopsInv
  <2>4. /\ new.done = TRUE /\ new.kind = kind
        /\ new.result = ((loops[n].result /\ kind # "picker") \/ result)
    BY <2>1 DEF Loop
  <2> HIDE DEF new
  <2>5. DOMAIN loops' = DOMAIN loops /\ loops'[n] = new /\ \A i \in DOMAIN loops : i # n => loops'[i] = loops[i]
    BY <2>1, <2>3
  <2>6. SavedAreDone'
    <3> SUFFICES ASSUME NEW i \in DOMAIN loops', loops'[i].kind = "settings", loops'[i].result
                 PROVE  loops'[i].done
      BY DEF SavedAreDone
    <3>1. CASE i = n
      BY <2>4, <2>5, <3>1
    <3>2. CASE i # n
      BY <2>5, <3>2 DEF SavedAreDone
    <3> QED BY <3>1, <3>2
  <2>7. ASSUME Unsaved PROVE Unsaved'
    <3>1. PICK i \in DOMAIN loops : loops[i].kind = "settings" /\ loops[i].result
      BY <2>7 DEF Unsaved
    <3>2. CASE i = n
      <4>1. loops'[n].kind = "settings" /\ loops'[n].result
        BY <2>1, <2>4, <2>5, <3>1, <3>2
      <4> QED BY <2>1, <2>5, <4>1 DEF Unsaved
    <3>3. CASE i # n
      <4>1. i \in DOMAIN loops' /\ loops'[i] = loops[i]
        BY <2>5, <3>3
      <4> QED BY <3>1, <4>1 DEF Unsaved
    <3> QED BY <3>2, <3>3
  <2>8. ASSUME kind = "settings", result PROVE Unsaved'
    <3>1. loops'[n].kind = "settings" /\ loops'[n].result
      BY <2>4, <2>5, <2>8
    <3> QED BY <2>1, <2>5, <3>1 DEF Unsaved
  <2> QED BY <2>6, <2>7, <2>8
<1> QED BY <1>1, <1>2

(* A loop returns: the others stay as they are. *)
LEMMA LeavingKeepsSaved ==
  ASSUME LoopsInv, SavedAreDone, loops # <<>>, loops' = Front(loops)
  PROVE  /\ SavedAreDone'
         /\ Unsaved => Unsaved' \/ (Last(loops).kind = "settings" /\ Last(loops).result)
<1> DEFINE n == Len(loops)
<1>1. loops \in Seq(Loop) /\ n \in Nat \ {0} /\ DOMAIN loops = 1..n /\ Last(loops) = loops[n]
  BY EmptySeq, LenProperties DEF LoopsInv, Last
<1>2. /\ DOMAIN loops' = 1..(n - 1)
      /\ \A i \in 1..(n - 1) : loops'[i] = loops[i]
  <2>1. loops' \in Seq(Loop) /\ Len(loops') = n - 1 /\ \A i \in 1..(n - 1) : loops'[i] = loops[i]
    BY <1>1, FrontIs
  <2> HIDE DEF n
  <2> QED BY <2>1, LenProperties
<1> HIDE DEF n
<1>3. \A i \in 1..n : i = n \/ i \in 1..(n - 1)
  BY <1>1
<1>4. SavedAreDone'
  <2>1. \A i \in 1..(n - 1) : i \in DOMAIN loops
    BY <1>1
  <2> QED BY <1>2, <2>1 DEF SavedAreDone
<1>5. ASSUME Unsaved PROVE Unsaved' \/ (Last(loops).kind = "settings" /\ Last(loops).result)
  <2>1. PICK i \in DOMAIN loops : loops[i].kind = "settings" /\ loops[i].result
    BY <1>5 DEF Unsaved
  <2>2. CASE i = n
    BY <1>1, <2>1, <2>2
  <2>3. CASE i \in 1..(n - 1)
    BY <1>2, <2>1, <2>3 DEF Unsaved
  <2> QED BY <1>1, <1>3, <2>2, <2>3
<1> QED BY <1>4, <1>5

(* What a step does to the store, and to what the windows have saved: a loop
   that returns with saved settings makes its caller save them. *)
LEMMA StepsOfSaving ==
  ASSUME LoopsInv, SavedAreDone, ~running => loops = <<>>, [Next]_vars
  PROVE  /\ SavedAreDone'
         /\ \/ ~running'
            \/ Load /\ loops' = <<>>
            \/ UNCHANGED storeVars /\ (Unsaved => Unsaved')
            \/ Unsaved' /\ \E text \in HotkeyTexts, startup \in BOOLEAN : EnterSettings(text, startup)
            \/ \E was : SaveSettings(was)
            \/ ToggleStartup
            \/ \E id \in Device, ip \in Addr \cup {NoAddr} : PairingConfirmed(id, ip)
            \/ Background /\ loops' = loops
<1> USE DEF InLoops
<1>0. "settings" \in Kind /\ "picker" \in Kind /\ "add" \in Kind
  BY DEF Kind
<1>a. loops' = loops => SavedAreDone' /\ (Unsaved => Unsaved')
  BY DEF SavedAreDone, Unsaved
<1>1. CASE UNCHANGED vars
  BY <1>1, <1>a DEF vars, loopVars
<1>2. CASE Begin
  <2>1. Load /\ loops' = loops /\ loops = <<>>
    BY <1>2 DEF Begin, Load, loopVars
  <2> QED BY <2>1, <1>a
<1>3. CASE Dies \/ MainLoopTakesQuit \/ NullPointer
  <2>1. loops' = <<>> /\ running' = FALSE
    BY <1>3 DEF Dies, Crash, MainLoopTakesQuit, NullPointer, Ends, LoopsEnd, Stop
  <2>2. SavedAreDone'
    BY <2>1 DEF SavedAreDone
  <2> QED BY <2>1, <2>2
<1>4. CASE Opens
  <2>1. UNCHANGED storeVars /\ \E kind \in Kind : \E was : ShowWindow(kind, was)
    BY <1>0, <1>4 DEF Opens, OpensAdd, OpenPicker, OpenFromMenu
  <2>2. SavedAreDone' /\ (Unsaved => Unsaved')
    BY <2>1, OpeningKeepsSaved
  <2> QED BY <2>1, <2>2
<1>5. CASE Answers
  <2>1. UNCHANGED storeVars /\ \E kind \in Kind, result \in BOOLEAN : Answer(kind, result)
    BY <1>0, <1>5, LoopsAssumption
       DEF Answers, PickerKey, PickerLosesFocus, AnswerAdd, AnswerSettings
  <2>2. SavedAreDone' /\ (Unsaved => Unsaved')
    BY <2>1, AnsweringKeepsSaved
  <2> QED BY <2>1, <2>2
<1>6. CASE \E text \in HotkeyTexts, startup \in BOOLEAN : PressSave(text, startup)
  <2>1. PICK text \in HotkeyTexts, startup \in BOOLEAN : PressSave(text, startup)
    BY <1>6
  <2>2. Answer("settings", TRUE)
    BY <2>1 DEF PressSave, AnswerSettings
  <2>3. /\ SavedAreDone' /\ (Unsaved => Unsaved')
        /\ state["settings"] # 0 => Unsaved'
    BY <1>0, <2>2, AnsweringKeepsSaved
  <2>4. CASE state["settings"] # 0
    BY <2>1, <2>3, <2>4 DEF PressSave
  <2>5. CASE state["settings"] = 0
    BY <2>1, <2>3, <2>5 DEF PressSave
  <2> QED BY <2>4, <2>5
<1>7. CASE LoopReturns
  <2>1. loops # <<>> /\ loops' = Front(loops)
    BY <1>7 DEF LoopReturns, Return, Returning, Leave
  <2>2. /\ SavedAreDone'
        /\ Unsaved => Unsaved' \/ (Last(loops).kind = "settings" /\ Last(loops).result)
    BY <2>1, LeavingKeepsSaved
  <2>3. CASE Last(loops).kind = "settings" /\ Last(loops).result
    BY <1>7, <2>2, <2>3 DEF LoopReturns
  <2>4. CASE ~(Last(loops).kind = "settings" /\ Last(loops).result)
    BY <1>7, <2>2, <2>4 DEF LoopReturns
  <2> QED BY <2>3, <2>4
<1>8. CASE LoopTakesQuit
  <2>1. loops # <<>> /\ loops' = Front(loops) /\ ~Last(loops).done /\ UNCHANGED storeVars
    BY <1>8 DEF LoopTakesQuit, TakeQuit, Dispatching, Returning, Leave
  <2>2. /\ SavedAreDone'
        /\ Unsaved => Unsaved' \/ (Last(loops).kind = "settings" /\ Last(loops).result)
    BY <2>1, LeavingKeepsSaved
  <2>3. ~(Last(loops).kind = "settings" /\ Last(loops).result)
    <3>1. Len(loops) \in DOMAIN loops
      BY <2>1, EmptySeq, LenProperties DEF LoopsInv
    <3> QED BY <2>1, <3>1 DEF SavedAreDone, Last
  <2> QED BY <2>1, <2>2, <2>3
<1>9. CASE Quits
  BY <1>9, <1>a DEF Quits, AskQuit
<1>10. CASE MenuStartup
  BY <1>10, <1>a DEF MenuStartup, loopVars
<1>11. CASE Pairs
  BY <1>11, <1>a DEF Pairs, loopVars
<1>12. CASE Works
  BY <1>12, <1>a DEF Works, loopVars
<1> QED BY <1>1, <1>2, <1>3, <1>4, <1>5, <1>6, <1>7, <1>8, <1>9, <1>10, <1>11, <1>12 DEF Next

(* The step of a save. *)
LEMMA SaveStep ==
  ASSUME ThreadsInv, SaveInv, NEW t \in Thread, Save(t), loops' = loops
  PROVE  SaveInv'
<1> SUFFICES ASSUME running', ~mixed' PROVE SaveInv'
  BY DEF SaveInv
<1> USE Threads DEF memory, files, history
<1>0. /\ at \in [Thread -> {"idle", "assign", "setPsk", "openKeys", "writeKeys", "add",
                            "open", "serialize", "write", "task"}]
      /\ draft \in [Thread -> Seq(Line)] /\ config \in Config
      /\ mutex \in {"disco", "pair", Nobody}
      /\ ~running => at = [u \in Thread |-> "idle"]
      /\ \A u \in {"disco", "pair"} : at[u] # "idle" <=> mutex = u
  BY DEF ThreadsInv, StoreTypeOK, Places
<1>u. Unsaved => Unsaved'
  BY DEF Unsaved
<1>1. CASE Open(t)
  <2>1. /\ at' = [at EXCEPT ![t] = "serialize"] /\ configFile' = <<>>
        /\ ~MeetsAnother(t)
    BY <1>1 DEF Open
  <2>2. \A u \in Thread : u # t => ~Saving(u)
    <3> SUFFICES ASSUME NEW u \in Thread, u # t, Saving(u) PROVE FALSE
      OBVIOUS
    <3>1. t # "ui" /\ u # "ui"
      BY <2>1 DEF MeetsAnother
    <3>2. at[t] # "idle" /\ at[u] # "idle"
      BY <1>1 DEF Open, Saving
    <3> QED BY <1>0, <3>1, <3>2
  <2>3. \A u \in Thread : Saving(u)' => u = t
    BY <1>0, <2>1, <2>2 DEF Saving
  <2>4. Coming'
    <3>1. at'[t] \in Preparing
      BY <1>0, <2>1 DEF Preparing
    <3> QED BY <3>1 DEF Coming
  <2> QED BY <2>1, <2>3, <2>4 DEF SaveInv
<1>2. CASE OpenFails(t)
  BY <1>2 DEF OpenFails
<1>3. CASE SerializeConfig(t)
  <2>1. /\ at[t] = "serialize" /\ at' = [at EXCEPT ![t] = "write"]
        /\ UNCHANGED <<running, config, configFile, mutex>> /\ mixed' = mixed
    BY <1>3 DEF SerializeConfig
  <2>2. running /\ ~mixed
    BY <1>0, <2>1
  <2>3. \A u \in Thread : Saving(u)' <=> Saving(u)
    BY <1>0, <2>1 DEF Saving
  <2>4. PICK c \in Readings(t) : draft' = [draft EXCEPT ![t] = Serialize(c)]
    BY <1>3 DEF SerializeConfig
  <2>5. Coming' \/ \E u \in Thread : at'[u] = "write" /\ draft'[u] = Serialize(config)
    <3>1. CASE c = config
      <4>1. at'[t] = "write" /\ draft'[t] = Serialize(config)
        BY <1>0, <2>1, <2>4, <3>1
      <4> QED BY <4>1
    <3>2. CASE c # config
      <4>1. mutex \in Thread /\ mutex # t /\ at[mutex] = "assign"
        BY <1>0, <3>2 DEF Readings
      <4>2. at'[mutex] \in Preparing
        BY <1>0, <2>1, <4>1 DEF Preparing
      <4>3. \E u \in Thread : at'[u] \in Preparing
        BY <4>1, <4>2
      <4> QED BY <4>3 DEF Coming
    <3> QED BY <3>1, <3>2
  <2> QED BY <2>1, <2>2, <2>3, <2>5 DEF SaveInv
<1>4. CASE Write(t)
  <2>1. /\ at[t] = "write" /\ configFile' \in Overlays(draft[t], configFile)
        /\ at' = [at EXCEPT ![t] = IF t = "ui" /\ retask THEN "task" ELSE "idle"]
        /\ UNCHANGED <<running, config>> /\ mixed' = mixed
    BY <1>4 DEF Write, Done
  <2>2. running /\ ~mixed
    BY <1>0, <2>1
  <2>3. Saving(t) /\ \A u \in Thread : Saving(u) => u = t
    BY <2>1, <2>2 DEF SaveInv, Saving
  <2>4. configFile = <<>>
    BY <2>2, <2>3 DEF SaveInv
  <2>5. configFile' = draft[t]
    <3>1. Len(configFile) = 0 /\ Len(draft[t]) \in Nat
      BY <1>0, <2>4, LenProperties
    <3>2. ~(Len(configFile) > Len(draft[t]))
      BY <3>1
    <3> QED BY <2>1, <3>2 DEF Overlays
  <2>6. \A u \in Thread : ~Saving(u)'
    BY <1>0, <2>1, <2>3 DEF Saving
  <2>7. CASE Coming
    <3>1. Coming'
      <4>1. CASE Unsaved
        BY <1>u, <4>1 DEF Coming
      <4>2. CASE \E u \in Thread : at[u] \in Preparing
        <5>1. PICK u \in Thread : at[u] \in Preparing
          BY <4>2
        <5>2. u # t
          BY <2>1, <5>1 DEF Preparing
        <5>3. at'[u] \in Preparing
          BY <1>0, <2>1, <5>1, <5>2
        <5> QED BY <5>3 DEF Coming
      <4> QED BY <2>7, <4>1, <4>2 DEF Coming
    <3> QED BY <2>6, <3>1 DEF SaveInv
  <2>8. CASE ~Coming
    <3>1. PICK u \in Thread : at[u] = "write" /\ draft[u] = Serialize(config)
      BY <2>2, <2>3, <2>8 DEF SaveInv
    <3>2. u = t
      BY <2>3, <3>1 DEF Saving
    <3>3. Parse(configFile') = config
      BY <1>0, <2>5, <3>1, <3>2, ReadsBack
    <3>4. config' = config
      BY <2>1
    <3> QED BY <2>6, <3>3, <3>4 DEF SaveInv
  <2> QED BY <2>7, <2>8
<1> QED BY <1>1, <1>2, <1>3, <1>4 DEF Save

LEMMA SaveInvStep ==
  ASSUME LoopsInv, SavedAreDone, ~running => loops = <<>>, ThreadsInv, SaveInv, [Next]_vars
  PROVE  SaveInv'
<1> SUFFICES ASSUME running', ~mixed' PROVE SaveInv'
  BY DEF SaveInv
<1> USE Threads DEF memory, files, history
<1>0. /\ at \in [Thread -> {"idle", "assign", "setPsk", "openKeys", "writeKeys", "add",
                            "open", "serialize", "write", "task"}]
      /\ ~running => at = [u \in Thread |-> "idle"]
  BY DEF ThreadsInv, StoreTypeOK
(* Where no save begins or ends, it suffices that one is to come. *)
<1>a. ASSUME running' = running, mixed' = mixed, configFile' = configFile,
             \A u \in Thread : Saving(u)' <=> Saving(u), Coming'
      PROVE  SaveInv'
  BY <1>a DEF SaveInv
<1>b. ASSUME NEW u \in Thread, at'[u] \in Preparing PROVE Coming'
  BY <1>b DEF Coming
<1>1. CASE UNCHANGED storeVars /\ (Unsaved => Unsaved')
  <2>1. Coming => Coming'
    BY <1>1 DEF storeVars, Coming
  <2>2. UNCHANGED <<running, mixed, configFile, config, at, draft>>
    BY <1>1 DEF storeVars
  <2> QED BY <2>1, <2>2 DEF SaveInv, Saving
<1>2. CASE Load /\ loops' = <<>>
  <2>1. ~running /\ config' = Parse(configFile) /\ configFile' = configFile /\ at' = at
    BY <1>2 DEF Load
  <2>2. \A u \in Thread : ~Saving(u)'
    BY <1>0, <2>1 DEF Saving
  <2> QED BY <2>1, <2>2 DEF SaveInv
<1>3. CASE Unsaved' /\ \E text \in HotkeyTexts, startup \in BOOLEAN : EnterSettings(text, startup)
  <2>1. UNCHANGED <<running, mixed, configFile, at>>
    BY <1>3 DEF EnterSettings
  <2> QED BY <1>3, <2>1, <1>a DEF Coming, Saving
<1>4. CASE ToggleStartup \/ \E was : SaveSettings(was)
  <2>1. /\ UNCHANGED <<running, mixed, configFile>>
        /\ at["ui"] = "idle" /\ at' = [at EXCEPT !["ui"] = "open"]
    BY <1>4 DEF ToggleStartup, SaveSettings
  <2>2. \A u \in Thread : Saving(u)' <=> Saving(u)
    BY <1>0, <2>1 DEF Saving
  <2>3. at'["ui"] \in Preparing
    BY <1>0, <2>1 DEF Preparing
  <2> QED BY <2>1, <2>2, <2>3, <1>a, <1>b
<1>5. CASE \E id \in Device, ip \in Addr \cup {NoAddr} : PairingConfirmed(id, ip)
  <2>1. /\ UNCHANGED <<running, mixed, configFile>>
        /\ at["pair"] = "idle" /\ at' = [at EXCEPT !["pair"] = "setPsk"]
    BY <1>5 DEF PairingConfirmed
  <2>2. \A u \in Thread : Saving(u)' <=> Saving(u)
    BY <1>0, <2>1 DEF Saving
  <2>3. at'["pair"] \in Preparing
    BY <1>0, <2>1 DEF Preparing
  <2> QED BY <2>1, <2>2, <2>3, <1>a, <1>b
<1>6. CASE Background /\ loops' = loops
  <2>1. CASE \E t \in Thread : Save(t)
    BY <1>6, <2>1, SaveStep
  <2>2. CASE AssignAddress \/ \E id \in Device, ip \in Addr : BeaconMoves(id, ip)
    <3>1. /\ UNCHANGED <<running, mixed, configFile>>
          /\ at["disco"] \in {"idle", "assign"}
          /\ \E x \in {"assign", "open"} : at' = [at EXCEPT !["disco"] = x]
      BY <2>2 DEF AssignAddress, BeaconMoves
    <3>2. \A u \in Thread : Saving(u)' <=> Saving(u)
      BY <1>0, <3>1 DEF Saving
    <3>3. at'["disco"] \in Preparing
      BY <1>0, <3>1 DEF Preparing
    <3> QED BY <3>1, <3>2, <3>3, <1>a, <1>b
  <2>3. CASE SetPsk \/ OpenKeys \/ OpenKeysFails \/ WriteKeys \/ AddPaired
    <3>1. /\ UNCHANGED <<running, mixed, configFile>>
          /\ at["pair"] \in {"setPsk", "openKeys", "writeKeys", "add"}
          /\ \E x \in {"openKeys", "writeKeys", "add", "open"} : at' = [at EXCEPT !["pair"] = x]
      BY <2>3 DEF SetPsk, OpenKeys, OpenKeysFails, WriteKeys, AddPaired
    <3>2. \A u \in Thread : Saving(u)' <=> Saving(u)
      BY <1>0, <3>1 DEF Saving
    <3>3. at'["pair"] \in Preparing
      BY <1>0, <3>1 DEF Preparing
    <3> QED BY <3>1, <3>2, <3>3, <1>a, <1>b
  <2>4. CASE ChangeTask
    <3>1. /\ UNCHANGED <<running, configFile, draft>> /\ mixed' = mixed /\ at["ui"] = "task"
          /\ \/ at' = [at EXCEPT !["ui"] = "idle"] /\ config' = config
             \/ at' = [at EXCEPT !["ui"] = "open"]
      BY <2>4 DEF ChangeTask
    <3>2. \A u \in Thread : Saving(u)' <=> Saving(u)
      BY <1>0, <3>1 DEF Saving
    <3>3. CASE at' = [at EXCEPT !["ui"] = "open"]
      <4>1. at'["ui"] \in Preparing
        BY <1>0, <3>3 DEF Preparing
      <4> QED BY <3>1, <3>2, <4>1, <1>a, <1>b
    <3>4. CASE at' = [at EXCEPT !["ui"] = "idle"] /\ config' = config
      <4>1. \A u \in Thread : at[u] \in Preparing \cup {"write"} => at'[u] = at[u]
        BY <1>0, <3>1, <3>4 DEF Preparing
      <4>2. Coming => Coming'
        BY <1>6, <4>1 DEF Coming, Unsaved
      <4>3. (\E u \in Thread : at[u] = "write" /\ draft[u] = Serialize(config))
              => \E u \in Thread : at'[u] = "write" /\ draft'[u] = Serialize(config)
        BY <3>1, <4>1
      <4> QED BY <3>1, <3>2, <3>4, <4>2, <4>3 DEF SaveInv
    <3> QED BY <3>1, <3>3, <3>4
  <2> QED BY <1>6, <2>1, <2>2, <2>3, <2>4 DEF Background
<1> QED BY <1>1, <1>2, <1>3, <1>4, <1>5, <1>6, StepsOfSaving

(* A save is to come, or on the way, or done. *)
THEOREM SavesInvariant == Spec => [](SavedAreDone /\ SaveInv)
<1>1. Init => SavedAreDone /\ SaveInv
  BY DEF Init, StoreInit, LoopsInit, SavedAreDone, SaveInv
<1>2. TypeOK => (~running => loops = <<>>)
  BY DEF TypeOK
<1>3. LoopsInv /\ ThreadsInv /\ TypeOK /\ SavedAreDone /\ SaveInv /\ [Next]_vars => (SavedAreDone /\ SaveInv)'
  BY <1>2, StepsOfSaving, SaveInvStep
<1> QED BY <1>1, <1>3, LoopsInvariant, ThreadsInvariant, TrayTyped, PTL DEF Spec

(* What the threads and the user have changed is in the file when nobody saves
   and no saved window waits for its loop, unless a save of the UI thread met
   another one or the file was not opened ("survive restart", tray_win.cpp). *)
THEOREM SavesReachTheFile == Spec => []SavedWhenQuiet
<1>1. SaveInv => SavedWhenQuiet
  <2> SUFFICES ASSUME SaveInv, Quiet, ~Unsaved, ~mixed PROVE Parse(configFile) = config
    BY DEF SavedWhenQuiet
  <2>1. ~Coming /\ ~\E t \in Thread : at[t] = "write" /\ draft[t] = Serialize(config)
    BY DEF Quiet, Coming, Preparing
  <2> QED BY <2>1 DEF SaveInv, Quiet
<1> QED BY <1>1, SavesInvariant, PTL
=============================================================================
