--------------------------- MODULE NotificationProofs ---------------------------
(***************************************************************************)
(* The notification center keeps its promises for all sets of channels,    *)
(* configs and marks and any number of changes and crashes: the invariants *)
(* of the handlers' loops, of Notify's loop and of the marks, and from     *)
(* them that a failing channel is isolated and that what is recorded was   *)
(* announced.  The two loops of updateConfigFromConfigmap, whose writes    *)
(* interleave with everything else, implement the application of the       *)
(* ConfigMap as a whole, and leave the channels of its last version.       *)
(***************************************************************************)
EXTENDS NotificationCenter, SequenceTheorems, TLAPS

\* The reconcile worker is in Notify.
Notifying == worker \in {"range", "posting"}

\* What the handler's loops have done and what they are about to write.
HandlerInv ==
    /\ \A c \in todo : data[c] # Nil
    /\ handler = "idle" => writing = Nil
    /\ handler = "remove" => todo = {}
    /\ handler = "update" /\ writing # Nil
           => writing \in todo /\ validateAndSetDefault(data[writing]) # Refused
    /\ handler = "remove" /\ writing # Nil => data[writing] = Nil
    /\ handler # "idle" =>
           \A c \in Channels \ todo : data[c] # Nil /\ validateAndSetDefault(data[c]) # Refused
               => Notifiers[c] = validateAndSetDefault(data[c])
    /\ ~present => configMap = NoChannels

\* A condition of the copy was announced, or is just being announced.
AnnouncedInv ==
    /\ Notifying => mark \in Marks
    /\ \A k \in ConditionTypes : conditions[k] # NoMark =>
           conditions[k] \in announced \/ (Notifying /\ conditions[k] = mark)
    /\ RecordedWasAnnounced

\* The channels that Notify owes a post are in the map as it saw them, and the
\* loop cannot miss them.
OwedInv ==
    /\ owed \subseteq certain
    /\ owed \cap visited \subseteq posted
    /\ ~Notifying => owed = {}
    /\ \A c \in owed : Notifiers[c] # Nil /\ Matches(Notifiers[c], mark.reason)

CenterInv == TypeOK /\ HandlerInv /\ AnnouncedInv /\ OwedInv

-----------------------------------------------------------------------------
LEMMA Bounds == MaxChanges \in Nat /\ MaxMarks \in Nat /\ MaxCrashes \in Nat
  BY MarksAssumption

\* A validated config can be compared by Notify.
LEMMA Validated ==
    ASSUME NEW raw \in RawConfigs \cup {Malformed}, validateAndSetDefault(raw) # Refused
    PROVE  /\ validateAndSetDefault(raw) \in Config
           /\ validateAndSetDefault(raw).level \in Levels
  <1>1. raw \in RawConfigs /\ raw # Malformed /\ raw.notifier = "slack"
        /\ raw.level \in Levels \cup {""}
    BY DEF validateAndSetDefault
  <1>2. validateAndSetDefault(raw) \in Config
    BY <1>1 DEF Config
  <1>3. validateAndSetDefault(raw) = DefaultLevel(raw)
    BY <1>1 DEF validateAndSetDefault
  <1>4. "level" \in DOMAIN raw
    BY <1>1, ConfigsAssumption
  <1>5. DefaultLevel(raw).level \in Levels
    BY <1>1, <1>4 DEF DefaultLevel, Levels
  <1> QED
    BY <1>2, <1>3, <1>5

LEMMA InitCenter == Init => CenterInv
  <1> SUFFICES ASSUME Init
               PROVE  CenterInv
    OBVIOUS
  <1>1. NoChannels \in Data /\ NoConditions \in [ConditionTypes -> Marks \cup {NoMark}]
    BY DEF NoChannels, NoConditions, Data
  <1>3. 0 \in 0..MaxChanges /\ 0 \in 0..MaxMarks /\ 0 \in 0..MaxCrashes
    BY Bounds
  <1>4. Notifiers \in [Channels -> Config \cup {Nil}]
        /\ \A c \in Channels : Notifiers[c] = Nil
    BY DEF Init, NoChannels
  <1>5. TypeOK
    <2>1. events \in Seq(Event)
      BY DEF Init
    <2>2. /\ changes \in 0..MaxChanges /\ marks \in 0..MaxMarks /\ crashes \in 0..MaxCrashes
          /\ configMap \in Data /\ data \in Data
          /\ stored \in [ConditionTypes -> Marks \cup {NoMark}]
          /\ conditions \in [ConditionTypes -> Marks \cup {NoMark}]
      BY <1>1, <1>3 DEF Init
    <2> QED
      BY <1>4, <2>1, <2>2 DEF Init, TypeOK
  <1>6. HandlerInv
    BY DEF Init, HandlerInv
  <1>7. AnnouncedInv
    BY DEF Init, AnnouncedInv, RecordedWasAnnounced, NoConditions, Notifying
  <1>8. OwedInv
    BY DEF Init, OwedInv, Notifying
  <1> QED
    BY <1>5, <1>6, <1>7, <1>8 DEF CenterInv

-----------------------------------------------------------------------------
\* The types.

LEMMA EventStep ==
    ASSUME TypeOK, NEW kind \in {"apply", "tombstone"}, NEW new \in Data,
           events' = Append(events, [kind |-> kind, data |-> new])
    PROVE  events' \in Seq(Event)
  <1>1. [kind |-> kind, data |-> new] \in Event
    BY DEF Event
  <1> QED
    BY <1>1 DEF TypeOK

LEMMA TypeStep == CenterInv /\ [Next]_vars => TypeOK'
  <1> SUFFICES ASSUME CenterInv, [Next]_vars
               PROVE  TypeOK'
    OBVIOUS
  <1>0. TypeOK
    BY DEF CenterInv
  <1>1. NoChannels \in Data /\ NoConditions \in [ConditionTypes -> Marks \cup {NoMark}]
    BY DEF NoChannels, NoConditions, Data
  <1>2. MaxChanges \in Nat /\ MaxMarks \in Nat /\ MaxCrashes \in Nat
    BY Bounds
  <1>3. ASSUME NEW new \in Data, Publish(new) PROVE TypeOK'
    <2>1. events' \in Seq(Event)
      BY <1>0, <1>3, EventStep DEF Publish
    <2>2. changes' \in 0..MaxChanges
      BY <1>0, <1>2, <1>3 DEF Publish, TypeOK
    <2> QED
      BY <1>0, <1>3, <2>1, <2>2 DEF Publish, TypeOK, handling, request, history
  <1>4. ASSUME NEW kind \in {"apply", "tombstone"}, Unpublish(kind) PROVE TypeOK'
    <2>1. events' \in Seq(Event)
      BY <1>0, <1>1, <1>4, EventStep DEF Unpublish
    <2>2. changes' \in 0..MaxChanges
      BY <1>0, <1>2, <1>4 DEF Unpublish, TypeOK
    <2> QED
      BY <1>0, <1>1, <1>4, <2>1, <2>2 DEF Unpublish, TypeOK, handling, request, history
  <1>5. CASE TakeEvent
    <2>1. Head(events) \in Event /\ Tail(events) \in Seq(Event)
      BY <1>0, <1>5 DEF TakeEvent, TypeOK
    <2>2. data' \in Data /\ todo' \subseteq Channels
      BY <1>5, <2>1 DEF TakeEvent, Event
    <2> QED
      BY <1>0, <1>5, <2>1, <2>2 DEF TakeEvent, TypeOK, request, history, counters
  <1>6. ASSUME NEW c \in Channels, SkipChannel(c) \/ BeginWrite(c) PROVE TypeOK'
    BY <1>0, <1>6 DEF SkipChannel, BeginWrite, TypeOK, informer, request, history, counters
  <1>7. CASE EndWrite
    <2>1. /\ Notifiers' \in [Channels -> Config \cup {Nil}]
          /\ \A c \in Channels : Notifiers'[c] # Nil => Notifiers'[c].level \in Levels
      <3> DEFINE new == IF handler = "remove" THEN Nil ELSE validateAndSetDefault(data[writing])
      <3>1. writing \in Channels /\ writing # Nil /\ handler \in {"idle", "update", "remove"}
        BY <1>0, <1>7 DEF EndWrite, TypeOK
      <3>2. new = Nil \/ (new \in Config /\ new.level \in Levels)
        <4>1. CASE handler = "update"
          <5>1. data[writing] # Nil /\ validateAndSetDefault(data[writing]) # Refused
            BY <3>1, <4>1 DEF CenterInv, HandlerInv
          <5>2. data[writing] \in RawConfigs \cup {Malformed}
            BY <1>0, <3>1, <5>1 DEF TypeOK, Data
          <5> QED
            BY <4>1, <5>1, <5>2, Validated
        <4> QED
          BY <3>1, <4>1 DEF CenterInv, HandlerInv
      <3> HIDE DEF new
      <3>3. Notifiers' = [Notifiers EXCEPT ![writing] = new]
        BY <1>7 DEF EndWrite, new
      <3>4. Notifiers \in [Channels -> Config \cup {Nil}]
            /\ \A c \in Channels : Notifiers[c] # Nil => Notifiers[c].level \in Levels
        BY <1>0 DEF TypeOK
      <3> QED
        BY <3>1, <3>2, <3>3, <3>4
    <2>2. todo' \subseteq Channels /\ certain' \subseteq Channels /\ owed' \subseteq Channels
          /\ writing' = Nil
      BY <1>0, <1>7 DEF EndWrite, TypeOK
    <2> QED
      BY <1>0, <1>7, <2>1, <2>2 DEF EndWrite, TypeOK, informer, counters
  <1>8. CASE EndFirstLoop \/ EndHandler
    BY <1>0, <1>1, <1>8
       DEF EndFirstLoop, EndHandler, TypeOK, informer, request, history, counters
  <1>9. CASE Begin \/ EndRequest \/ Answer
    BY <1>0, <1>1, <1>9
       DEF Begin, EndRequest, Answer, TypeOK, informer, handling, history, counters
  <1>10. ASSUME NEW m \in Marks, Mark(m) PROVE TypeOK'
    <2>1. conditions' \in [ConditionTypes -> Marks \cup {NoMark}]
      BY <1>0, <1>10 DEF Mark, TypeOK
    <2>2. certain' \subseteq Channels /\ owed' \subseteq Channels
      BY <1>10 DEF Mark
    <2>3. marks' \in 0..MaxMarks
      BY <1>0, <1>2, <1>10 DEF Mark, TypeOK
    <2> QED
      BY <1>0, <1>10, <2>1, <2>2, <2>3 DEF Mark, TypeOK, informer, handling
  <1>16. ASSUME NEW m \in Marks, MarkWithoutChannels(m) PROVE TypeOK'
    <2>1. conditions' \in [ConditionTypes -> Marks \cup {NoMark}]
      BY <1>0, <1>16 DEF MarkWithoutChannels, TypeOK
    <2>2. marks' \in 0..MaxMarks
      BY <1>0, <1>2, <1>16 DEF MarkWithoutChannels, TypeOK
    <2> QED
      BY <1>0, <1>16, <2>1, <2>2 DEF MarkWithoutChannels, TypeOK, informer, handling
  <1>11. ASSUME NEW c \in Channels, Visit(c) PROVE TypeOK'
    BY <1>0, <1>11 DEF Visit, TypeOK, informer, handling, counters
  <1>12. CASE EndNotify
    <2>1. announced' \subseteq Marks
      BY <1>0, <1>12 DEF EndNotify, TypeOK, CenterInv, AnnouncedInv, Notifying
    <2> QED
      BY <1>0, <1>12, <2>1 DEF EndNotify, TypeOK, informer, handling, counters
  <1>13. ASSUME Restart, crashes' \in 0..MaxCrashes, fatal' \in {"no", "map", "tombstone"} PROVE TypeOK'
    <2>1. events' \in Seq(Event)
      <3>1. [kind |-> "apply", data |-> configMap] \in Event
        BY <1>0 DEF TypeOK, Event
      <3> QED
        BY <1>13, <3>1 DEF Restart
    <2>2. /\ Notifiers' \in [Channels -> Config \cup {Nil}]
          /\ \A c \in Channels : Notifiers'[c] = Nil
      BY <1>13 DEF Restart, NoChannels
    <2> QED
      BY <1>0, <1>1, <1>13, <2>1, <2>2 DEF Restart, TypeOK
  <1>14. CASE Crash \/ ConcurrentMapAccess \/ PanicOnTombstone
    <2>1. Restart /\ fatal' \in {"no", "map", "tombstone"}
      BY <1>0, <1>14 DEF Crash, ConcurrentMapAccess, PanicOnTombstone, TypeOK
    <2>2. crashes' = crashes \/ (crashes < MaxCrashes /\ crashes' = crashes + 1)
      BY <1>14 DEF Crash, ConcurrentMapAccess, PanicOnTombstone
    <2>3. crashes' \in 0..MaxCrashes
      BY <1>0, <1>2, <2>2 DEF TypeOK
    <2> QED
      BY <1>13, <2>1, <2>3
  <1>15. CASE UNCHANGED vars
    BY <1>0, <1>15
       DEF vars, TypeOK, informer, handling, request, history, counters
  <1> QED
    BY <1>3, <1>4, <1>5, <1>6, <1>7, <1>8, <1>9, <1>10, <1>11, <1>12, <1>14, <1>15,
       <1>16
       DEF Next, User, Handler, Worker

-----------------------------------------------------------------------------
\* The loops of the handler.

LEMMA HandlerStep == CenterInv /\ [Next]_vars => HandlerInv'
  <1> SUFFICES ASSUME CenterInv, [Next]_vars
               PROVE  HandlerInv'
    OBVIOUS
  <1>0. TypeOK /\ HandlerInv
    BY DEF CenterInv
  <1>1. ASSUME UNCHANGED <<Notifiers, handling, configMap, present>> PROVE HandlerInv'
    BY <1>0, <1>1 DEF HandlerInv, handling
  <1>2. CASE User
    BY <1>0, <1>2 DEF User, Publish, Unpublish, HandlerInv, handling
  <1>3. CASE TakeEvent
    BY <1>0, <1>3 DEF TakeEvent, HandlerInv
  <1>4. ASSUME NEW c \in Channels, SkipChannel(c) PROVE HandlerInv'
    BY <1>0, <1>4 DEF SkipChannel, HandlerInv, informer
  <1>5. ASSUME NEW c \in Channels, BeginWrite(c) PROVE HandlerInv'
    BY <1>0, <1>5 DEF BeginWrite, HandlerInv, informer
  <1>6. CASE EndWrite
    <2>1. writing \in Channels /\ handler \in {"update", "remove"}
          /\ Notifiers \in [Channels -> Config \cup {Nil}]
      BY <1>0, <1>6 DEF EndWrite, TypeOK, HandlerInv
    <2> QED
      BY <1>0, <1>6, <2>1 DEF EndWrite, HandlerInv, informer
  <1>7. CASE EndFirstLoop \/ EndHandler
    BY <1>0, <1>7 DEF EndFirstLoop, EndHandler, HandlerInv, informer
  <1>8. CASE Worker \/ Answer \/ UNCHANGED vars
    BY <1>1, <1>8
       DEF Worker, Begin, Mark, MarkWithoutChannels, Visit, EndNotify, EndRequest, Answer, vars, informer
  <1>9. CASE Crash \/ ConcurrentMapAccess \/ PanicOnTombstone
    <2>1. Restart
      BY <1>9 DEF Crash, ConcurrentMapAccess, PanicOnTombstone
    <2> QED
      BY <1>0, <2>1 DEF Restart, HandlerInv
  <1> QED
    BY <1>2, <1>3, <1>4, <1>5, <1>6, <1>7, <1>8, <1>9 DEF Next, Handler

-----------------------------------------------------------------------------
\* What was announced, and what Notify owes.

LEMMA AnnouncedStep == CenterInv /\ [Next]_vars => AnnouncedInv'
  <1> SUFFICES ASSUME CenterInv, [Next]_vars
               PROVE  AnnouncedInv'
    OBVIOUS
  <1>0. TypeOK /\ AnnouncedInv
    BY DEF CenterInv
  <1>1. ASSUME UNCHANGED <<stored, worker, conditions, mark, announced>> PROVE AnnouncedInv'
    BY <1>0, <1>1 DEF AnnouncedInv, RecordedWasAnnounced, Notifying
  <1>2. CASE User \/ TakeEvent \/ EndFirstLoop \/ EndHandler \/ EndWrite \/ UNCHANGED vars
    BY <1>1, <1>2
       DEF User, Publish, Unpublish, TakeEvent, EndFirstLoop, EndHandler, EndWrite, vars,
           request, history
  <1>3. ASSUME NEW c \in Channels, SkipChannel(c) \/ BeginWrite(c) PROVE AnnouncedInv'
    BY <1>1, <1>3 DEF SkipChannel, BeginWrite, request, history
  <1>4. CASE Begin
    BY <1>0, <1>4 DEF Begin, AnnouncedInv, RecordedWasAnnounced, Notifying, history
  <1>5. ASSUME NEW m \in Marks, Mark(m) PROVE AnnouncedInv'
    <2>1. conditions \in [ConditionTypes -> Marks \cup {NoMark}]
      BY <1>0 DEF TypeOK
    <2> QED
      BY <1>0, <1>5, <2>1 DEF Mark, AnnouncedInv, RecordedWasAnnounced, Notifying
  <1>11. ASSUME NEW m \in Marks, MarkWithoutChannels(m) PROVE AnnouncedInv'
    <2>1. conditions \in [ConditionTypes -> Marks \cup {NoMark}]
      BY <1>0 DEF TypeOK
    <2>2. ~Notifying /\ ~Notifying'
      BY <1>11 DEF MarkWithoutChannels, Notifying
    <2> QED
      BY <1>0, <1>11, <2>1, <2>2 DEF MarkWithoutChannels, AnnouncedInv, RecordedWasAnnounced
  <1>6. ASSUME NEW c \in Channels, Visit(c) PROVE AnnouncedInv'
    BY <1>0, <1>6 DEF Visit, AnnouncedInv, RecordedWasAnnounced, Notifying
  <1>7. CASE Answer
    BY <1>0, <1>7 DEF Answer, AnnouncedInv, RecordedWasAnnounced, Notifying, history
  <1>8. CASE EndNotify
    BY <1>0, <1>8 DEF EndNotify, AnnouncedInv, RecordedWasAnnounced, Notifying
  <1>9. CASE EndRequest
    BY <1>0, <1>9
       DEF EndRequest, AnnouncedInv, RecordedWasAnnounced, Notifying, NoConditions, history
  <1>10. CASE Crash \/ ConcurrentMapAccess \/ PanicOnTombstone
    <2>1. Restart
      BY <1>10 DEF Crash, ConcurrentMapAccess, PanicOnTombstone
    <2> QED
      BY <1>0, <2>1 DEF Restart, AnnouncedInv, RecordedWasAnnounced, Notifying, NoConditions
  <1> QED
    BY <1>2, <1>3, <1>4, <1>5, <1>6, <1>7, <1>8, <1>9, <1>10, <1>11
       DEF Next, Handler, Worker

LEMMA OwedStep == CenterInv /\ [Next]_vars => OwedInv'
  <1> SUFFICES ASSUME CenterInv, [Next]_vars
               PROVE  OwedInv'
    OBVIOUS
  <1>0. TypeOK /\ OwedInv /\ HandlerInv
    BY DEF CenterInv
  <1>1. ASSUME UNCHANGED <<Notifiers, worker, mark, visited, certain, owed, posted>>
        PROVE  OwedInv'
    BY <1>0, <1>1 DEF OwedInv, Notifying
  <1>2. CASE User \/ TakeEvent \/ EndFirstLoop \/ EndHandler \/ UNCHANGED vars
    BY <1>1, <1>2
       DEF User, Publish, Unpublish, TakeEvent, EndFirstLoop, EndHandler, vars,
           request, history
  <1>3. ASSUME NEW c \in Channels, SkipChannel(c) \/ BeginWrite(c) PROVE OwedInv'
    BY <1>1, <1>3 DEF SkipChannel, BeginWrite, request, history
  <1>4. CASE EndWrite
    <2>1. /\ owed' = owed \ {writing} /\ certain \ {writing} \subseteq certain'
          /\ UNCHANGED <<worker, mark, visited, posted>>
      BY <1>4 DEF EndWrite, request, history
    <2>2. Notifiers \in [Channels -> Config \cup {Nil}] /\ owed \subseteq Channels
      BY <1>0 DEF TypeOK
    <2>3. \A c \in owed \ {writing} : Notifiers'[c] = Notifiers[c]
      BY <1>4, <2>2 DEF EndWrite
    <2> QED
      BY <1>0, <2>1, <2>3 DEF OwedInv, Notifying
  <1>5. CASE Begin \/ EndRequest
    BY <1>0, <1>5 DEF Begin, EndRequest, OwedInv, Notifying, history
  <1>6. ASSUME NEW m \in Marks, Mark(m) PROVE OwedInv'
    BY <1>0, <1>6 DEF Mark, OwedInv, Notifying
  <1>11. ASSUME NEW m \in Marks, MarkWithoutChannels(m) PROVE OwedInv'
    BY <1>1, <1>11 DEF MarkWithoutChannels
  <1>7. ASSUME NEW c \in Channels, Visit(c) PROVE OwedInv'
    BY <1>0, <1>7 DEF Visit, OwedInv, Notifying
  <1>8. CASE Answer
    BY <1>0, <1>8 DEF Answer, OwedInv, Notifying, history
  <1>9. CASE EndNotify
    BY <1>0, <1>9 DEF EndNotify, OwedInv
  <1>10. CASE Crash \/ ConcurrentMapAccess \/ PanicOnTombstone
    <2>1. Restart
      BY <1>10 DEF Crash, ConcurrentMapAccess, PanicOnTombstone
    <2> QED
      BY <2>1 DEF Restart, OwedInv
  <1> QED
    BY <1>2, <1>3, <1>4, <1>5, <1>6, <1>7, <1>8, <1>9, <1>10, <1>11
       DEF Next, Handler, Worker

\* The inductive invariant of the notification center (updateConfigFromConfigmap,
\* Notify and the mark functions).
THEOREM CenterInvariant == Spec => []CenterInv
  <1>1. CenterInv /\ [Next]_vars => CenterInv'
    BY TypeStep, HandlerStep, AnnouncedStep, OwedStep DEF CenterInv
  <1> QED
    BY <1>1, InitCenter, PTL DEF Spec

-----------------------------------------------------------------------------
\* The notifiers keep their types, in particular their levels can be compared
\* (validateAndSetDefault, level2Int).
THEOREM CenterTypeCorrect == Spec => []TypeOK
  BY CenterInvariant, PTL DEF CenterInv

\* No condition is recorded before it was announced, whatever is lost (the mark
\* functions of recorder.go notify before endRequest writes).
THEOREM RecordedAnnounced == Spec => []RecordedWasAnnounced
  BY CenterInvariant, PTL DEF CenterInv, AnnouncedInv

\* A failing channel does not silence the others (Notify logs and goes on).
THEOREM FailuresIsolated == Spec => FailureIsolated
  <1>1. CenterInv /\ [Next]_vars =>
            [worker = "range" /\ worker' = "running" => owed \subseteq posted]_vars
    <2> SUFFICES ASSUME CenterInv, [Next]_vars, worker = "range", worker' = "running"
                 PROVE  owed \subseteq posted
      OBVIOUS
    <2>1. EndNotify
      BY DEF Next, User, Publish, Unpublish, Handler, TakeEvent, SkipChannel, BeginWrite,
             EndWrite, EndFirstLoop, EndHandler, PanicOnTombstone, Worker, Begin, Mark,
             MarkWithoutChannels, Visit,
             EndRequest, Answer, Crash, ConcurrentMapAccess, Restart, vars, request
    <2> QED
      BY <2>1 DEF EndNotify, CenterInv, OwedInv
  <1> QED
    BY <1>1, CenterInvariant, PTL DEF Spec, FailureIsolated

-----------------------------------------------------------------------------
\* The refinement mapping, by name.
Datas(s) == [i \in DOMAIN s |-> s[i].data]
Current == IF handler = "idle" THEN Notifiers ELSE Settled

LEMMA DatasSeq ==
    ASSUME NEW s \in Seq(Event)
    PROVE  /\ Datas(s) \in Seq(Data)
           /\ Len(Datas(s)) = Len(s)
           /\ \A i \in 1..Len(s) : Datas(s)[i] = s[i].data
  <1>1. Len(s) \in Nat /\ DOMAIN s = 1..Len(s)
    BY LenProperties
  <1>2. \A i \in 1..Len(s) : s[i].data \in Data
    <2>1. \A i \in 1..Len(s) : s[i] \in Event
      BY ElementOfSeq
    <2> QED
      BY <2>1 DEF Event
  <1>3. Datas(s) = [i \in 1..Len(s) |-> s[i].data]
    BY <1>1 DEF Datas
  <1>4. Datas(s) \in [1..Len(s) -> Data]
    BY <1>2, <1>3
  <1>5. Datas(s) \in Seq(Data)
    BY <1>1, <1>4, SeqDef
  <1>6. Len(Datas(s)) = Len(s)
    BY <1>1, <1>3
  <1> QED
    BY <1>3, <1>5, <1>6

LEMMA DatasAppend ==
    ASSUME NEW s \in Seq(Event), NEW e \in Event
    PROVE  Datas(Append(s, e)) = Append(Datas(s), e.data)
  <1>1. Len(s) \in Nat /\ e.data \in Data
    BY LenProperties DEF Event
  <1>2. /\ Append(s, e) \in Seq(Event) /\ Len(Append(s, e)) = Len(s) + 1
        /\ \A i \in 1..Len(s) : Append(s, e)[i] = s[i]
        /\ Append(s, e)[Len(s) + 1] = e
    BY AppendProperties
  <1>3. /\ Append(Datas(s), e.data) \in Seq(Data)
        /\ Len(Append(Datas(s), e.data)) = Len(s) + 1
        /\ \A i \in 1..Len(s) : Append(Datas(s), e.data)[i] = s[i].data
        /\ Append(Datas(s), e.data)[Len(s) + 1] = e.data
    <2>1. /\ Datas(s) \in Seq(Data) /\ Len(Datas(s)) = Len(s)
          /\ \A i \in 1..Len(s) : Datas(s)[i] = s[i].data
      BY DatasSeq
    <2> HIDE DEF Datas
    <2>2. /\ Append(Datas(s), e.data) \in Seq(Data)
          /\ Len(Append(Datas(s), e.data)) = Len(Datas(s)) + 1
          /\ \A i \in 1..Len(Datas(s)) : Append(Datas(s), e.data)[i] = Datas(s)[i]
          /\ Append(Datas(s), e.data)[Len(Datas(s)) + 1] = e.data
      BY <1>1, <2>1, AppendProperties
    <2> QED
      BY <2>1, <2>2
  <1>4. /\ Datas(Append(s, e)) \in Seq(Data)
        /\ Len(Datas(Append(s, e))) = Len(s) + 1
        /\ \A i \in 1..(Len(s) + 1) : Datas(Append(s, e))[i] = Append(s, e)[i].data
    BY <1>2, DatasSeq
  <1>5. \A i \in 1..(Len(s) + 1) : i \in 1..Len(s) \/ i = Len(s) + 1
    BY <1>1
  <1>6. \A i \in 1..(Len(s) + 1) : Datas(Append(s, e))[i] = Append(Datas(s), e.data)[i]
    BY <1>2, <1>3, <1>4, <1>5
  <1> QED
    BY <1>3, <1>4, <1>6, SeqEqual

LEMMA DatasHead ==
    ASSUME NEW s \in Seq(Event), s # <<>>
    PROVE  /\ Datas(s) # <<>>
           /\ Head(s) \in Event /\ Head(Datas(s)) = Head(s).data
           /\ Datas(Tail(s)) = Tail(Datas(s))
  <1>1. Len(s) \in Nat \ {0} /\ Head(s) = s[1]
    BY EmptySeq
  <1>2. /\ Head(s) \in Event /\ Tail(s) \in Seq(Event) /\ Len(Tail(s)) = Len(s) - 1
        /\ \A i \in 1..(Len(s) - 1) : Tail(s)[i] = s[i + 1]
    BY HeadTailProperties
  <1>3. /\ Datas(s) \in Seq(Data) /\ Len(Datas(s)) = Len(s)
        /\ \A i \in 1..Len(s) : Datas(s)[i] = s[i].data
    BY DatasSeq
  <1>4. Datas(s) # <<>> /\ Head(Datas(s)) = Datas(s)[1]
    BY <1>1, <1>3, EmptySeq
  <1>5. /\ Tail(Datas(s)) \in Seq(Data) /\ Len(Tail(Datas(s))) = Len(s) - 1
        /\ \A i \in 1..(Len(s) - 1) : Tail(Datas(s))[i] = Datas(s)[i + 1]
    BY <1>3, <1>4, HeadTailProperties
  <1>6. /\ Datas(Tail(s)) \in Seq(Data) /\ Len(Datas(Tail(s))) = Len(s) - 1
        /\ \A i \in 1..(Len(s) - 1) : Datas(Tail(s))[i] = Tail(s)[i].data
    BY <1>2, DatasSeq
  <1>7. \A i \in 1..(Len(s) - 1) : Datas(s)[i + 1] = s[i + 1].data
    BY <1>1, <1>3
  <1>8. Datas(Tail(s)) = Tail(Datas(s))
    BY <1>2, <1>5, <1>6, <1>7, SeqEqual
  <1>9. Head(Datas(s)) = Head(s).data
    BY <1>1, <1>3, <1>4
  <1> QED
    BY <1>2, <1>4, <1>8, <1>9

\* The abstract specification parses what the handler validates.
LEMMA SameData == Registry!Data = Data /\ Registry!NoChannels = NoChannels
  <1>1. (RawConfigs \cup {Malformed}) \cup {Nil} = RawConfigs \cup {Malformed, Nil}
    OBVIOUS
  <1> QED
    BY <1>1 DEF Registry!Data, Registry!NoChannels, Data, NoChannels

LEMMA SameParse ==
    ASSUME NEW new \in Data, NEW c \in Channels, new[c] # Nil
    PROVE  [raw \in RawConfigs \cup {Malformed} |-> validateAndSetDefault(raw)][new[c]]
               = validateAndSetDefault(new[c])
  <1>1. new[c] \in RawConfigs \cup {Malformed}
    BY DEF Data
  <1> QED
    BY <1>1

LEMMA Unseen ==
    ASSUME UNCHANGED <<configMap, events>>, Current' = Current
    PROVE  UNCHANGED Registry!vars
  BY DEF Registry!vars, Current

-----------------------------------------------------------------------------
LEMMA RegistryInit == Init => Registry!Init
  <1> SUFFICES ASSUME Init
               PROVE  Registry!Init
    OBVIOUS
  <1>1. [i \in DOMAIN events |-> events[i].data] = <<>>
    BY DEF Init
  <1> QED
    BY <1>1, SameData DEF Init, Registry!Init

\* Each step of the center is one of the registry, or not seen there.
LEMMA RegistryStep == CenterInv /\ [Next]_vars => [Registry!Next]_(Registry!vars)
  <1> SUFFICES ASSUME CenterInv, [Next]_vars
               PROVE  [Registry!Next]_(Registry!vars)
    OBVIOUS
  <1>0. TypeOK /\ HandlerInv
    BY DEF CenterInv
  <1>1. events \in Seq(Event) /\ configMap \in Data /\ data \in Data
        /\ Notifiers \in [Channels -> Config \cup {Nil}]
    BY <1>0 DEF TypeOK
  <1>2. ASSUME NEW kind \in {"apply", "tombstone"}, NEW new \in Data,
               events' = Append(events, [kind |-> kind, data |-> new]), configMap' = new,
               UNCHANGED <<handler, data, Notifiers>>
        PROVE  Registry!Next
    <2>1. [kind |-> kind, data |-> new] \in Event
      BY DEF Event
    <2>2. Datas(events') = Append(Datas(events), new)
      BY <1>1, <1>2, <2>1, DatasAppend
    <2>3. Current' = Current
      BY <1>2 DEF Current, Settled
    <2>4. Registry!Publish(new)
      BY <1>2, <2>2, <2>3 DEF Registry!Publish, Datas, Current
    <2> QED
      BY <2>4, SameData DEF Registry!Next
  <1>3. CASE User
    <2>1. NoChannels \in Data
      BY DEF NoChannels, Data
    <2> QED
      BY <1>2, <1>3, <2>1 DEF User, Publish, Unpublish, handling
  <1>4. CASE TakeEvent
    <2>1. events # <<>> /\ data' = Head(events).data /\ events' = Tail(events)
          /\ handler = "idle" /\ handler' = "update" /\ UNCHANGED <<Notifiers, configMap>>
      BY <1>4 DEF TakeEvent
    <2>2. Datas(events) # <<>> /\ data' = Head(Datas(events))
          /\ Datas(events') = Tail(Datas(events))
      BY <1>1, <2>1, DatasHead
    <2>3. data' \in Data
      BY <1>1, <2>1, DatasHead DEF Event
    <2>4. Current = Notifiers /\ Current' = Settled'
      BY <2>1 DEF Current
    <2>5. Settled' = Registry!After(data')
      BY <2>1, <2>3, <2>4, SameParse DEF Settled, Registry!After, Current
    <2>6. Registry!Apply
      BY <2>1, <2>2, <2>4, <2>5 DEF Registry!Apply, Datas, Current
    <2> QED
      BY <2>6 DEF Registry!Next
  <1>5. ASSUME NEW c \in Channels, SkipChannel(c) \/ BeginWrite(c)
        PROVE  UNCHANGED Registry!vars
    <2>1. UNCHANGED <<configMap, events, handler, data, Notifiers>>
      BY <1>5 DEF SkipChannel, BeginWrite, informer
    <2>2. Current' = Current
      BY <2>1 DEF Current, Settled
    <2> QED
      BY <2>1, <2>2, Unseen
  <1>6. CASE EndFirstLoop
    <2>1. UNCHANGED <<configMap, events, data, Notifiers>>
          /\ handler # "idle" /\ handler' # "idle"
      BY <1>6 DEF EndFirstLoop, informer
    <2>2. Current' = Current
      BY <2>1 DEF Current, Settled
    <2> QED
      BY <2>1, <2>2, Unseen
  <1>7. CASE EndWrite
    <2>1. /\ UNCHANGED <<configMap, events, data, handler>>
          /\ writing \in Channels /\ handler # "idle"
      BY <1>0, <1>7 DEF EndWrite, TypeOK, HandlerInv, informer
    <2>2. \A c \in Channels : c # writing => Notifiers'[c] = Notifiers[c]
      BY <1>1, <1>7 DEF EndWrite
    <2>3. data[writing] # Nil => validateAndSetDefault(data[writing]) # Refused
      BY <1>0, <1>7, <2>1 DEF EndWrite, TypeOK, HandlerInv
    <2>4. Settled' = Settled
      BY <2>1, <2>2, <2>3 DEF Settled
    <2>5. Current' = Current
      BY <2>1, <2>4 DEF Current
    <2> QED
      BY <2>1, <2>5, Unseen
  <1>8. CASE EndHandler
    <2>1. /\ UNCHANGED <<configMap, events, Notifiers>>
          /\ handler = "remove" /\ handler' = "idle" /\ todo = {}
      BY <1>0, <1>8 DEF EndHandler, HandlerInv, informer
    <2>2. \A c \in Channels :
              Notifiers[c] = IF data[c] = Nil THEN Nil
                             ELSE IF validateAndSetDefault(data[c]) = Refused THEN Notifiers[c]
                             ELSE validateAndSetDefault(data[c])
      BY <1>0, <1>8, <2>1 DEF EndHandler, HandlerInv
    <2>3. Settled = Notifiers
      BY <1>1, <2>2 DEF Settled
    <2>4. Current' = Current
      BY <2>1, <2>3 DEF Current
    <2> QED
      BY <2>1, <2>4, Unseen
  <1>9. CASE Worker \/ Answer \/ UNCHANGED vars
    <2>1. UNCHANGED <<configMap, events, handler, data, Notifiers>>
      BY <1>9
         DEF Worker, Begin, Mark, MarkWithoutChannels, Visit, EndNotify, EndRequest, Answer, vars, informer, handling
    <2>2. Current' = Current
      BY <2>1 DEF Current, Settled
    <2> QED
      BY <2>1, <2>2, Unseen
  <1>10. CASE Crash \/ ConcurrentMapAccess \/ PanicOnTombstone
    <2>1. Restart
      BY <1>10 DEF Crash, ConcurrentMapAccess, PanicOnTombstone
    <2>2. Current' = NoChannels /\ configMap' = configMap
      BY <2>1 DEF Restart, Current
    <2>3. \/ Datas(events') = <<configMap>>
          \/ Datas(events') = <<>> /\ configMap = NoChannels
      <3>1. CASE present
        <4>1. events' = <<[kind |-> "apply", data |-> configMap]>>
          BY <2>1, <3>1 DEF Restart
        <4>2. DOMAIN events' = 1..1 /\ events'[1].data = configMap
          BY <4>1
        <4>3. Datas(events') = [i \in 1..1 |-> configMap]
          BY <4>2 DEF Datas
        <4>4. <<configMap>> = [i \in 1..1 |-> configMap]
          OBVIOUS
        <4> QED
          BY <4>3, <4>4
      <3>2. CASE ~present
        <4>1. events' = <<>>
          BY <2>1, <3>2 DEF Restart
        <4>2. Datas(events') = <<>>
          BY <4>1 DEF Datas
        <4> QED
          BY <1>0, <3>2, <4>2 DEF HandlerInv
      <3> QED
        BY <3>1, <3>2
    <2>4. Registry!Restart
      BY <2>2, <2>3, SameData DEF Registry!Restart, Datas, Current
    <2> QED
      BY <2>4 DEF Registry!Next
  <1> QED
    BY <1>3, <1>4, <1>5, <1>6, <1>7, <1>8, <1>9, <1>10 DEF Next, Handler

\* Every version of the ConfigMap takes effect once, in order and as a whole,
\* whatever the loops of its handler interleave with (updateConfigFromConfigmap,
\* removeNotifiers).
THEOREM WholeConfigApplied == Spec => AppliesWholeConfig
  BY RegistryInit, RegistryStep, CenterInvariant, PTL DEF Spec, AppliesWholeConfig, Registry!Spec

-----------------------------------------------------------------------------
\* The version that the handler has yet to finish last is the ConfigMap's; when
\* there is none, the channels are those of the ConfigMap.
Agrees(version) ==
    \A c \in Channels :
        /\ version[c] = Nil => Notifiers[c] = Nil
        /\ version[c] # Nil /\ validateAndSetDefault(version[c]) # Refused
               => Notifiers[c] = validateAndSetDefault(version[c])

LatestInv ==
    /\ events # <<>> => events[Len(events)].data = configMap
    /\ events = <<>> /\ handler # "idle" => data = configMap
    /\ Quiet => Agrees(configMap)

LEMMA LatestStep == CenterInv /\ LatestInv /\ [Next]_vars => LatestInv'
  <1> SUFFICES ASSUME CenterInv, LatestInv, [Next]_vars
               PROVE  LatestInv'
    OBVIOUS
  <1>0. TypeOK /\ HandlerInv
    BY DEF CenterInv
  <1>1. events \in Seq(Event) /\ configMap \in Data
    BY <1>0 DEF TypeOK
  <1>2. ASSUME UNCHANGED <<configMap, events, handler, data, Notifiers>> PROVE LatestInv'
    BY <1>2 DEF LatestInv, Agrees, Quiet
  <1>3. ASSUME NEW kind \in {"apply", "tombstone"}, NEW new \in Data,
               events' = Append(events, [kind |-> kind, data |-> new]), configMap' = new
        PROVE  LatestInv'
    <2>1. [kind |-> kind, data |-> new] \in Event
      BY DEF Event
    <2>2. /\ events' # <<>> /\ Len(events') = Len(events) + 1
          /\ events'[Len(events) + 1] = [kind |-> kind, data |-> new]
      BY <1>1, <1>3, <2>1, AppendProperties
    <2> QED
      BY <1>3, <2>2 DEF LatestInv, Quiet
  <1>4. CASE User
    <2>1. NoChannels \in Data
      BY DEF NoChannels, Data
    <2> QED
      BY <1>3, <1>4, <2>1 DEF User, Publish, Unpublish
  <1>5. CASE TakeEvent
    <2>1. /\ events # <<>> /\ events' = Tail(events) /\ data' = Head(events).data
          /\ handler' = "update" /\ configMap' = configMap
      BY <1>5 DEF TakeEvent
    <2>2. /\ Len(events) \in Nat \ {0} /\ Head(events) = events[1]
          /\ Tail(events) \in Seq(Event) /\ Len(Tail(events)) = Len(events) - 1
          /\ \A i \in 1..(Len(events) - 1) : Tail(events)[i] = events[i + 1]
      BY <1>1, <2>1, EmptySeq, HeadTailProperties
    <2>3. CASE events' = <<>>
      <3>0. Tail(events) = <<>>
        BY <2>1, <2>3
      <3>1. Len(Tail(events)) = 0
        BY <2>2, <3>0, EmptySeq
      <3>2. Len(events) = 1
        <4>1. \A n \in Nat : n - 1 = 0 => n = 1
          OBVIOUS
        <4>2. Len(events) \in Nat /\ Len(events) - 1 = 0
          BY <2>2, <3>1, Zenon
        <4> QED
          BY <4>1, <4>2, Zenon
      <3>3. data' = configMap
        BY <2>1, <2>2, <3>2 DEF LatestInv
      <3> QED
        BY <2>1, <2>3, <3>3 DEF LatestInv, Quiet
    <2>4. CASE events' # <<>>
      <3>1. Len(events') \in Nat \ {0} /\ Len(events') = Len(events) - 1
        BY <2>1, <2>2, <2>4, EmptySeq
      <3>2. events'[Len(events')] = events[Len(events)]
        BY <2>1, <2>2, <3>1
      <3> QED
        BY <2>1, <2>4, <3>2 DEF LatestInv, Quiet
    <2> QED
      BY <2>3, <2>4
  <1>6. ASSUME NEW c \in Channels, SkipChannel(c) \/ BeginWrite(c) PROVE LatestInv'
    <2>1. UNCHANGED <<configMap, events, handler, data, Notifiers>>
      BY <1>6 DEF SkipChannel, BeginWrite, informer
    <2> QED
      BY <1>2, <2>1
  <1>7. CASE EndWrite \/ EndFirstLoop
    <2>1. /\ UNCHANGED <<configMap, events, data>>
          /\ handler # "idle" /\ handler' # "idle"
      BY <1>0, <1>7 DEF EndWrite, EndFirstLoop, HandlerInv, informer
    <2> QED
      BY <2>1 DEF LatestInv, Quiet
  <1>8. CASE EndHandler
    <2>1. /\ UNCHANGED <<configMap, events, Notifiers>>
          /\ handler = "remove" /\ handler' = "idle"
      BY <1>8 DEF EndHandler, informer
    <2>2. Agrees(data)
      BY <1>0, <1>8, <2>1 DEF EndHandler, HandlerInv, Agrees
    <2>3. events = <<>> => Agrees(configMap)
      BY <2>1, <2>2 DEF LatestInv
    <2>4. Agrees(configMap)' = Agrees(configMap)
      BY <2>1 DEF Agrees
    <2> QED
      BY <2>1, <2>3, <2>4 DEF LatestInv, Quiet
  <1>9. CASE Worker \/ Answer \/ UNCHANGED vars
    <2>1. UNCHANGED <<configMap, events, handler, data, Notifiers>>
      BY <1>9
         DEF Worker, Begin, Mark, MarkWithoutChannels, Visit, EndNotify, EndRequest, Answer, vars, informer, handling
    <2> QED
      BY <1>2, <2>1
  <1>10. CASE Crash \/ ConcurrentMapAccess \/ PanicOnTombstone
    <2>1. Restart
      BY <1>10 DEF Crash, ConcurrentMapAccess, PanicOnTombstone
    <2>2. handler' = "idle" /\ Notifiers' = NoChannels /\ configMap' = configMap
      BY <2>1 DEF Restart
    <2>3. CASE present
      <3>1. events' = <<[kind |-> "apply", data |-> configMap]>>
        BY <2>1, <2>3 DEF Restart
      <3>2. events' # <<>> /\ events'[Len(events')].data = configMap
        BY <3>1
      <3> QED
        BY <2>2, <3>2 DEF LatestInv, Quiet
    <2>4. CASE ~present
      <3>1. configMap = NoChannels /\ events' = <<>>
        BY <1>0, <2>1, <2>4 DEF HandlerInv, Restart
      <3>2. Agrees(configMap)'
        BY <2>2, <3>1 DEF Agrees, NoChannels
      <3> QED
        BY <2>2, <3>1, <3>2 DEF LatestInv
    <2> QED
      BY <2>3, <2>4
  <1> QED
    BY <1>4, <1>5, <1>6, <1>7, <1>8, <1>9, <1>10 DEF Next, Handler

\* When the informer has caught up, the channels are those of the ConfigMap,
\* whatever versions, deletions and restarts came before.
THEOREM ChannelsKeptCurrent == Spec => []ChannelsCurrent
  <1>1. Init => LatestInv
    BY DEF Init, LatestInv, Agrees, NoChannels
  <1>2. LatestInv => ChannelsCurrent
    BY DEF LatestInv, ChannelsCurrent, Agrees
  <1> QED
    BY <1>1, <1>2, LatestStep, CenterInvariant, PTL DEF Spec
================================================================================
