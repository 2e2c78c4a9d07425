-------------------------- MODULE NotificationCenter --------------------------
(***************************************************************************)
(* The notification center (pkg/notifier) between its two users: the       *)
(* informer's goroutine, whose handlers keep the map of notifiers in line  *)
(* with a ConfigMap under nc.m, and the reconcile worker, whose mark       *)
(* functions (recorder.go) call Notify, which walks through the map        *)
(* without the lock and posts to one channel after the other.              *)
(***************************************************************************)
EXTENDS Integers, FiniteSets, Sequences

CONSTANTS
    Channels,    \* names of channels
    RawConfigs,  \* the configs the ConfigMap may hold, before validation
    Malformed,   \* a raw value that does not unmarshal
    Refused, Nil,
    Namespace, Labels,  \* of the experiment; labels as a set of key-value pairs
    Marks,       \* the conditions the worker sets, with reason and message
    MaxChanges,  \* bound: versions of the ConfigMap
    MaxMarks,    \* bound: conditions marked
    MaxCrashes   \* bound: crashes of the controller

Levels == {"verbose", "normal", "warning", "error"}
Reasons == {"TargetsFound", "TargetsError", "AnalyticsServiceError", "AnalyticsServiceRunning",
            "IterationUpdate", "AssessmentUpdate", "TrafficUpdate", "ExperimentCompleted",
            "SyncMetricsError", "SyncMetricsSucceeded", "RoutingRulesError",
            "RoutingRulesReady", "ActionPause", "ActionResume"}

ASSUME ConfigsAssumption ==
    /\ \A raw \in RawConfigs : {"notifier", "level", "namespace", "labels"} \subseteq DOMAIN raw
    /\ Malformed \notin RawConfigs
    /\ Nil \notin RawConfigs \cup {Malformed, Refused}

ASSUME MarksAssumption ==
    /\ \A mark \in Marks : mark.reason \in Reasons
    /\ {MaxChanges, MaxMarks, MaxCrashes} \subseteq Nat

-----------------------------------------------------------------------------
\* Configurations of channels.

DefaultLevel(raw) == IF raw.level = "" THEN [raw EXCEPT !.level = "normal"] ELSE raw

\* A mutant: the default level is not set.
validateOnly(raw) ==
    IF raw = Malformed THEN Refused
    ELSE IF raw.notifier # "slack" \/ raw.level \notin Levels \cup {""} THEN Refused
    ELSE raw

\* yaml.Unmarshal, and validateAndSetDefault.
validateAndSetDefault(raw) ==
    IF raw = Malformed THEN Refused
    ELSE IF raw.notifier # "slack" \/ raw.level \notin Levels \cup {""} THEN Refused
    ELSE DefaultLevel(raw)

level2Int == [verbose |-> 1, normal |-> 2, warning |-> 3, error |-> 4]

reasonSeverity(reason) ==
    CASE reason = "ExperimentCompleted" -> 5
      [] reason \in {"TargetsError", "SyncMetricsError", "RoutingRulesError",
                     "AnalyticsServiceError", "ActionPause"} -> 4
      [] reason \in {"TargetsFound", "AnalyticsServiceRunning", "IterationUpdate",
                     "SyncMetricsSucceeded", "RoutingRulesReady"} -> 1
      [] OTHER -> 0

matchLabels(nLabels) == nLabels \subseteq Labels

\* Notify's filters, in their order.
Matches(config, reason) ==
    /\ reasonSeverity(reason) >= level2Int[config.level]
    /\ config.namespace \in {"", Namespace}
    /\ matchLabels(config.labels)

\* The condition that a mark function sets.
ConditionOf(reason) ==
    CASE reason \in {"TargetsFound", "TargetsError"} -> "TargetsProvided"
      [] reason \in {"AnalyticsServiceError", "AnalyticsServiceRunning"} -> "AnalyticsServiceNormal"
      [] reason \in {"SyncMetricsError", "SyncMetricsSucceeded"} -> "MetricsSynced"
      [] reason \in {"RoutingRulesError", "RoutingRulesReady"} -> "RoutingRulesReady"
      [] OTHER -> "ExperimentCompleted"

ConditionTypes == {ConditionOf(reason) : reason \in Reasons}

-----------------------------------------------------------------------------
VARIABLES
    configMap,  \* the data of the ConfigMap in the API server
    present,    \* the ConfigMap exists
    events,     \* what the informer will hand to the handlers
    Notifiers,  \* nc.Notifiers
    handler,    \* the informer's goroutine: idle, update, remove (the two loops)
    data,       \* the data it works on
    todo,       \* the channels left in the first loop
    writing,    \* the channel whose map entry is being written, or Nil
    stored,     \* the conditions in the API server
    worker,     \* idle, running, range (in Notify's loop), posting
    conditions, \* those of the worker's copy
    mark,       \* what Notify announces
    visited,    \* the entries its loop was at
    certain,    \* entries the loop cannot miss: in the map since it began
    marked,     \* needStatusUpdate
    changes, marks, crashes,  \* what the bounds count
    owed, posted, announced,  \* history: see below
    fatal                     \* history: why the runtime last stopped the process

informer == <<configMap, present, events>>
handling == <<handler, data, todo, writing>>
request == <<worker, conditions, mark, visited, certain, marked>>
history == <<owed, posted, announced, fatal>>
counters == <<changes, marks, crashes>>
vars == <<informer, Notifiers, handling, stored, request, history, counters>>

Config == {validateAndSetDefault(raw) : raw \in RawConfigs} \ {Refused}
Data == [Channels -> RawConfigs \cup {Malformed, Nil}]
NoChannels == [c \in Channels |-> Nil]
Event == [kind : {"apply", "tombstone"}, data : Data]
NoMark == [reason |-> "", message |-> ""]
NoConditions == [k \in ConditionTypes |-> NoMark]

Init ==
    /\ configMap = NoChannels /\ present = FALSE /\ events = <<>>
    /\ Notifiers = NoChannels
    /\ handler = "idle" /\ data = NoChannels /\ todo = {} /\ writing = Nil
    /\ stored = NoConditions
    /\ worker = "idle" /\ conditions = NoConditions /\ mark = NoMark
    /\ visited = {} /\ certain = {} /\ marked = FALSE
    /\ changes = 0 /\ marks = 0 /\ crashes = 0
    /\ owed = {} /\ posted = {} /\ announced = {} /\ fatal = "no"

-----------------------------------------------------------------------------
\* The ConfigMap and its informer.

\* A user creates or changes the ConfigMap.  UpdateFunc compares the data.
Publish(new) ==
    /\ changes < MaxChanges /\ changes' = changes + 1
    /\ ~present \/ new # configMap
    /\ configMap' = new /\ present' = TRUE
    /\ events' = Append(events, [kind |-> "apply", data |-> new])
    /\ UNCHANGED <<Notifiers, handling, stored, request, history, marks, crashes>>

\* A user deletes it.  An informer that was not connected just then hears of it
\* with the next list, as a tombstone and not a ConfigMap.
Unpublish(kind) ==
    /\ changes < MaxChanges /\ changes' = changes + 1
    /\ present
    /\ configMap' = NoChannels /\ present' = FALSE
    /\ events' = Append(events, [kind |-> kind, data |-> NoChannels])
    /\ UNCHANGED <<Notifiers, handling, stored, request, history, marks, crashes>>

-----------------------------------------------------------------------------
\* The handlers, in the informer's goroutine.

\* A mutant: Notify holds the lock.
TakeEventUnlessNotifying ==
    /\ handler = "idle" /\ events # <<>> /\ Head(events).kind = "apply"
    /\ worker # "posting"
    /\ events' = Tail(events)
    /\ handler' = "update" /\ data' = Head(events).data
    /\ todo' = {c \in Channels : data'[c] # Nil}
    /\ UNCHANGED <<configMap, present, Notifiers, writing, stored, request, history, counters>>

\* A handler takes nc.m, which nobody else ever takes.
TakeEvent ==
    /\ handler = "idle" /\ events # <<>> /\ Head(events).kind = "apply"
    /\ events' = Tail(events)
    /\ handler' = "update" /\ data' = Head(events).data
    /\ todo' = {c \in Channels : data'[c] # Nil}
    /\ UNCHANGED <<configMap, present, Notifiers, writing, stored, request, history, counters>>

\* A mutant: a refused config removes its channel.
SkipChannelAndRemove(c) ==
    /\ handler = "update" /\ writing = Nil /\ c \in todo
    /\ validateAndSetDefault(data[c]) = Refused
    /\ todo' = todo \ {c}
    /\ Notifiers' = [Notifiers EXCEPT ![c] = Nil]
    /\ UNCHANGED <<informer, handler, data, writing, stored, request, history, counters>>

\* A config that is refused is skipped.
SkipChannel(c) ==
    /\ handler = "update" /\ writing = Nil /\ c \in todo
    /\ validateAndSetDefault(data[c]) = Refused
    /\ todo' = todo \ {c}
    /\ UNCHANGED <<informer, Notifiers, handler, data, writing, stored, request, history, counters>>

\* updateNotifier and removeNotifier begin to write the map.  A ConfiguredNotifier
\* never equals a Config, so a channel that has not changed is written, too.
BeginWrite(c) ==
    /\ writing = Nil
    /\ \/ handler = "update" /\ c \in todo /\ validateAndSetDefault(data[c]) # Refused
       \/ handler = "remove" /\ Notifiers[c] # Nil /\ data[c] = Nil
    /\ writing' = c
    /\ UNCHANGED <<informer, Notifiers, handler, data, todo, stored, request, history, counters>>

\* The entry is written.  Notify's loop may miss an entry that was removed.
EndWrite ==
    /\ writing # Nil
    /\ Notifiers' = [Notifiers EXCEPT ![writing] =
                        IF handler = "remove" THEN Nil ELSE validateAndSetDefault(data[writing])]
    /\ todo' = todo \ {writing} /\ writing' = Nil
    /\ certain' = IF handler = "remove" THEN certain \ {writing} ELSE certain
    /\ owed' = owed \ {writing}
    /\ UNCHANGED <<informer, handler, data, stored, worker, conditions, mark, visited, marked,
                   posted, announced, fatal, counters>>

EndFirstLoop ==
    /\ handler = "update" /\ writing = Nil /\ todo = {}
    /\ handler' = "remove"
    /\ UNCHANGED <<informer, Notifiers, data, todo, writing, stored, request, history, counters>>

\* A mutant: channels that are gone stay.
EndHandlerEarly ==
    /\ handler = "remove" /\ writing = Nil
    /\ handler' = "idle" /\ data' = NoChannels
    /\ UNCHANGED <<informer, Notifiers, todo, writing, stored, request, history, counters>>

EndHandler ==
    /\ handler = "remove" /\ writing = Nil
    /\ \A c \in Channels : data[c] = Nil => Notifiers[c] = Nil
    /\ handler' = "idle" /\ data' = NoChannels
    /\ UNCHANGED <<informer, Notifiers, todo, writing, stored, request, history, counters>>

-----------------------------------------------------------------------------
\* The reconcile worker.

Begin ==
    /\ worker = "idle" /\ marks < MaxMarks
    /\ worker' = "running" /\ conditions' = stored /\ marked' = FALSE
    /\ UNCHANGED <<informer, Notifiers, handling, stored, mark, visited, certain, history, counters>>

\* markCondition: does the mark change anything?
Updates(m) == conditions[ConditionOf(m.reason)] # m \/ m.reason \in {"ActionPause", "ActionResume"}

\* A mark function; Notify, up to the first entry of the map.
Mark(m) ==
    /\ worker = "running" /\ marks < MaxMarks /\ marks' = marks + 1
    /\ Updates(m)
    /\ \E c \in Channels : Notifiers[c] # Nil
    /\ conditions' = [conditions EXCEPT ![ConditionOf(m.reason)] = m]
    /\ worker' = "range" /\ mark' = m /\ visited' = {}
    /\ certain' = {c \in Channels : Notifiers[c] # Nil}
    /\ owed' = {c \in certain' : Matches(Notifiers[c], m.reason)} \ {writing}
    /\ posted' = {}
    /\ UNCHANGED <<informer, Notifiers, handling, stored, marked, announced, fatal, changes, crashes>>

\* A mark function; with no channel in the map Notify returns at once.
MarkWithoutChannels(m) ==
    /\ worker = "running" /\ marks < MaxMarks /\ marks' = marks + 1
    /\ Updates(m)
    /\ Notifiers = NoChannels
    /\ conditions' = [conditions EXCEPT ![ConditionOf(m.reason)] = m]
    /\ marked' = TRUE /\ announced' = announced \cup {m}
    /\ UNCHANGED <<informer, Notifiers, handling, stored, worker, mark, visited, certain,
                   owed, posted, fatal, changes, crashes>>

\* Notify's loop comes to an entry, filters it, and begins to post.
Visit(c) ==
    /\ worker = "range" /\ c \notin visited /\ Notifiers[c] # Nil
    /\ visited' = visited \cup {c}
    /\ IF Matches(Notifiers[c], mark.reason)
         THEN worker' = "posting" /\ posted' = posted \cup {c}
         ELSE UNCHANGED <<worker, posted>>
    /\ UNCHANGED <<informer, Notifiers, handling, stored, conditions, mark, certain, marked,
                   owed, announced, fatal, counters>>

\* A mutant: an error ends the loop.
AnswerOrGiveUp ==
    /\ worker = "posting"
    /\ worker' = "range"
    /\ \/ UNCHANGED <<visited, certain>>
       \/ visited' = Channels /\ certain' = {}
    /\ UNCHANGED <<informer, Notifiers, handling, stored, conditions, mark, marked,
                   history, counters>>

\* A mutant: an error is retried.
AnswerOrRetry ==
    /\ worker = "posting"
    /\ worker' = "range"
    /\ visited' \in {visited, {}}
    /\ UNCHANGED <<informer, Notifiers, handling, stored, conditions, mark, certain, marked,
                   history, counters>>

\* The channel's endpoint answers; an error is logged.
Answer ==
    /\ worker = "posting"
    /\ worker' = "range"
    /\ UNCHANGED <<informer, Notifiers, handling, stored, conditions, mark, visited, certain, marked,
                   history, counters>>

\* The loop is over; markStatusUpdate.
EndNotify ==
    /\ worker = "range" /\ certain \subseteq visited
    /\ worker' = "running" /\ marked' = TRUE
    /\ announced' = announced \cup {mark}
    /\ mark' = NoMark /\ visited' = {} /\ certain' = {} /\ owed' = {} /\ posted' = {}
    /\ UNCHANGED <<informer, Notifiers, handling, stored, conditions, fatal, counters>>

\* A mutant: Notify runs in the background.
EndRequestEarly ==
    /\ worker \in {"running", "range", "posting"}
    /\ worker' = "idle" /\ conditions' = NoConditions /\ marked' = FALSE
    /\ stored' = conditions
    /\ UNCHANGED <<informer, Notifiers, handling, mark, visited, certain, history, counters>>

\* endRequest: the status is written if something was marked.  The write may
\* conflict or fail, and the marks are made again by a later reconcile.
EndRequest ==
    /\ worker = "running"
    /\ worker' = "idle" /\ conditions' = NoConditions /\ marked' = FALSE
    /\ \/ UNCHANGED stored
       \/ marked /\ stored' = conditions
    /\ UNCHANGED <<informer, Notifiers, handling, mark, visited, certain, history, counters>>

-----------------------------------------------------------------------------
\* The process ends and is started again: the informer's first list adds the
\* ConfigMap if there is one.
Restart ==
    /\ events' = IF present THEN <<[kind |-> "apply", data |-> configMap]>> ELSE <<>>
    /\ Notifiers' = NoChannels
    /\ handler' = "idle" /\ data' = NoChannels /\ todo' = {} /\ writing' = Nil
    /\ worker' = "idle" /\ conditions' = NoConditions /\ mark' = NoMark
    /\ visited' = {} /\ certain' = {} /\ marked' = FALSE
    /\ owed' = {} /\ posted' = {}
    /\ UNCHANGED <<configMap, present, stored, announced, changes, marks>>

Crash ==
    /\ crashes < MaxCrashes /\ crashes' = crashes + 1
    /\ Restart
    /\ UNCHANGED fatal

\* Two ways in which the code itself ends the process.  The runtime may find the
\* map being written while Notify's loop goes to the next entry; FilterFunc
\* asserts that a tombstone is a ConfigMap.
ConcurrentMapAccess ==
    /\ worker = "range" /\ writing # Nil
    /\ crashes < MaxCrashes /\ crashes' = crashes + 1
    /\ Restart
    /\ fatal' = "map"

PanicOnTombstone ==
    /\ handler = "idle" /\ events # <<>> /\ Head(events).kind = "tombstone"
    /\ Restart
    /\ fatal' = "tombstone"
    /\ UNCHANGED crashes

-----------------------------------------------------------------------------
Handler ==
    \/ TakeEvent \/ EndWrite \/ EndFirstLoop \/ EndHandler \/ PanicOnTombstone
    \/ \E c \in Channels : SkipChannel(c) \/ BeginWrite(c)

Worker ==
    \/ Begin \/ EndNotify \/ EndRequest
    \/ \E m \in Marks : Mark(m) \/ MarkWithoutChannels(m)
    \/ \E c \in Channels : Visit(c)

User == (\E new \in Data : Publish(new)) \/ Unpublish("apply") \/ Unpublish("tombstone")

Next == User \/ Handler \/ Worker \/ Answer \/ Crash \/ ConcurrentMapAccess

Spec == Init /\ [][Next]_vars

\* Both goroutines run; an endpoint need not answer, and http.Post has no timeout.
FairSpec == Spec /\ WF_vars(Handler) /\ WF_vars(Worker)

-----------------------------------------------------------------------------
\* The shape of the state; in particular every registered channel has a level
\* that Notify can compare (validateAndSetDefault).
TypeOK ==
    /\ configMap \in Data /\ present \in BOOLEAN /\ events \in Seq(Event)
    /\ Notifiers \in [Channels -> Config \cup {Nil}]
    /\ \A c \in Channels : Notifiers[c] # Nil => Notifiers[c].level \in Levels
    /\ handler \in {"idle", "update", "remove"} /\ data \in Data
    /\ todo \subseteq Channels /\ writing \in Channels \cup {Nil}
    /\ worker \in {"idle", "running", "range", "posting"}
    /\ stored \in [ConditionTypes -> Marks \cup {NoMark}]
    /\ conditions \in [ConditionTypes -> Marks \cup {NoMark}]
    /\ mark \in Marks \cup {NoMark} /\ announced \subseteq Marks
    /\ visited \subseteq Channels /\ certain \subseteq Channels
    /\ owed \subseteq Channels /\ posted \subseteq Channels
    /\ marked \in BOOLEAN /\ fatal \in {"no", "map", "tombstone"}
    /\ changes \in 0..MaxChanges /\ marks \in 0..MaxMarks /\ crashes \in 0..MaxCrashes

\* The channels after data took effect, from what is left of its handling.
Settled ==
    [c \in Channels |-> IF data[c] = Nil THEN Nil
                        ELSE IF validateAndSetDefault(data[c]) = Refused THEN Notifiers[c]
                        ELSE validateAndSetDefault(data[c])]

\* The two loops of updateConfigFromConfigmap, entry by entry, have the effect of
\* applying the ConfigMap as a whole, each version once and in order: it takes
\* effect when its handler begins, and the data settle what the loops have not done.
Registry == INSTANCE ChannelRegistry
    WITH Raw <- RawConfigs \cup {Malformed},
         Parse <- [raw \in RawConfigs \cup {Malformed} |-> validateAndSetDefault(raw)],
         config <- configMap, pending <- [i \in DOMAIN events |-> events[i].data],
         registry <- IF handler = "idle" THEN Notifiers ELSE Settled

AppliesWholeConfig == Registry!Spec

Quiet == events = <<>> /\ handler = "idle"

\* When the informer has caught up, the channels are those of the ConfigMap: what
\* is configured there is in force, whatever versions, deletions, and restarts
\* came before, and a channel it does not name is gone.
ChannelsCurrent ==
    Quiet => \A c \in Channels :
        /\ configMap[c] = Nil => Notifiers[c] = Nil
        /\ configMap[c] # Nil /\ validateAndSetDefault(configMap[c]) # Refused
               => Notifiers[c] = validateAndSetDefault(configMap[c])

\* A failing channel does not silence the others: when Notify returns, it has
\* posted to every channel that matched when it began and was left alone since.
FailureIsolated == [][worker = "range" /\ worker' = "running" => owed \subseteq posted]_vars

\* No condition gets into the recorded status before its notification went out:
\* a crash or a lost write repeats notifications, but never drops one.
RecordedWasAnnounced ==
    \A k \in ConditionTypes : stored[k] # NoMark => stored[k] \in announced

\* A reconcile that waits for an endpoint that does not answer does not keep a
\* new configuration from taking effect (Notify is outside of nc.m).
ConfigTakesEffect == []<>Quiet

\* As long as no endpoint is silent for ever, Notify returns to the reconcile.
NotifyReturns ==
    []<>(worker # "posting")
        => (worker \in {"range", "posting"} ~> worker \in {"running", "idle"})

-----------------------------------------------------------------------------
\* notifier.go:143 says of Notify: "Errors occured will only be logged".  The
\* tombstone that stops the informer's handler is no error of Notify.
ErrorsOnlyLogged == fatal # "map"
==============================================================================
