--------------------------- MODULE ChannelRegistry ---------------------------
(***************************************************************************)
(* What the notification center promises of its channels: the versions of  *)
(* the notifiers' ConfigMap take effect in order, each once and as a whole.*)
(* A channel with a valid config gets it, a channel that is gone is        *)
(* removed, and a channel whose config is refused keeps the one it has.    *)
(***************************************************************************)
EXTENDS Sequences

CONSTANTS
    Channels,  \* names of channels
    Raw,       \* what the ConfigMap may hold for a channel
    Nil,       \* no such channel
    Refused,   \* the outcome of a config that does not parse or validate
    Parse      \* the function from raw values to their config, or Refused

VARIABLES
    config,   \* the ConfigMap; a deleted one has no channels
    pending,  \* the versions that have not taken effect
    registry  \* the channels

vars == <<config, pending, registry>>

Data == [Channels -> Raw \cup {Nil}]
NoChannels == [c \in Channels |-> Nil]

\* The channels after a version of the ConfigMap took effect.
After(data) ==
    [c \in Channels |-> IF data[c] = Nil THEN Nil
                        ELSE IF Parse[data[c]] = Refused THEN registry[c]
                        ELSE Parse[data[c]]]

Init == config = NoChannels /\ pending = <<>> /\ registry = NoChannels

Publish(data) ==
    /\ config' = data /\ pending' = Append(pending, data)
    /\ UNCHANGED registry

Apply ==
    /\ pending # <<>>
    /\ registry' = After(Head(pending)) /\ pending' = Tail(pending)
    /\ UNCHANGED config

\* The controller restarts: what is not in the ConfigMap is forgotten.
Restart ==
    /\ registry' = NoChannels
    /\ \/ pending' = <<config>>
       \/ pending' = <<>> /\ config = NoChannels
    /\ UNCHANGED config

Next == (\E data \in Data : Publish(data)) \/ Apply \/ Restart

Spec == Init /\ [][Next]_vars
==============================================================================
