--------------------------------- MODULE Notify ---------------------------------
(***************************************************************************)
(* Notifier::send (src/src/notify.rs): which channels a notification goes  *)
(* to under each policy, and what the caller is told.  `works` says which  *)
(* channels would take the message.                                        *)
(***************************************************************************)
EXTENDS Integers, Sequences

Policies == {"first-success", "fanout", "primary-with-fallback"}
StopsAfterSuccess == {"first-success", "primary-with-fallback"}

\* The channels; without any, the mail address of older configurations.
Channels(config) ==
    IF config.channels # <<>> THEN config.channels
    ELSE IF config.email = "none" THEN <<>> ELSE <<[enabled |-> config.email = "enabled"]>>

\* The channels that are tried, in their order: all that are enabled, or
\* those up to the first that works.
Tried(config, works) ==
    LET enabled == {i \in DOMAIN Channels(config) : Channels(config)[i].enabled}
    IN  {i \in enabled : config.policy \in StopsAfterSuccess =>
                           \A j \in enabled : j < i => ~works[j]}

Send(config, works) ==
    IF ~config.enabled \/ Tried(config, works) = {} THEN "not sent"
    ELSE IF \E i \in Tried(config, works) : works[i] THEN "sent" ELSE "error"
=================================================================================
