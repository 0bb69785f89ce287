--------------------------- MODULE ChannelsPerKey ---------------------------
(***************************************************************************)
(* MaxChannelsPerKey (tarpc/src/server/limits/channels_per_key.rs): the    *)
(* listener's filter that sheds a new channel when too many channels with  *)
(* its key are open.                                                       *)
(*                                                                         *)
(* The channels of a key share one reference-counted Tracker, to which     *)
(* key_counts holds a weak reference.  A channel is dropped by whichever   *)
(* task owns it: first the count falls, then, if it fell to zero, the      *)
(* Tracker's Drop sends the key to the filter, which forgets the key when  *)
(* it gets to it.  A Tracker is named by the channel it was made for.      *)
(***************************************************************************)
EXTENDS Integers, Sequences, FiniteSets

CONSTANTS
  Channels,          \* the connections the listener may accept
  Keys,
  keymaker,          \* keymaker[ch]: the key of channel ch
  channels_per_key   \* the limit

ASSUME KeysAssumption ==
  /\ IsFiniteSet(Channels) /\ Channels \cap {"none", "pending", "shed"} = {}
  /\ keymaker \in [Channels -> Keys]
ASSUME LimitAssumption == channels_per_key \in Nat

VARIABLES
  channel,       \* channel[ch]: where the connection is
  tracker,       \* tracker[ch]: the Tracker a channel holds or held
  listener,      \* connections accepted but not polled
  listening,     \* whether the listener may yield more
  key_counts,    \* key -> Tracker (weak)
  dropped_keys,  \* the queue of keys whose Tracker is gone
  pc,            \* where poll_next is
  listened,      \* what poll_listener returned in this iteration: a channel,
                 \* "shed", "pending", or "none" at the end
  registered,    \* which of the sources, "listener" and "dropped_keys", hold
                 \* the waker of the task
  woken          \* whether the task is due to be polled

wakers == <<registered, woken>>
vars == <<channel, tracker, listener, listening, key_counts, dropped_keys, pc,
          listened, wakers>>

Init ==
  /\ channel = [ch \in Channels |-> "new"]
  /\ tracker = [ch \in Channels |-> "none"]
  /\ listener = << >> /\ listening = TRUE
  /\ key_counts = << >>
  /\ dropped_keys = << >>
  /\ pc = "parked" /\ listened = "pending"
  /\ registered = {} /\ woken = TRUE

\* A source that returns Pending keeps the waker, and uses it once.
Register(source) == registered' = registered \cup {source} /\ UNCHANGED woken
Wake(source) ==
  /\ woken' = (woken \/ source \in registered)
  /\ registered' = registered \ {source}

-----------------------------------------------------------------------------
(* Tracker and TrackedChannel                                              *)

Holders(t) == {ch \in Channels : channel[ch] = "open" /\ tracker[ch] = t}
strong_count(t) == Cardinality(Holders(t))

\* A channel goes, once poll_next has returned it: its reference is given
\* up, ...
DropChannel(ch) ==
  /\ channel[ch] = "open"
  /\ ~(pc = "closed" /\ listened = ch)
  /\ channel' = [channel EXCEPT ![ch] =
                   IF Holders(tracker[ch]) = {ch} THEN "dropping" ELSE "closed"]
  /\ UNCHANGED <<tracker, listener, listening, key_counts, dropped_keys, pc,
                 listened, wakers>>

\* ... and the last one runs Tracker::drop.
send_never(k) == UNCHANGED dropped_keys          \* mutant: no Drop impl
send(k) == dropped_keys' = Append(dropped_keys, k)

DropTracker(ch) ==
  /\ channel[ch] = "dropping"
  /\ channel' = [channel EXCEPT ![ch] = "closed"]
  /\ send(keymaker[ch]) /\ Wake("dropped_keys")
  /\ UNCHANGED <<tracker, listener, listening, key_counts, pc, listened>>

-----------------------------------------------------------------------------
(* MaxChannelsPerKey::poll_next                                            *)

Poll ==
  /\ pc = "parked" /\ woken
  /\ pc' = "listen" /\ woken' = FALSE
  /\ UNCHANGED <<channel, tracker, listener, listening, key_counts,
                 dropped_keys, listened, registered>>

at_limit_off_by_one(k) ==                        \* mutant
  k \in DOMAIN key_counts /\ strong_count(key_counts[k]) > channels_per_key
at_limit_of_any(k) ==                            \* mutant: counts every key
  \E j \in DOMAIN key_counts : strong_count(key_counts[j]) >= channels_per_key
at_limit(k) ==
  k \in DOMAIN key_counts /\ strong_count(key_counts[k]) >= channels_per_key

\* The Tracker for a new channel ch: the key's own while it is alive.
tracker_for(ch) ==
  LET k == keymaker[ch] IN
  IF k \in DOMAIN key_counts /\ Holders(key_counts[k]) # {}
  THEN key_counts[k] ELSE ch

remember(k, t) ==
  key_counts' = [j \in DOMAIN key_counts \cup {k} |->
                   IF j = k THEN t ELSE key_counts[j]]

\* poll_listener and handle_new_channel.  The count and upgrade() are read
\* one after the other; a drop in between is a drop before, or after, both.
Accept ==
  /\ pc = "listen"
  /\ listener # << >>
  /\ LET ch == Head(listener) IN
     IF at_limit(keymaker[ch])
     THEN /\ channel' = [channel EXCEPT ![ch] = "shed"]
          /\ listened' = "shed"
          /\ UNCHANGED <<tracker, key_counts>>
     ELSE /\ channel' = [channel EXCEPT ![ch] = "open"]
          /\ tracker' = [tracker EXCEPT ![ch] = tracker_for(ch)]
          /\ remember(keymaker[ch], tracker_for(ch))
          /\ listened' = ch
  /\ listener' = Tail(listener)
  /\ pc' = "closed"
  /\ UNCHANGED <<listening, dropped_keys, wakers>>

ListenerIdle ==
  /\ pc = "listen"
  /\ listener = << >>
  /\ IF listening THEN listened' = "pending" /\ Register("listener")
                  ELSE listened' = "none" /\ UNCHANGED wakers
  /\ pc' = "closed"
  /\ UNCHANGED <<channel, tracker, listener, listening, key_counts, dropped_keys>>

\* poll_closed_channels, and the match that decides whether to loop, to
\* return a channel (and be polled again), to park or to end.
forget(k) ==
  key_counts' = [j \in DOMAIN key_counts \ {k} |-> key_counts[j]]

PollClosedChannels ==
  /\ pc = "closed"
  /\ dropped_keys # << >>
  /\ forget(Head(dropped_keys))
  /\ dropped_keys' = Tail(dropped_keys)
  /\ pc' = "listen"
  /\ UNCHANGED <<channel, tracker, listener, listening, listened, wakers>>

NoClosedChannels ==
  /\ pc = "closed"
  /\ dropped_keys = << >> /\ Register("dropped_keys")
  /\ pc' = CASE listened = "pending" -> "parked"
             [] listened = "none" -> "ended"
             [] OTHER -> "listen"
  /\ UNCHANGED <<channel, tracker, listener, listening, key_counts,
                 dropped_keys, listened>>

Filter == Poll \/ Accept \/ ListenerIdle \/ PollClosedChannels \/ NoClosedChannels

-----------------------------------------------------------------------------
(* The listener                                                            *)

Connect(ch) ==
  /\ channel[ch] = "new" /\ listening
  /\ channel' = [channel EXCEPT ![ch] = "listed"]
  /\ listener' = Append(listener, ch) /\ Wake("listener")
  /\ UNCHANGED <<tracker, listening, key_counts, dropped_keys, pc, listened>>

StopListening ==
  /\ listening
  /\ listening' = FALSE /\ Wake("listener")
  /\ UNCHANGED <<channel, tracker, listener, key_counts, dropped_keys, pc, listened>>

Terminated ==
  /\ pc = "ended"
  /\ \A ch \in Channels : channel[ch] \in {"new", "closed", "shed"}
  /\ UNCHANGED vars

Next ==
  \/ \E ch \in Channels : DropChannel(ch) \/ DropTracker(ch) \/ Connect(ch)
  \/ Filter \/ StopListening \/ Terminated

Spec == Init /\ [][Next]_vars

-----------------------------------------------------------------------------
(* Properties                                                              *)

Open(k) == {ch \in Channels : channel[ch] = "open" /\ keymaker[ch] = k}

\* The limit holds for the channels that share a Tracker (a limit of 0 still
\* admits the channel the Tracker is made for).
TrackerBounded ==
  \A t \in Channels :
    strong_count(t) <= IF channels_per_key = 0 THEN 1 ELSE channels_per_key

\* A key is not remembered for ever: an entry whose Tracker is gone has its
\* key on the way to poll_closed_channels.
NoStaleEntry ==
  \A k \in DOMAIN key_counts :
    \/ Holders(key_counts[k]) # {}
    \/ \E ch \in Channels : channel[ch] = "dropping" /\ keymaker[ch] = k
    \/ \E n \in 1..Len(dropped_keys) : dropped_keys[n] = k

\* A channel is shed only while its key is at its limit, whatever stale
\* count or key the filter still holds.
ShedOnlyAtLimit ==
  [][\A ch \in Channels : channel[ch] # "shed" /\ channel'[ch] = "shed"
        => Cardinality(Open(keymaker[ch])) >= channels_per_key]_vars

\* Every connection is yielded or shed, also when the listener ends.
EveryChannelDecided == []<>(\A ch \in Channels : channel[ch] # "listed")

\* "Sheds new channels to stay under configured limits" (channels_per_key.rs,
\* 142).
UnderLimit == \A k \in Keys : Cardinality(Open(k)) <= channels_per_key
=============================================================================
