------------------------ MODULE ChannelsPerKeyProofs ------------------------
(***************************************************************************)
(* Proofs about ChannelsPerKey: a Tracker is shared by no more channels    *)
(* than the limit, no entry of key_counts is forgotten, and nothing is     *)
(* shed below the limit, for any set of channels, any keys and any limit.  *)
(***************************************************************************)
EXTENDS ChannelsPerKey, FiniteSetTheorems, TLAPS

\* Where the connection of a TrackedChannel can be, once it has a Tracker.
Accepted == {"open", "dropping", "closed"}

Types ==
  /\ channel \in [Channels -> {"new", "listed", "shed"} \cup Accepted]
  /\ tracker \in [Channels -> Channels \cup {"none"}]
  /\ listener \in Seq(Channels)
  /\ DOMAIN key_counts \subseteq Keys
  /\ key_counts \in [DOMAIN key_counts -> Channels]
  /\ dropped_keys \in Seq(Keys)

\* The connections the filter has not polled are each listed once.
Listed ==
  /\ \A n \in 1..Len(listener) : channel[listener[n]] = "listed"
  /\ \A m, n \in 1..Len(listener) : listener[m] = listener[n] => m = n

\* A Tracker is made with the channel it is named for and counts the channels
\* of one key; key_counts finds it under that key.
TrackersKeyed ==
  /\ \A ch \in Channels : tracker[ch] # "none" =>
       /\ channel[tracker[ch]] \in Accepted
       /\ keymaker[tracker[ch]] = keymaker[ch]
  /\ \A k \in DOMAIN key_counts : keymaker[key_counts[k]] = k

\* The inductive invariant.
Inv == Types /\ Listed /\ TrackersKeyed /\ TrackerBounded /\ NoStaleEntry

-----------------------------------------------------------------------------
(* The queues                                                              *)

\* A send to the listener's backlog or to dropped_keys.
LEMMA AppendElements ==
  ASSUME NEW S, NEW s \in Seq(S), NEW e \in S
  PROVE /\ Append(s, e) \in Seq(S) /\ Len(s) \in Nat
        /\ Len(Append(s, e)) = Len(s) + 1
        /\ Append(s, e)[Len(s) + 1] = e
        /\ \A n \in 1..Len(s) : Append(s, e)[n] = s[n] /\ s[n] \in S
BY SMTT(30)

\* A receive from one of them.
LEMMA TailElements ==
  ASSUME NEW S, NEW s \in Seq(S), s # << >>
  PROVE /\ Head(s) \in S /\ Head(s) = s[1] /\ Tail(s) \in Seq(S)
        /\ Len(s) \in Nat \ {0} /\ Len(Tail(s)) = Len(s) - 1
        /\ \A n \in 1..Len(Tail(s)) : Tail(s)[n] = s[n + 1]
BY SMTT(30)

-----------------------------------------------------------------------------
(* The counts                                                              *)

\* strong_count is a number, as any set of channels is finite.
LEMMA CountType ==
  ASSUME NEW S \in SUBSET Channels
  PROVE IsFiniteSet(S) /\ Cardinality(S) \in Nat
BY KeysAssumption, FS_Subset, FS_CardinalityType, SMTT(30)

\* A drop or an upgrade of one reference does not raise another count: a set
\* of holders that shrinks stays within the limit.
LEMMA CountMonotone ==
  ASSUME NEW S \in SUBSET Channels, NEW T \in SUBSET S
  PROVE Cardinality(T) <= Cardinality(S)
BY CountType, FS_Subset, SMTT(30)

\* A step after which no Tracker has a new holder keeps the bound.
LEMMA BoundKept ==
  ASSUME TrackerBounded, \A t \in Channels : Holders(t)' \subseteq Holders(t)
  PROVE TrackerBounded'
<1> SUFFICES ASSUME NEW t \in Channels
             PROVE strong_count(t)' <= IF channels_per_key = 0 THEN 1 ELSE channels_per_key
  BY SMTT(30) DEF TrackerBounded
<1>1. /\ Holders(t) \in SUBSET Channels /\ Holders(t)' \in SUBSET Holders(t)
  BY SMTT(30) DEF Holders
<1>2. /\ Cardinality(Holders(t)) \in Nat /\ Cardinality(Holders(t)') \in Nat
      /\ Cardinality(Holders(t)') <= Cardinality(Holders(t))
  BY <1>1, CountType, CountMonotone, SMTT(30) DEF Holders
<1> QED BY <1>2, LimitAssumption, SMTT(30) DEF TrackerBounded, strong_count

-----------------------------------------------------------------------------
(* Every step keeps the invariant                                          *)

\* A TrackedChannel gives up its reference: the last holder of a Tracker is the
\* one that will send its key.
LEMMA DropChannelInv ==
  ASSUME Inv, NEW ch \in Channels, DropChannel(ch)
  PROVE Inv'
<1> USE DEF Inv, Types
<1>1. /\ channel[ch] = "open" /\ channel'[ch] \in {"dropping", "closed"}
      /\ \A x \in Channels \ {ch} : channel'[x] = channel[x]
      /\ channel' \in [Channels -> {"new", "listed", "shed"} \cup Accepted]
      /\ UNCHANGED <<tracker, listener, key_counts, dropped_keys>>
  BY SMTT(30) DEF DropChannel, Accepted
<1>2. \A t : Holders(t)' = Holders(t) \ {ch}
  BY <1>1, SMTT(30) DEF Holders
<1>3. Types' /\ Listed' /\ TrackersKeyed'
  BY <1>1, SMTT(30) DEF Listed, TrackersKeyed, Accepted
<1>4. TrackerBounded'
  BY <1>2, BoundKept, SMTT(30)
<1>5. NoStaleEntry'
  <2> SUFFICES ASSUME NEW k \in DOMAIN key_counts,
                      Holders(key_counts[k]) = {ch}
               PROVE channel'[ch] = "dropping" /\ keymaker[ch] = k
    BY <1>1, <1>2, SMTT(30) DEF NoStaleEntry
  <2>1. tracker[ch] = key_counts[k] /\ key_counts[k] # "none"
    BY KeysAssumption, SMTT(30) DEF Holders
  <2>2. keymaker[ch] = k
    BY <2>1, SMTT(30) DEF TrackersKeyed
  <2> QED BY <2>1, <2>2, SMTT(30) DEF DropChannel
<1> QED BY <1>3, <1>4, <1>5, SMTT(30)

\* Tracker::drop sends the key to poll_closed_channels.
LEMMA DropTrackerInv ==
  ASSUME Inv, NEW ch \in Channels, DropTracker(ch)
  PROVE Inv'
<1> USE DEF Inv, Types
<1>1. /\ channel[ch] = "dropping" /\ channel'[ch] = "closed"
      /\ \A x \in Channels \ {ch} : channel'[x] = channel[x]
      /\ channel' \in [Channels -> {"new", "listed", "shed"} \cup Accepted]
      /\ UNCHANGED <<tracker, listener, key_counts>>
  BY SMTT(30) DEF DropTracker, Accepted
<1>2. \A t : Holders(t)' = Holders(t)
  BY <1>1, SMTT(30) DEF Holders
<1>3. /\ dropped_keys' \in Seq(Keys) /\ Len(dropped_keys) \in Nat
      /\ Len(dropped_keys') = Len(dropped_keys) + 1
      /\ dropped_keys'[Len(dropped_keys) + 1] = keymaker[ch]
      /\ \A n \in 1..Len(dropped_keys) : dropped_keys'[n] = dropped_keys[n]
  <2>1. keymaker[ch] \in Keys /\ dropped_keys' = Append(dropped_keys, keymaker[ch])
    BY KeysAssumption, Zenon DEF DropTracker, send
  <2> QED BY <2>1, AppendElements, SMTT(30)
<1>4. Types' /\ Listed' /\ TrackersKeyed'
  <2>1. Types'
    BY <1>1, <1>3, SMTT(30)
  <2>2. Listed' /\ TrackersKeyed'
    BY <1>1, SMTT(30) DEF Listed, TrackersKeyed, Accepted
  <2> QED BY <2>1, <2>2, SMTT(30)
<1>5. TrackerBounded'
  BY <1>2, BoundKept, SMTT(30)
<1>6. NoStaleEntry'
  <2> SUFFICES ASSUME NEW k \in DOMAIN key_counts, Holders(key_counts[k]) = {}
               PROVE \/ \E x \in Channels : channel'[x] = "dropping" /\ keymaker[x] = k
                     \/ \E n \in 1..Len(dropped_keys') : dropped_keys'[n] = k
    BY <1>1, <1>2, SMTT(30) DEF NoStaleEntry
  <2>1. CASE \E n \in 1..Len(dropped_keys) : dropped_keys[n] = k
    BY <1>3, <2>1, SMTT(30)
  <2>2. CASE keymaker[ch] = k
    BY <1>3, <2>2, SMTT(30)
  <2>3. CASE \E x \in Channels \ {ch} : channel[x] = "dropping" /\ keymaker[x] = k
    BY <1>1, <2>3, SMTT(30)
  <2> QED BY <2>1, <2>2, <2>3, SMTT(30) DEF NoStaleEntry
<1> QED BY <1>4, <1>5, <1>6, SMTT(30)

\* The listener accepts a connection.
LEMMA ConnectInv ==
  ASSUME Inv, NEW ch \in Channels, Connect(ch)
  PROVE Inv'
<1> USE DEF Inv, Types
<1>1. /\ channel[ch] = "new" /\ channel'[ch] = "listed"
      /\ \A x \in Channels \ {ch} : channel'[x] = channel[x]
      /\ channel' \in [Channels -> {"new", "listed", "shed"} \cup Accepted]
      /\ UNCHANGED <<tracker, key_counts, dropped_keys>>
  BY SMTT(30) DEF Connect, Accepted
<1>2. \A t : Holders(t)' = Holders(t)
  BY <1>1, SMTT(30) DEF Holders
<1>3. /\ listener' \in Seq(Channels) /\ Len(listener) \in Nat
      /\ Len(listener') = Len(listener) + 1
      /\ listener'[Len(listener) + 1] = ch
      /\ \A n \in 1..Len(listener) : listener'[n] = listener[n] /\ listener[n] \in Channels
  BY AppendElements, SMTT(30) DEF Connect
<1>4. Types' /\ Listed' /\ TrackersKeyed'
  <2>1. Types'
    BY <1>1, <1>3, SMTT(30)
  <2>2. \A n \in 1..Len(listener) : listener[n] # ch
    BY <1>1, SMTT(30) DEF Listed
  <2>3. Listed'
    <3>1. \A n \in 1..Len(listener') : n \in 1..Len(listener) \/ n = Len(listener) + 1
      BY <1>3, SMTT(30)
    <3>2. \A n \in 1..Len(listener') : channel'[listener'[n]] = "listed"
      BY <1>1, <1>3, <2>2, <3>1, SMTT(30) DEF Listed
    <3>3. \A m, n \in 1..Len(listener') : listener'[m] = listener'[n] => m = n
      BY <1>3, <2>2, <3>1, SMTT(30) DEF Listed
    <3> QED BY <3>2, <3>3, SMTT(30) DEF Listed
  <2>4. TrackersKeyed'
    BY <1>1, SMTT(30) DEF TrackersKeyed, Accepted
  <2> QED BY <2>1, <2>3, <2>4, SMTT(30)
<1>5. TrackerBounded'
  BY <1>2, BoundKept, SMTT(30)
<1>6. NoStaleEntry'
  BY <1>1, <1>2, SMTT(30) DEF NoStaleEntry
<1> QED BY <1>4, <1>5, <1>6, SMTT(30)

\* handle_new_channel takes the first connection: it was listed, and no other
\* one behind it in the backlog is the same.
LEMMA HeadListed ==
  ASSUME Inv, listener # << >>,
         channel' \in [Channels -> {"new", "listed", "shed"} \cup Accepted],
         \A x \in Channels \ {Head(listener)} : channel'[x] = channel[x],
         listener' = Tail(listener)
  PROVE /\ Head(listener) \in Channels /\ channel[Head(listener)] = "listed"
        /\ listener' \in Seq(Channels) /\ Listed'
<1>1. /\ listener \in Seq(Channels) /\ Head(listener) = listener[1]
      /\ Head(listener) \in Channels /\ listener' \in Seq(Channels)
      /\ Len(listener) \in Nat \ {0} /\ Len(listener') = Len(listener) - 1
      /\ \A n \in 1..Len(listener') : listener'[n] = listener[n + 1]
  BY TailElements, SMTT(30) DEF Inv, Types
<1>2. \A n \in 1..Len(listener') : n + 1 \in 1..Len(listener) /\ n + 1 # 1
  BY <1>1, SMTT(30)
<1>3. \A n \in 1..Len(listener') :
        listener'[n] \in Channels /\ listener'[n] # Head(listener)
  BY <1>1, <1>2, SMTT(30) DEF Inv, Listed
<1>4. \A n \in 1..Len(listener') : channel'[listener'[n]] = "listed"
  BY <1>1, <1>2, <1>3, SMTT(30) DEF Inv, Listed
<1>5. \A m, n \in 1..Len(listener') : listener'[m] = listener'[n] => m = n
  <2> SUFFICES ASSUME NEW m \in 1..Len(listener'), NEW n \in 1..Len(listener'),
                      listener'[m] = listener'[n]
               PROVE m + 1 = n + 1
    BY <1>1, SMTT(30)
  <2> QED BY <1>1, <1>2, SMTT(30) DEF Inv, Listed
<1> QED BY <1>1, <1>4, <1>5, SMTT(30) DEF Inv, Listed

\* The limit reached: the channel is shed and nothing else changes.
LEMMA ShedInv ==
  ASSUME Inv, Accept, at_limit(keymaker[Head(listener)])
  PROVE Inv'
<1> DEFINE ch == Head(listener)
<1>1. /\ listener # << >> /\ ch \in Channels /\ listener' = Tail(listener)
      /\ channel' = [channel EXCEPT ![ch] = "shed"]
      /\ UNCHANGED <<tracker, key_counts, dropped_keys>>
  BY TailElements, SMTT(30) DEF Accept, Inv, Types
<1>2. /\ channel' \in [Channels -> {"new", "listed", "shed"} \cup Accepted]
      /\ \A x \in Channels \ {ch} : channel'[x] = channel[x]
  BY <1>1, SMTT(30) DEF Inv, Types
<1>3. channel[ch] = "listed" /\ listener' \in Seq(Channels) /\ Listed'
  BY <1>1, <1>2, HeadListed, SMTT(30)
<1>4. \A t : Holders(t)' = Holders(t)
  BY <1>1, <1>2, <1>3, SMTT(30) DEF Holders, Inv, Types
<1>5. Types' /\ TrackersKeyed'
  BY <1>1, <1>2, <1>3, SMTT(30) DEF Inv, Types, TrackersKeyed, Accepted
<1>6. TrackerBounded'
  BY <1>4, BoundKept, SMTT(30) DEF Inv
<1>7. NoStaleEntry'
  BY <1>1, <1>2, <1>3, <1>4, SMTT(30) DEF Inv, NoStaleEntry
<1> QED BY <1>3, <1>5, <1>6, <1>7, SMTT(30) DEF Inv

\* Below the limit: the channel gets a share of its key's Tracker while that
\* is alive (upgrade), or a new Tracker, which nobody else holds.
LEMMA AdmitInv ==
  ASSUME Inv, Accept, ~at_limit(keymaker[Head(listener)])
  PROVE Inv'
<1> PICK ch, k, t : ch = Head(listener) /\ k = keymaker[ch] /\ t = tracker_for(ch)
  BY SMTT(30)
<1>1. /\ listener # << >> /\ ch \in Channels /\ listener' = Tail(listener)
      /\ channel' = [channel EXCEPT ![ch] = "open"]
      /\ tracker' = [tracker EXCEPT ![ch] = t]
      /\ remember(k, t)
      /\ UNCHANGED dropped_keys
  BY TailElements, SMTT(30) DEF Accept, Inv, Types
<1>2. /\ channel' \in [Channels -> {"new", "listed", "shed"} \cup Accepted]
      /\ \A x \in Channels \ {ch} : channel'[x] = channel[x]
      /\ channel'[ch] = "open"
  BY <1>1, SMTT(30) DEF Inv, Types, Accepted
<1>3. channel[ch] = "listed" /\ listener' \in Seq(Channels) /\ Listed'
  BY <1>1, <1>2, HeadListed, SMTT(30)
<1>4. k \in Keys
  BY <1>1, KeysAssumption, SMTT(30)
<1>5. /\ t \in Channels /\ keymaker[t] = k
      /\ t = ch \/ (k \in DOMAIN key_counts /\ t = key_counts[k] /\ Holders(t) # {})
  BY <1>1, Zenon DEF tracker_for, Inv, Types, TrackersKeyed
<1>6. Holders(t)' = Holders(t) \cup {ch}
      /\ \A u \in Channels \ {t} : Holders(u)' = Holders(u)
  BY <1>1, <1>2, <1>3, <1>5, SMTT(30) DEF Holders, Inv, Types
<1>7. /\ DOMAIN key_counts' = DOMAIN key_counts \cup {k}
      /\ key_counts'[k] = t
      /\ \A j \in DOMAIN key_counts \ {k} : key_counts'[j] = key_counts[j]
      /\ key_counts' \in [DOMAIN key_counts' -> Channels]
  BY <1>1, <1>5, SMTT(30) DEF remember, Inv, Types
<1>8. Types'
  BY <1>1, <1>2, <1>3, <1>4, <1>5, <1>7, SMTT(30) DEF Inv, Types
<1>9. channel'[t] \in Accepted
  <2>1. CASE t = ch
    BY <1>2, <2>1, SMTT(30) DEF Accepted
  <2>2. CASE t # ch
    <3>1. PICK x \in Channels : tracker[x] = t
      BY <1>5, <2>2, SMTT(30) DEF Holders
    <3>2. channel[t] \in Accepted
      BY <1>5, <3>1, KeysAssumption, SMTT(30) DEF Inv, TrackersKeyed
    <3> QED BY <1>2, <1>5, <2>2, <3>2, SMTT(30)
  <2> QED BY <2>1, <2>2, SMTT(30)
<1>10. TrackersKeyed'
  <2>1. ASSUME NEW x \in Channels, tracker'[x] # "none"
        PROVE channel'[tracker'[x]] \in Accepted /\ keymaker[tracker'[x]] = keymaker[x]
    <3>1. CASE x = ch
      BY <1>1, <1>5, <1>9, <3>1, SMTT(30) DEF Inv, Types
    <3>2. CASE x # ch
      <4>1. tracker'[x] = tracker[x] /\ tracker[x] \in Channels
        BY <1>1, <2>1, <3>2, SMTT(30) DEF Inv, Types
      <4>2. channel[tracker[x]] \in Accepted /\ keymaker[tracker[x]] = keymaker[x]
        BY <2>1, <4>1, SMTT(30) DEF Inv, TrackersKeyed
      <4>3. tracker[x] # ch
        BY <1>3, <4>2, SMTT(30) DEF Accepted
      <4> QED BY <1>2, <4>1, <4>2, <4>3, SMTT(30)
    <3> QED BY <3>1, <3>2, SMTT(30)
  <2>2. \A j \in DOMAIN key_counts' : keymaker[key_counts'[j]] = j
    BY <1>5, <1>7, SMTT(30) DEF Inv, TrackersKeyed
  <2> QED BY <2>1, <2>2, SMTT(30) DEF TrackersKeyed
<1>11. TrackerBounded'
  <2> SUFFICES ASSUME NEW u \in Channels
               PROVE strong_count(u)' <=
                       IF channels_per_key = 0 THEN 1 ELSE channels_per_key
    BY SMTT(30) DEF TrackerBounded
  <2>1. CASE u # t
    BY <1>6, <2>1, SMTT(30) DEF TrackerBounded, strong_count, Inv
  <2>2. CASE u = t /\ t = ch
    <3>1. Holders(ch) = {}
      <4> SUFFICES ASSUME NEW x \in Channels, tracker[x] = ch PROVE FALSE
        BY SMTT(30) DEF Holders
      <4> QED BY <1>1, <1>3, KeysAssumption, Zenon DEF Inv, TrackersKeyed, Accepted
    <3>2. Holders(u)' = {ch}
      BY <1>6, <2>2, <3>1, SMTT(30)
    <3> QED BY <3>2, FS_Singleton, LimitAssumption, SMTT(30) DEF strong_count
  <2>3. CASE u = t /\ t # ch
    <3>1. IsFiniteSet(Holders(t)) /\ Cardinality(Holders(t)) \in Nat
      BY CountType, SMTT(30) DEF Holders
    <3>2. Cardinality(Holders(t)) < channels_per_key
      BY <1>5, <2>3, <3>1, LimitAssumption, SMTT(30) DEF at_limit, strong_count
    <3>3. Cardinality(Holders(t) \cup {ch}) =
            IF ch \in Holders(t) THEN Cardinality(Holders(t))
                                 ELSE Cardinality(Holders(t)) + 1
      BY <3>1, FS_AddElement, Zenon
    <3>4. strong_count(u)' = Cardinality(Holders(t) \cup {ch})
      BY <1>6, <2>3, SMTT(30) DEF strong_count
    <3> QED BY <3>1, <3>2, <3>3, <3>4, LimitAssumption, SMTT(30)
  <2> QED BY <2>1, <2>2, <2>3, SMTT(30)
<1>12. NoStaleEntry'
  <2> SUFFICES ASSUME NEW j \in DOMAIN key_counts'
               PROVE \/ \E u : u = key_counts'[j] /\ Holders(u)' # {}
                     \/ \E x \in Channels : channel'[x] = "dropping" /\ keymaker[x] = j
                     \/ \E n \in 1..Len(dropped_keys') : dropped_keys'[n] = j
    BY SMTT(30) DEF NoStaleEntry
  <2>1. CASE j = k
    BY <1>6, <1>7, <2>1, SMTT(30)
  <2>2. CASE j # k
    <3>1. PICK u \in Channels :
            j \in DOMAIN key_counts /\ key_counts'[j] = u /\ u = key_counts[j]
      BY <1>7, <2>2, SMTT(30) DEF Inv, Types
    <3>2. Holders(u) \subseteq Holders(u)'
      BY <1>6, <3>1, SMTT(30)
    <3> QED BY <1>1, <1>2, <1>3, <3>1, <3>2, SMTT(30) DEF Inv, NoStaleEntry
  <2> QED BY <2>1, <2>2, SMTT(30)
<1> QED BY <1>3, <1>8, <1>10, <1>11, <1>12, SMTT(30) DEF Inv

\* poll_closed_channels forgets a key; the keys behind it are still queued.
LEMMA PollClosedChannelsInv ==
  ASSUME Inv, PollClosedChannels
  PROVE Inv'
<1>1. /\ UNCHANGED <<channel, tracker, listener>>
      /\ DOMAIN key_counts' = DOMAIN key_counts \ {Head(dropped_keys)}
      /\ \A j \in DOMAIN key_counts' : key_counts'[j] = key_counts[j]
      /\ key_counts' \in [DOMAIN key_counts' -> Channels]
  BY SMTT(30) DEF PollClosedChannels, forget, Inv, Types
<1>2. /\ dropped_keys \in Seq(Keys) /\ dropped_keys' \in Seq(Keys)
      /\ Head(dropped_keys) = dropped_keys[1]
      /\ Len(dropped_keys) \in Nat \ {0} /\ Len(dropped_keys') = Len(dropped_keys) - 1
      /\ \A n \in 1..Len(dropped_keys') : dropped_keys'[n] = dropped_keys[n + 1]
  BY TailElements, SMTT(30) DEF PollClosedChannels, Inv, Types
<1>3. \A t : Holders(t)' = Holders(t)
  BY <1>1, SMTT(30) DEF Holders
<1>4. Types' /\ Listed' /\ TrackersKeyed'
  <2>1. Types'
    BY <1>1, <1>2, SMTT(30) DEF Inv, Types
  <2>2. Listed' /\ TrackersKeyed'
    BY <1>1, SMTT(30) DEF Inv, Listed, TrackersKeyed
  <2> QED BY <2>1, <2>2, SMTT(30)
<1>5. TrackerBounded'
  BY <1>3, BoundKept, SMTT(30) DEF Inv
<1>6. NoStaleEntry'
  <2> SUFFICES ASSUME NEW k \in DOMAIN key_counts'
               PROVE \/ \E u : u = key_counts'[k] /\ Holders(u)' # {}
                     \/ \E ch \in Channels : channel'[ch] = "dropping" /\ keymaker[ch] = k
                     \/ \E n \in 1..Len(dropped_keys') : dropped_keys'[n] = k
    BY SMTT(30) DEF NoStaleEntry
  <2>1. k \in DOMAIN key_counts /\ k # dropped_keys[1] /\ key_counts'[k] = key_counts[k]
    BY <1>1, <1>2, SMTT(30)
  <2>2. CASE Holders(key_counts[k]) # {}
    BY <1>3, <2>1, <2>2, SMTT(30)
  <2>3. CASE \E ch \in Channels : channel[ch] = "dropping" /\ keymaker[ch] = k
    BY <1>1, <2>3, SMTT(30)
  <2>4. CASE \E n \in 1..Len(dropped_keys) : dropped_keys[n] = k
    <3>1. PICK n \in 1..Len(dropped_keys) : dropped_keys[n] = k
      BY <2>4, SMTT(30)
    <3>2. n - 1 \in 1..Len(dropped_keys') /\ dropped_keys'[n - 1] = k
      BY <1>2, <2>1, <3>1, SMTT(30)
    <3> QED BY <3>2, SMTT(30)
  <2> QED BY <2>1, <2>2, <2>3, <2>4, SMTT(30) DEF Inv, NoStaleEntry
<1> QED BY <1>4, <1>5, <1>6, SMTT(30) DEF Inv

\* A step that touches neither the channels nor the filter's state.
LEMMA QuietInv ==
  ASSUME Inv, UNCHANGED <<channel, tracker, listener, key_counts, dropped_keys>>
  PROVE Inv'
<1>1. \A t : Holders(t)' = Holders(t)
  BY SMTT(30) DEF Holders
<1>2. TrackerBounded'
  BY <1>1, BoundKept, SMTT(30) DEF Inv
<1>3. Types' /\ Listed' /\ TrackersKeyed' /\ NoStaleEntry'
  BY <1>1, SMTT(30) DEF Inv, Types, Listed, TrackersKeyed, NoStaleEntry
<1> QED BY <1>2, <1>3, SMTT(30) DEF Inv

\* A new filter satisfies the invariant.
LEMMA InitInv == Init => Inv
<1> SUFFICES ASSUME Init PROVE Inv
  BY SMTT(30)
<1>1. DOMAIN key_counts = {} /\ Len(listener) = 0
  BY SMTT(30) DEF Init
<1>2. Types /\ Listed /\ TrackersKeyed /\ NoStaleEntry
  BY <1>1, KeysAssumption, SMTT(30) DEF Init, Types, Listed, TrackersKeyed, NoStaleEntry
<1>3. \A t : Holders(t) = {}
  BY SMTT(30) DEF Init, Holders
<1>4. TrackerBounded
  BY <1>3, FS_EmptySet, LimitAssumption, SMTT(30) DEF TrackerBounded, strong_count
<1> QED BY <1>2, <1>4, SMTT(30) DEF Inv

\* Every step of the filter, of its channels and of the listener.
LEMMA StepInv ==
  ASSUME Inv, [Next]_vars
  PROVE Inv'
<1>1. ASSUME NEW ch \in Channels, DropChannel(ch) \/ DropTracker(ch) \/ Connect(ch)
      PROVE Inv'
  BY <1>1, DropChannelInv, DropTrackerInv, ConnectInv, SMTT(30)
<1>2. CASE Accept
  BY <1>2, ShedInv, AdmitInv, SMTT(30)
<1>3. CASE PollClosedChannels
  BY <1>3, PollClosedChannelsInv, SMTT(30)
<1>4. CASE \/ Poll \/ ListenerIdle \/ NoClosedChannels \/ StopListening \/ Terminated
           \/ UNCHANGED vars
  BY <1>4, QuietInv, SMTT(30) DEF Poll, ListenerIdle, NoClosedChannels, StopListening,
                        Terminated, vars
<1> QED BY <1>1, <1>2, <1>3, <1>4, SMTT(30) DEF Next, Filter

-----------------------------------------------------------------------------
(* The theorems                                                            *)

\* The invariant holds in every reachable state.
LEMMA Inductive == Spec => []Inv
BY InitInv, StepInv, PTL DEF Spec

\* However drops on other tasks interleave with handle_new_channel's count and
\* upgrade, no more channels than the limit share a Tracker.
THEOREM LimitPerTracker == Spec => []TrackerBounded
<1>1. Inv => TrackerBounded
  BY SMTT(30) DEF Inv
<1> QED BY <1>1, Inductive, PTL

\* key_counts does not leak: an entry whose Tracker is gone has its key on the
\* way to poll_closed_channels, even if the key was counted anew meanwhile.
THEOREM KeysAreForgotten == Spec => []NoStaleEntry
<1>1. Inv => NoStaleEntry
  BY SMTT(30) DEF Inv
<1> QED BY <1>1, Inductive, PTL

\* A connection is refused only while its key has as many open channels as
\* the limit allows: a stale count never sheds one too many.
THEOREM NothingShedBelowLimit == Spec => ShedOnlyAtLimit
<1>1. ASSUME Inv, [Next]_vars, NEW ch \in Channels,
             channel[ch] # "shed", channel'[ch] = "shed"
      PROVE Cardinality(Open(keymaker[ch])) >= channels_per_key
  <2>1. Accept /\ ch = Head(listener) /\ at_limit(keymaker[ch])
    <3>1. ASSUME NEW x \in Channels, DropChannel(x) \/ DropTracker(x) \/ Connect(x)
          PROVE FALSE
      BY <1>1, <3>1, SMTT(30) DEF DropChannel, DropTracker, Connect, Inv, Types
    <3>2. CASE Accept
      BY <1>1, <3>2, TailElements, SMTT(30) DEF Accept, Inv, Types
    <3>3. CASE UNCHANGED channel
      BY <1>1, <3>3, SMTT(30)
    <3> QED BY <1>1, <3>1, <3>2, <3>3, SMTT(30) DEF Next, Filter, Poll, ListenerIdle,
              PollClosedChannels, NoClosedChannels, StopListening, Terminated, vars
  <2> PICK t : t = key_counts[keymaker[ch]]
    BY SMTT(30)
  <2>2. /\ t \in Channels /\ keymaker[t] = keymaker[ch]
        /\ Cardinality(Holders(t)) >= channels_per_key
    BY <1>1, <2>1, SMTT(30) DEF at_limit, strong_count, Inv, Types, TrackersKeyed
  <2>3. Holders(t) \subseteq Open(keymaker[ch])
    BY <1>1, <2>2, KeysAssumption, SMTT(30) DEF Holders, Open, Inv, TrackersKeyed
  <2>4. /\ Cardinality(Holders(t)) <= Cardinality(Open(keymaker[ch]))
        /\ Cardinality(Holders(t)) \in Nat /\ Cardinality(Open(keymaker[ch])) \in Nat
    BY <2>3, CountMonotone, CountType, SMTT(30) DEF Open
  <2> QED BY <2>2, <2>4, LimitAssumption, SMTT(30)
<1>2. Inv /\ [Next]_vars =>
        [\A ch \in Channels : channel[ch] # "shed" /\ channel'[ch] = "shed"
           => Cardinality(Open(keymaker[ch])) >= channels_per_key]_vars
  BY <1>1, SMTT(30)
<1> QED BY <1>2, Inductive, PTL DEF Spec, ShedOnlyAtLimit
=============================================================================
