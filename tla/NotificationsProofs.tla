------------------------- MODULE NotificationsProofs -------------------------
(* For any alerts, requests, levels and any failures: one alert of a level goes
   on per deduplication key and an escalation clears the keys below it, cached
   preferences are those of the row but for named overlaps, and the unread
   counter shows the unread notifications but for named overlaps.

   The argument for the counter: what it misses (stored, not yet counted) or has
   too much (read, not yet taken off) is under way, and a reset that met nothing
   else since it read all sets it to what is there, which is nothing. *)
EXTENDS Notifications, FiniteSetTheorems, TLAPS

USE NotificationsAssumption

AlertPlaces == {"idle", "load", "fill", "dedup", "clear", "rate", "insert", "count", "end"}
OnlyAlert(a) == \A b \in Alerts : b # a => alerts'[b] = alerts[b]
OnlyRequest(r) == \A q \in Requests : q # r => requests'[q] = requests[q]

\* Writing one entry leaves the others alone.
LEMMA Entries ==
  ASSUME TypeOK
  PROVE  /\ \A a \in Alerts, new \in Alert : alerts' = [alerts EXCEPT ![a] = new] =>
              alerts' \in [Alerts -> Alert] /\ OnlyAlert(a) /\ alerts'[a] = new
         /\ \A r \in Requests, new \in Request : requests' = [requests EXCEPT ![r] = new] =>
              requests' \in [Requests -> Request] /\ OnlyRequest(r) /\ requests'[r] = new
BY DEF TypeOK, OnlyAlert, OnlyRequest

Moved(a) == alerts' \in [Alerts -> Alert] /\ OnlyAlert(a)

\* An alert that moves keeps its locals or forgets them.
LEMMA Moves ==
  ASSUME TypeOK, NEW a \in Alerts
  PROVE  /\ \A place \in AlertPlaces : Go(a, place) =>
              /\ Moved(a) /\ alerts'[a].at = place
              /\ alerts'[a].level = alerts[a].level
              /\ alerts'[a].seen = alerts[a].seen
         /\ \A place \in AlertPlaces : Forget(a, place) =>
              Moved(a) /\ alerts'[a].at = place
         /\ End(a) => Moved(a) /\ alerts'[a].at = "end"
<1>1. alerts \in [Alerts -> Alert] /\ alerts[a] \in Alert
  BY DEF TypeOK
<1>2. ASSUME NEW place \in AlertPlaces, Go(a, place)
      PROVE  /\ Moved(a) /\ alerts'[a].at = place
             /\ alerts'[a].level = alerts[a].level
             /\ alerts'[a].seen = alerts[a].seen
  BY <1>1, <1>2 DEF Go, Alert, AlertPlaces, OnlyAlert, Moved
<1>3. ASSUME NEW to \in AlertPlaces, Forget(a, to)
      PROVE  Moved(a) /\ alerts'[a].at = to
  <2>1. 1 \in Levels
    BY DEF Levels
  <2>2. [at |-> to, level |-> 1, seen |-> "none"] \in Alert
    BY <2>1 DEF Alert, AlertPlaces
  <2> QED
    BY <1>3, <2>2, Entries DEF Forget, Moved
<1>4. End(a) => Forget(a, "end") /\ "end" \in AlertPlaces
  BY DEF End, AlertPlaces
<1> QED
  BY <1>2, <1>3, <1>4

\* A step of an emission goes on with its own alert alone.
LEMMA BusStep ==
  ASSUME TypeOK, NEW a \in Alerts, Bus(a)
  PROVE  Moved(a) /\ requests' = requests
<1>1. alerts \in [Alerts -> Alert] /\ alerts[a] \in Alert
  BY DEF TypeOK
<1>2. /\ "dedup" \in AlertPlaces /\ "clear" \in AlertPlaces /\ "rate" \in AlertPlaces
      /\ "insert" \in AlertPlaces /\ "count" \in AlertPlaces
  BY DEF AlertPlaces
<1>3. ASSUME NEW l \in Levels, Emit(a, l)
      PROVE  Moved(a)
  <2> DEFINE new(found) == IF found = "off" THEN Ended
       ELSE [at |-> IF found = "none" THEN "load" ELSE "dedup", level |-> l, seen |-> "none"]
  <2>1. PICK found \in {cache, "none"} : alerts' = [alerts EXCEPT ![a] = new(found)]
    BY <1>3 DEF Emit
  <2>2. new(found) \in Alert
    BY DEF Alert, Ended, Levels
  <2> HIDE DEF new
  <2> QED
    BY <2>1, <2>2, Entries DEF Moved
<1>4. ASSUME LoadRow(a)
      PROVE  Moved(a)
  <2>1. \/ Go(a, "dedup")
        \/ /\ row # "none"
           /\ alerts' = [alerts EXCEPT ![a] =
                [at |-> "fill", level |-> alerts[a].level, seen |-> row]]
    BY <1>1, <1>4 DEF LoadRow
  <2>2. CASE /\ row # "none"
             /\ alerts' = [alerts EXCEPT ![a] =
                  [at |-> "fill", level |-> alerts[a].level, seen |-> row]]
    <3>1. [at |-> "fill", level |-> alerts[a].level, seen |-> row] \in Alert
      BY <1>1, <2>2 DEF TypeOK, Alert
    <3> QED
      BY <2>2, <3>1, Entries DEF Moved
  <2> QED
    BY <1>2, <2>1, <2>2, Moves
<1>5. ASSUME FillCache(a)
      PROVE  Moved(a)
  <2>1. \/ End(a)
        \/ alerts' = [alerts EXCEPT ![a] =
             [at |-> "dedup", level |-> alerts[a].level, seen |-> "none"]]
    BY <1>1, <1>5 DEF FillCache
  <2>2. CASE alerts' = [alerts EXCEPT ![a] =
               [at |-> "dedup", level |-> alerts[a].level, seen |-> "none"]]
    <3>1. [at |-> "dedup", level |-> alerts[a].level, seen |-> "none"] \in Alert
      BY <1>1 DEF Alert
    <3> QED
      BY <2>2, <3>1, Entries DEF Moved
  <2> QED
    BY <1>2, <2>1, <2>2, Moves
<1>6. ASSUME CheckDedup(a)
      PROVE  Moved(a)
  <2>1. End(a) \/ Go(a, "clear") \/ Go(a, "rate")
    BY <1>6 DEF CheckDedup, AfterDedup
  <2> QED
    BY <1>2, <2>1, Moves
<1>7. ASSUME ClearLower(a)
      PROVE  Moved(a)
  BY <1>2, <1>7, Moves DEF ClearLower
<1>8. ASSUME CheckRate(a)
      PROVE  Moved(a)
  <2>1. End(a) \/ Forget(a, "insert")
    BY <1>8 DEF CheckRate
  <2> QED
    BY <1>2, <2>1, Moves
<1>9. ASSUME Insert(a) \/ Count(a)
      PROVE  Moved(a)
  <2>1. End(a) \/ Go(a, "count")
    BY <1>9 DEF Insert, Count
  <2> QED
    BY <1>2, <2>1, Moves
<1>10. requests' = requests
  BY DEF Bus, Emit, LoadRow, FillCache, CheckDedup, ClearLower, CheckRate, Insert, Count
<1> QED
  BY <1>3, <1>4, <1>5, <1>6, <1>7, <1>8, <1>9, <1>10 DEF Bus

\* A step of the owner goes on with its own request alone.
LEMMA OwnerStep ==
  ASSUME TypeOK, NEW r \in Requests, Owner(r)
  PROVE  /\ requests' \in [Requests -> Request] /\ OnlyRequest(r)
         /\ UNCHANGED <<alerts, keys, passed, outranked, kept, rate>>
<1>1. requests \in [Requests -> Request] /\ requests[r] \in Request
  BY DEF TypeOK
<1>2. ASSUME NEW place \in {"invalidate", "decrement", "floor", "reset"},
             requests' = [requests EXCEPT ![r].at = place]
      PROVE  requests' \in [Requests -> Request] /\ OnlyRequest(r)
  <2>1. [requests[r] EXCEPT !.at = place] \in Request
    BY <1>1 DEF Request
  <2> QED
    BY <1>1, <1>2, <2>1 DEF OnlyRequest
<1>3. Close(r) => requests' \in [Requests -> Request] /\ OnlyRequest(r)
  <2>1. Closed \in Request
    BY DEF Closed, Request
  <2> QED
    BY <2>1, Entries DEF Close
<1>4. CASE SelectPreferences(r)
  <2>1. [at |-> "write", found |-> row # "none"] \in Request
    BY DEF Request
  <2>2. requests' = [requests EXCEPT ![r] = [at |-> "write", found |-> row # "none"]]
    BY <1>4 DEF SelectPreferences
  <2>3. requests' \in [Requests -> Request] /\ OnlyRequest(r)
    BY <2>1, <2>2, Entries
  <2> QED
    BY <1>4, <2>3 DEF SelectPreferences, dedup
<1>5. CASE InvalidatePreferences(r) \/ \E v \in Settings : WritePreferences(r, v)
  <2>1. Close(r) \/ requests' = [requests EXCEPT ![r].at = "invalidate"]
    BY <1>5 DEF InvalidatePreferences, WritePreferences
  <2> QED
    BY <1>2, <1>3, <1>5, <2>1 DEF InvalidatePreferences, WritePreferences, dedup
<1>6. CASE MarkRead(r) \/ Decrement(r) \/ Floor(r)
  <2>1. \/ Close(r) \/ requests' = [requests EXCEPT ![r].at = "decrement"]
        \/ requests' = [requests EXCEPT ![r].at = "floor"]
    BY <1>6 DEF MarkRead, Decrement, Floor
  <2> QED
    BY <1>2, <1>3, <1>6, <2>1 DEF MarkRead, Decrement, Floor, dedup
<1>7. CASE ReadAll(r) \/ Reset(r)
  <2>1. Close(r) \/ requests' = [requests EXCEPT ![r].at = "reset"]
    BY <1>7 DEF ReadAll, Reset
  <2> QED
    BY <1>2, <1>3, <1>7, <2>1 DEF ReadAll, Reset, dedup
<1> QED
  BY <1>4, <1>5, <1>6, <1>7 DEF Owner

\* Removing keys keeps the types.
LEMMA Removal ==
  ASSUME TypeOK, NEW levels, Remove(levels)
  PROVE  /\ keys' \subseteq Levels /\ passed' \in [Levels -> Nat]
         /\ outranked' \subseteq Levels /\ kept' \subseteq Levels
BY DEF Remove, TypeOK

\* The flags of the history stay flags.
LEMMA Flags ==
  ASSUME TypeOK, Next
  PROVE  stale' \in BOOLEAN /\ skewed' \in BOOLEAN
<1>1. stale \in BOOLEAN /\ skewed \in BOOLEAN
  BY DEF TypeOK
<1>2. ASSUME NEW a \in Alerts, Bus(a)
      PROVE  stale' \in BOOLEAN /\ skewed' \in BOOLEAN
  <2>1. \/ UNCHANGED stale
        \/ stale' = (a \in late)
    BY <1>2, Zenon DEF Bus, Emit, LoadRow, FillCache, CheckDedup, ClearLower, CheckRate,
                       Insert, Count, settings
  <2>2. \/ UNCHANGED skewed
        \/ skewed' = TRUE
    BY <1>2, Zenon DEF Bus, Emit, LoadRow, FillCache, CheckDedup, ClearLower, CheckRate,
                       Insert, Count, inbox
  <2>3. (a \in late) = TRUE \/ (a \in late) = FALSE
    OBVIOUS
  <2>4. stale' \in BOOLEAN
    BY <1>1, <2>1, <2>3, Zenon
  <2> QED
    BY <1>1, <2>2, <2>4, Zenon
<1>3. ASSUME NEW r \in Requests, Owner(r)
      PROVE  stale' \in BOOLEAN /\ skewed' \in BOOLEAN
  <2>1. \/ UNCHANGED stale
        \/ stale' = FALSE
        \/ stale' = TRUE
    <3>1. CASE InvalidatePreferences(r)
      BY <3>1, Zenon DEF InvalidatePreferences
    <3>2. CASE Decrement(r) \/ Reset(r)
      BY <3>2, Zenon DEF Decrement, Reset, settings
    <3> QED
      BY <1>3, <3>1, <3>2, Zenon DEF Owner, SelectPreferences, WritePreferences,
           MarkRead, Floor, ReadAll, settings
  <2>2. \/ UNCHANGED skewed
        \/ skewed' = (r \notin alone)
        \/ skewed' = TRUE
    <3>1. CASE Decrement(r)
      BY <3>1 DEF Decrement
    <3>2. CASE Reset(r)
      BY <3>2, Zenon DEF Reset
    <3>3. CASE SelectPreferences(r) \/ InvalidatePreferences(r)
                 \/ \E v \in Settings : WritePreferences(r, v)
      BY <3>3, Zenon DEF SelectPreferences, InvalidatePreferences, WritePreferences, inbox
    <3>4. CASE MarkRead(r) \/ Floor(r) \/ ReadAll(r)
      BY <3>4, Zenon DEF MarkRead, Floor, ReadAll
    <3> QED
      BY <1>3, <3>1, <3>2, <3>3, <3>4, Zenon DEF Owner
  <2> QED
    BY <1>1, <2>1, <2>2, Zenon
<1>4. ASSUME \/ \E l \in Levels : KeyExpires(l)
             \/ CacheExpires \/ RateWindowEnds \/ RedisRestarts
      PROVE  stale' \in BOOLEAN /\ skewed' \in BOOLEAN
  BY <1>1, <1>4, Zenon DEF KeyExpires, CacheExpires, RateWindowEnds, RedisRestarts, settings, inbox
<1> QED
  BY <1>2, <1>3, <1>4 DEF Next

\* Columns, keys and locals keep their types.
LEMMA TypeStep ==
  ASSUME TypeOK, Next
  PROVE  TypeOK'
<1>f. stale' \in BOOLEAN /\ skewed' \in BOOLEAN
  BY Flags
<1>1. ASSUME NEW a \in Alerts, Bus(a)
      PROVE  TypeOK'
  <2>1. alerts' \in [Alerts -> Alert] /\ requests' = requests
    BY <1>1, BusStep DEF Moved
  <2>2. alerts[a] \in Alert
    BY DEF TypeOK
  <2>3. ASSUME NEW l \in Levels, Emit(a, l)
        PROVE  TypeOK'
    BY <2>1, <2>3 DEF Emit, Fail, TypeOK, dedup, settings, inbox
  <2>4. CASE LoadRow(a)
    BY <2>1, <2>4 DEF LoadRow, Fail, TypeOK, dedup, settings, inbox
  <2>5. CASE FillCache(a)
    <3>1. alerts[a].seen \in Settings \cup {"none"}
      BY <2>2 DEF Alert
    <3> QED
      BY <1>f, <2>1, <2>5, <3>1 DEF FillCache, Fail, TypeOK, dedup, inbox
  <2>6. CASE CheckDedup(a)
    <3>1. keys' \subseteq Levels /\ passed' \in [Levels -> Nat]
            /\ outranked' \subseteq Levels /\ kept' \subseteq Levels /\ failures' \in Nat
      <4>1. \/ UNCHANGED <<keys, passed, outranked, kept>>
            \/ /\ alerts[a].level \notin keys
               /\ keys' = keys \cup {alerts[a].level}
               /\ passed' = [passed EXCEPT ![alerts[a].level] = @ + 1]
               /\ Outrank(alerts[a].level)
               /\ kept' = kept \ {alerts[a].level}
            \/ Outrank(alerts[a].level) /\ UNCHANGED <<keys, passed, kept>>
        BY <2>6 DEF CheckDedup, dedup
      <4>2. failures' \in Nat
        BY <2>6 DEF CheckDedup, Fail, TypeOK
      <4> DEFINE l == alerts[a].level
      <4>3. l \in Levels
        BY <2>2 DEF Alert
      <4>4. keys' \subseteq Levels /\ passed' \in [Levels -> Nat]
        <5> HIDE DEF l
        <5> QED
          BY <4>1, <4>3 DEF TypeOK, l
      <4>5. outranked' \subseteq Levels /\ kept' \subseteq Levels
        BY <4>1, <4>3 DEF TypeOK, Outrank
      <4> QED
        BY <4>2, <4>4, <4>5
    <3> QED
      BY <2>1, <2>6, <3>1 DEF CheckDedup, TypeOK, settings, inbox
  <2>7. CASE ClearLower(a)
    <3>1. keys' \subseteq Levels /\ passed' \in [Levels -> Nat]
            /\ outranked' \subseteq Levels /\ kept' \subseteq Levels /\ failures' \in Nat
      <4> DEFINE lower == 1..(alerts[a].level - 1)
      <4>1. \/ Remove(lower) /\ UNCHANGED failures
            \/ Fail /\ kept' = kept \cup lower /\ UNCHANGED <<keys, passed, outranked>>
        BY <2>7 DEF ClearLower
      <4>2. lower \subseteq Levels
        BY <2>2 DEF Alert, Levels
      <4> HIDE DEF lower
      <4>3. CASE Remove(lower) /\ UNCHANGED failures
        BY <4>3, Removal DEF TypeOK
      <4>4. CASE Fail /\ kept' = kept \cup lower /\ UNCHANGED <<keys, passed, outranked>>
        BY <4>2, <4>4 DEF TypeOK, Fail
      <4> QED
        BY <4>1, <4>3, <4>4
    <3> QED
      BY <2>1, <2>7, <3>1 DEF ClearLower, TypeOK, settings, inbox
  <2>8. CASE CheckRate(a)
    BY <2>1, <2>8 DEF CheckRate, Fail, TypeOK, dedup, settings, inbox
  <2>9. CASE Insert(a)
    BY <2>1, <2>9 DEF Insert, Fail, TypeOK, dedup, settings
  <2>10. CASE Count(a)
    BY <1>f, <2>1, <2>10 DEF Count, Fail, TypeOK, dedup, settings
  <2> QED
    BY <1>1, <2>3, <2>4, <2>5, <2>6, <2>7, <2>8, <2>9, <2>10 DEF Bus
<1>2. ASSUME NEW r \in Requests, Owner(r)
      PROVE  TypeOK'
  <2>1. requests' \in [Requests -> Request] /\ UNCHANGED <<alerts, keys, passed, outranked, kept, rate>>
    BY <1>2, OwnerStep
  <2>2. CASE SelectPreferences(r)
    BY <2>1, <2>2 DEF SelectPreferences, TypeOK, settings, inbox
  <2>3. ASSUME NEW v \in Settings, WritePreferences(r, v)
        PROVE  TypeOK'
    BY <2>1, <2>3 DEF WritePreferences, TypeOK, Fail, inbox
  <2>4. CASE InvalidatePreferences(r)
    BY <1>f, <2>1, <2>4 DEF InvalidatePreferences, TypeOK, Fail, inbox
  <2>5. CASE MarkRead(r)
    BY <2>1, <2>5 DEF MarkRead, TypeOK, settings
  <2>6. CASE Decrement(r)
    BY <1>f, <2>1, <2>6 DEF Decrement, TypeOK, Fail, settings
  <2>7. CASE Floor(r)
    BY <2>1, <2>7 DEF Floor, TypeOK, Fail, settings
  <2>8. CASE ReadAll(r)
    BY <2>1, <2>8 DEF ReadAll, TypeOK, settings
  <2>9. CASE Reset(r)
    BY <1>f, <2>1, <2>9 DEF Reset, TypeOK, Fail, settings
  <2> QED
    BY <1>2, <2>2, <2>3, <2>4, <2>5, <2>6, <2>7, <2>8, <2>9 DEF Owner
<1>3. ASSUME NEW l \in Levels, KeyExpires(l)
      PROVE  TypeOK'
  <2>1. Remove({l})
    BY <1>3 DEF KeyExpires
  <2>2. keys' \subseteq Levels /\ passed' \in [Levels -> Nat]
          /\ outranked' \subseteq Levels /\ kept' \subseteq Levels
    BY <2>1, Removal
  <2> QED
    BY <1>3, <2>2 DEF KeyExpires, TypeOK, settings, inbox
<1>4. CASE CacheExpires \/ RateWindowEnds
  BY <1>f, <1>4 DEF CacheExpires, RateWindowEnds, TypeOK, dedup, settings, inbox
<1>5. CASE RedisRestarts
  <2>1. Remove(Levels)
    BY <1>5 DEF RedisRestarts
  <2>2. keys' \subseteq Levels /\ passed' \in [Levels -> Nat]
          /\ outranked' \subseteq Levels /\ kept' \subseteq Levels
    BY <2>1, Removal
  <2> QED
    BY <1>f, <1>5, <2>2 DEF RedisRestarts, TypeOK, Fail
<1> QED
  BY <1>1, <1>2, <1>3, <1>4, <1>5 DEF Next

\* Where an alert may have arrived after a step of its emission.
LEMMA Arrivals ==
  ASSUME TypeOK, NEW a \in Alerts, Bus(a)
  PROVE  /\ alerts'[a].at = "count" => Insert(a)
         /\ alerts'[a].at = "fill" => LoadRow(a) /\ alerts'[a].seen = row
<1>1. alerts \in [Alerts -> Alert] /\ alerts[a] \in Alert
  BY DEF TypeOK
<1>2. /\ "dedup" \in AlertPlaces /\ "clear" \in AlertPlaces /\ "rate" \in AlertPlaces
      /\ "insert" \in AlertPlaces /\ "count" \in AlertPlaces
  BY DEF AlertPlaces
<1>3. ASSUME NEW l \in Levels, Emit(a, l)
      PROVE  alerts'[a].at \notin {"count", "fill"}
  BY <1>1, <1>3 DEF Emit, Ended
<1>4. ASSUME LoadRow(a)
      PROVE  alerts'[a].at # "count" /\ (alerts'[a].at = "fill" => alerts'[a].seen = row)
  <2>1. CASE Go(a, "dedup")
    BY <1>2, <2>1, Moves
  <2>2. CASE alerts' = [alerts EXCEPT ![a] =
               [at |-> "fill", level |-> alerts[a].level, seen |-> row]]
    BY <1>1, <2>2
  <2> QED
    BY <1>4, <2>1, <2>2 DEF LoadRow
<1>5. ASSUME FillCache(a)
      PROVE  alerts'[a].at \notin {"count", "fill"}
  <2>1. CASE End(a)
    BY <2>1, Moves
  <2>2. CASE alerts' = [alerts EXCEPT ![a] =
               [at |-> "dedup", level |-> alerts[a].level, seen |-> "none"]]
    BY <1>1, <2>2
  <2> QED
    BY <1>5, <2>1, <2>2 DEF FillCache
<1>6. ASSUME CheckDedup(a) \/ ClearLower(a) \/ CheckRate(a) \/ Count(a)
      PROVE  alerts'[a].at \notin {"count", "fill"}
  <2>1. End(a) \/ Go(a, "clear") \/ Go(a, "rate") \/ Forget(a, "insert")
    BY <1>6 DEF CheckDedup, AfterDedup, ClearLower, CheckRate, Count
  <2> QED
    BY <1>2, <2>1, Moves
<1>7. ASSUME Insert(a)
      PROVE  alerts'[a].at # "fill"
  <2>1. End(a) \/ Go(a, "count")
    BY <1>7 DEF Insert
  <2> QED
    BY <1>2, <2>1, Moves
<1> QED
  BY <1>3, <1>4, <1>5, <1>6, <1>7 DEF Bus

\* An alert that is about to clear keys still is unless it takes the step.
LEMMA Clearing ==
  ASSUME TypeOK, NEW a \in Alerts, Moved(a), ~At(a, "clear"), NEW l \in Levels,
         \E b \in Alerts : At(b, "clear") /\ alerts[b].level > l
  PROVE  \E b \in Alerts : alerts'[b].at = "clear" /\ alerts'[b].level > l
<1>1. PICK b \in Alerts : At(b, "clear") /\ alerts[b].level > l
  OBVIOUS
<1>2. b # a /\ alerts'[b] = alerts[b]
  BY <1>1 DEF Moved, OnlyAlert
<1> QED
  BY <1>1, <1>2 DEF At

Windows == \A l \in Levels : passed[l] = IF l \in keys THEN 1 ELSE 0
Outranked == \A l \in outranked : \/ l \in kept
                                  \/ \E a \in Alerts : At(a, "clear") /\ alerts[a].level > l

\* Removed keys start a new window.
LEMMA NewWindows ==
  ASSUME Windows, NEW levels, Remove(levels)
  PROVE  Windows'
BY DEF Windows, Remove

\* One alert of a level goes on per key, and escalations clear what they outrank.
LEMMA DedupStep ==
  ASSUME TypeOK, Windows, Outranked, Next
  PROVE  Windows' /\ Outranked'
<1>1. ASSUME NEW a \in Alerts, CheckDedup(a)
      PROVE  Windows' /\ Outranked'
  <2> DEFINE l == alerts[a].level
  <2>1. l \in Levels /\ Critical \in Nat
    BY DEF TypeOK, Alert
  <2>2. Moved(a) /\ ~At(a, "clear")
    BY <1>1, BusStep DEF Bus, CheckDedup, At
  <2>3. CASE End(a) /\ UNCHANGED dedup
    BY <2>2, <2>3, Clearing DEF dedup, Windows, Outranked, At, TypeOK
  <2>4. CASE /\ l \notin keys /\ keys' = keys \cup {l}
             /\ passed' = [passed EXCEPT ![l] = @ + 1]
             /\ Outrank(l) /\ kept' = kept \ {l} /\ Go(a, AfterDedup(l))
    <3>1. Windows'
      <4> HIDE DEF l
      <4> QED
        BY <2>1, <2>4 DEF Windows, TypeOK
    <3>2. ASSUME NEW k \in outranked', k \notin kept'
          PROVE  \E b \in Alerts : alerts'[b].at = "clear" /\ alerts'[b].level > k
      <4>1. CASE k \in keys /\ k < l
        <5>1. l > 1 /\ AfterDedup(l) = "clear"
          BY <2>1, <4>1 DEF AfterDedup, Levels, TypeOK
        <5>2. alerts'[a].at = "clear" /\ alerts'[a].level = l
          BY <2>4, <5>1, Moves DEF AlertPlaces
        <5> QED
          BY <2>1, <4>1, <5>2 DEF Levels, TypeOK
      <4>2. CASE k \in outranked \ {l}
        <5>1. k \in Levels /\ k \notin kept
          BY <2>4, <3>2, <4>2 DEF TypeOK
        <5> QED
          BY <2>2, <4>2, <5>1, Clearing DEF Outranked
      <4> QED
        BY <2>4, <3>2, <4>1, <4>2 DEF Outrank
    <3> QED
      BY <3>1, <3>2 DEF Outranked, At
  <2>5. CASE Outrank(l) /\ Go(a, AfterDedup(l)) /\ UNCHANGED <<keys, passed, kept>>
    <3>1. Windows'
      BY <2>5 DEF Windows
    <3>2. ASSUME NEW k \in outranked', k \notin kept'
          PROVE  \E b \in Alerts : alerts'[b].at = "clear" /\ alerts'[b].level > k
      <4>1. CASE k \in keys /\ k < l
        <5>1. l > 1 /\ AfterDedup(l) = "clear"
          BY <2>1, <4>1 DEF AfterDedup, Levels, TypeOK
        <5>2. alerts'[a].at = "clear" /\ alerts'[a].level = l
          BY <2>5, <5>1, Moves DEF AlertPlaces
        <5> QED
          BY <2>1, <4>1, <5>2 DEF Levels, TypeOK
      <4>2. CASE k \in outranked \ {l}
        <5>1. k \in Levels /\ k \notin kept
          BY <2>5, <3>2, <4>2 DEF TypeOK
        <5> QED
          BY <2>2, <4>2, <5>1, Clearing DEF Outranked
      <4> QED
        BY <2>5, <3>2, <4>1, <4>2 DEF Outrank
    <3> QED
      BY <3>1, <3>2 DEF Outranked, At
  <2> QED
    BY <1>1, <2>3, <2>4, <2>5 DEF CheckDedup
<1>2. ASSUME NEW a \in Alerts, ClearLower(a)
      PROVE  Windows' /\ Outranked'
  <2> DEFINE lower == 1..(alerts[a].level - 1)
  <2>1. alerts[a].level \in Levels /\ Critical \in Nat
    BY DEF TypeOK, Alert
  <2>2. Moved(a)
    BY <1>2, BusStep DEF Bus
  <2>3. \/ Remove(lower)
        \/ kept' = kept \cup lower /\ UNCHANGED <<keys, passed, outranked>>
    BY <1>2 DEF ClearLower
  <2>4. Windows'
    <3> HIDE DEF lower
    <3> QED
      BY <2>3, NewWindows DEF Windows
  <2>5. ASSUME NEW k \in outranked', k \notin kept'
        PROVE  \E b \in Alerts : alerts'[b].at = "clear" /\ alerts'[b].level > k
    <3>1. k \in outranked /\ k \notin lower /\ k \notin kept /\ k \in Levels
      <4> HIDE DEF lower
      <4> QED
        BY <2>3, <2>5 DEF Remove, TypeOK
    <3>2. PICK b \in Alerts : At(b, "clear") /\ alerts[b].level > k
      BY <3>1 DEF Outranked
    <3>3. k \in Nat /\ k >= alerts[a].level
      BY <2>1, <3>1 DEF Levels
    <3>4. b # a
      BY <2>1, <3>2, <3>3 DEF Levels
    <3> QED
      BY <2>2, <3>2, <3>4 DEF Moved, OnlyAlert, At
  <2> QED
    BY <2>4, <2>5 DEF Outranked, At
<1>3. ASSUME NEW a \in Alerts, Bus(a), ~CheckDedup(a), ~ClearLower(a)
      PROVE  Windows' /\ Outranked'
  <2>1. UNCHANGED <<keys, passed, outranked, kept>> /\ ~At(a, "clear")
    BY <1>3 DEF Bus, Emit, LoadRow, FillCache, CheckRate, Insert, Count, dedup, At
  <2>2. Moved(a)
    BY <1>3, BusStep
  <2> QED
    BY <2>1, <2>2, Clearing DEF Windows, Outranked, At, TypeOK
<1>4. ASSUME NEW r \in Requests, Owner(r)
      PROVE  Windows' /\ Outranked'
  <2>1. UNCHANGED <<keys, passed, outranked, kept, alerts>>
    BY <1>4, OwnerStep DEF Owner, SelectPreferences, InvalidatePreferences, WritePreferences,
         MarkRead, Decrement, Floor, ReadAll, Reset, dedup
  <2> QED
    BY <2>1 DEF Windows, Outranked, At
<1>5. ASSUME NEW levels, Remove(levels), UNCHANGED alerts
      PROVE  Windows' /\ Outranked'
  <2>1. Outranked'
    BY <1>5 DEF Remove, Outranked, At
  <2> QED
    BY <1>5, <2>1, NewWindows
<1>6. ASSUME NEW l \in Levels, KeyExpires(l)
      PROVE  Windows' /\ Outranked'
  BY <1>5, <1>6 DEF KeyExpires
<1>7. CASE RedisRestarts
  BY <1>5, <1>7 DEF RedisRestarts
<1>8. CASE CacheExpires \/ RateWindowEnds
  BY <1>8 DEF CacheExpires, RateWindowEnds, dedup, Windows, Outranked, At
<1> QED
  BY <1>1, <1>2, <1>3, <1>4, <1>6, <1>7, <1>8 DEF Next

Invalidating == \E r \in Requests : requests[r].at = "invalidate"

\* A request that is about to invalidate still is unless it takes the step.
LEMMA StillInvalidating ==
  ASSUME Invalidating, NEW r \in Requests, OnlyRequest(r), requests[r].at # "invalidate"
  PROVE  Invalidating'
BY DEF Invalidating, OnlyRequest

\* The row changes in one step alone, and an invalidation follows.
LEMMA RowStep ==
  ASSUME TypeOK, NEW r \in Requests, Owner(r), ~InvalidatePreferences(r)
  PROVE  /\ UNCHANGED <<cache, late, stale, alerts>>
         /\ Invalidating' \/ (row' = row /\ ~Invalidating)
<1>1. UNCHANGED <<cache, late, stale, alerts>>
  BY DEF Owner, SelectPreferences, WritePreferences, MarkRead, Decrement, Floor,
         ReadAll, Reset, settings
<1>2. row' = row \/ Invalidating'
  <2>1. ASSUME requests' = [requests EXCEPT ![r].at = "invalidate"]
        PROVE  Invalidating'
    <3>1. requests'[r].at = "invalidate"
      BY <2>1 DEF TypeOK, Request
    <3> QED
      BY <3>1 DEF Invalidating
  <2> QED
    BY <2>1 DEF Owner, SelectPreferences, WritePreferences, MarkRead, Decrement, Floor,
                ReadAll, Reset, settings
<1>3. requests[r].at # "invalidate"
  BY DEF Owner, SelectPreferences, WritePreferences, MarkRead, Decrement, Floor, ReadAll, Reset
<1>4. Invalidating => Invalidating'
  BY <1>3, OwnerStep, StillInvalidating
<1> QED
  BY <1>1, <1>2, <1>4

\* A reader of the preferences holds those of the row, or is late.
LEMMA ReaderStep ==
  ASSUME TypeOK, ReaderInv, Next
  PROVE  ReaderInv'
<1>1. ASSUME NEW a \in Alerts, Bus(a)
      PROVE  ReaderInv'
  <2>1. Moved(a) /\ requests' = requests
    BY <1>1, BusStep
  <2>2. row' = row /\ (\A b \in Alerts : b # a /\ b \in late => b \in late')
    BY <1>1 DEF Bus, Emit, LoadRow, FillCache, CheckDedup, ClearLower, CheckRate,
                Insert, Count, settings
  <2>3. ASSUME NEW b \in Alerts, alerts'[b].at = "fill"
        PROVE  alerts'[b].seen = row' \/ b \in late' \/ Invalidating'
    <3>1. CASE b = a
      BY <1>1, <2>2, <2>3, <3>1, Arrivals
    <3>2. CASE b # a
      <4>1. alerts'[b] = alerts[b]
        BY <2>1, <3>2 DEF Moved, OnlyAlert
      <4>2. alerts[b].seen = row \/ b \in late \/ Invalidating
        BY <2>3, <4>1 DEF ReaderInv, At, Invalidating
      <4> QED
        BY <2>1, <2>2, <3>2, <4>1, <4>2 DEF Invalidating
    <3> QED
      BY <3>1, <3>2
  <2> QED
    BY <2>3 DEF ReaderInv, At, Invalidating
<1>2. ASSUME NEW r \in Requests, Owner(r), ~InvalidatePreferences(r)
      PROVE  ReaderInv'
  BY <1>2, RowStep DEF ReaderInv, At, Invalidating
<1>3. ASSUME NEW r \in Requests, InvalidatePreferences(r)
      PROVE  ReaderInv'
  <2>1. alerts' = alerts /\ late' = late \cup {a \in Alerts : At(a, "fill")}
    BY <1>3 DEF InvalidatePreferences
  <2> QED
    BY <2>1 DEF ReaderInv, At
<1>4. CASE \/ \E l \in Levels : KeyExpires(l)
           \/ CacheExpires \/ RateWindowEnds \/ RedisRestarts
  <2>1. UNCHANGED <<alerts, requests, row, late>>
    BY <1>4 DEF KeyExpires, CacheExpires, RateWindowEnds, RedisRestarts, settings
  <2> QED
    BY <2>1 DEF ReaderInv, At
<1> QED
  BY <1>1, <1>2, <1>3, <1>4 DEF Next

\* Cached preferences are those of the row, but for the overlaps named.
LEMMA CacheStep ==
  ASSUME TypeOK, ReaderInv, CachedPreferences, Next
  PROVE  CachedPreferences'
<1>1. ASSUME NEW a \in Alerts, FillCache(a)
      PROVE  CachedPreferences'
  <2>1. requests' = requests /\ row' = row
    BY <1>1 DEF FillCache
  <2>2. CASE cache' = alerts[a].seen /\ stale' = (a \in late)
    <3>1. alerts[a].seen = row \/ a \in late \/ Invalidating
      BY <1>1 DEF FillCache, ReaderInv, Invalidating
    <3>2. cache' = row' \/ a \in late \/ Invalidating'
      BY <2>1, <2>2, <3>1 DEF Invalidating
    <3>3. a \in late => stale'
      BY <2>2, Zenon
    <3> QED
      BY <3>2, <3>3, Zenon DEF CachedPreferences, Invalidating
  <2>3. CASE UNCHANGED <<cache, stale>>
    BY <2>1, <2>3, Zenon DEF CachedPreferences
  <2> QED
    BY <1>1, <2>2, <2>3, Zenon DEF FillCache
<1>2. ASSUME NEW a \in Alerts, Bus(a), ~FillCache(a)
      PROVE  CachedPreferences'
  <2>1. UNCHANGED <<cache, stale, row>>
    BY <1>2, Zenon DEF Bus, Emit, LoadRow, CheckDedup, ClearLower, CheckRate, Insert, Count, settings
  <2>2. requests' = requests
    BY <1>2, BusStep
  <2> QED
    BY <2>1, <2>2, Zenon DEF CachedPreferences
<1>3. ASSUME NEW r \in Requests, Owner(r), ~InvalidatePreferences(r)
      PROVE  CachedPreferences'
  <2>1. UNCHANGED <<cache, stale>> /\ (Invalidating' \/ (row' = row /\ ~Invalidating))
    BY <1>3, RowStep
  <2> QED
    BY <2>1, Zenon DEF CachedPreferences, Invalidating
<1>4. ASSUME NEW r \in Requests, InvalidatePreferences(r)
      PROVE  CachedPreferences'
  BY <1>4, Zenon DEF InvalidatePreferences, CachedPreferences
<1>5. CASE \/ \E l \in Levels : KeyExpires(l)
           \/ CacheExpires \/ RateWindowEnds \/ RedisRestarts
  <2>1. /\ UNCHANGED <<row, requests>>
        /\ cache' = "none" \/ UNCHANGED <<cache, stale>>
    BY <1>5, Zenon DEF KeyExpires, CacheExpires, RateWindowEnds, RedisRestarts, settings
  <2> QED
    BY <2>1, Zenon DEF CachedPreferences
<1> QED
  BY <1>1, <1>2, <1>3, <1>4, <1>5, Zenon DEF Next

\* Who is counting after a step of an emission.
LEMMA CountingSteps ==
  ASSUME TypeOK, NEW a \in Alerts, Moved(a)
  PROVE  /\ alerts'[a].at = "count" => Counting' = Counting \cup {a}
         /\ alerts'[a].at # "count" => Counting' = Counting \ {a}
BY DEF Moved, OnlyAlert, Counting, At

\* Who is reading after a step of the owner.
LEMMA ReadingSteps ==
  ASSUME TypeOK, NEW r \in Requests, OnlyRequest(r)
  PROVE  /\ Reading' = IF requests'[r].at \in {"decrement", "floor"}
                         THEN Reading \cup {r} ELSE Reading \ {r}
         /\ ReadingAll' = IF requests'[r].at = "reset"
                            THEN ReadingAll \cup {r} ELSE ReadingAll \ {r}
BY DEF OnlyRequest, Reading, ReadingAll

\* A member more or less in a finite set.
LEMMA OneMore ==
  ASSUME NEW S, NEW x, IsFiniteSet(S)
  PROVE  /\ IsFiniteSet(S \cup {x}) /\ IsFiniteSet(S \ {x})
         /\ Cardinality(S) \in Nat
         /\ x \notin S => Cardinality(S \cup {x}) = Cardinality(S) + 1
         /\ x \in S => Cardinality(S \ {x}) = Cardinality(S) - 1
BY FS_AddElement, FS_RemoveElement, FS_CardinalityType

Alone == \A r \in alone : Counting = {} /\ Reading = {} /\ ReadingAll = {r} /\ unread = 0
Floored == \A r \in Requests : requests[r].at = "floor" => skewed
Balanced == ~skewed /\ ReadingAll = {} =>
              counter + Cardinality(Counting) = unread + Cardinality(Reading)

\* A step that leaves the inbox and what is under way alone.
LEMMA QuietInbox ==
  ASSUME UnreadInv, UNCHANGED inbox, Counting' = Counting, Reading' = Reading,
         ReadingAll' = ReadingAll,
         \A r \in Requests : requests'[r].at = "floor" => requests[r].at = "floor"
  PROVE  UnreadInv'
<1>1. UNCHANGED <<unread, counter, alone, skewed>>
  BY DEF inbox
<1>2. Alone' /\ Balanced' /\ Floored'
  BY <1>1 DEF UnreadInv, Alone, Balanced, Floored
<1> QED
  BY <1>2 DEF UnreadInv, Alone, Balanced, Floored

\* Storing and counting an alert.
LEMMA UnreadBus ==
  ASSUME TypeOK, UnreadInv, NEW a \in Alerts, Bus(a)
  PROVE  UnreadInv'
<1>1. Moved(a) /\ requests' = requests /\ Reading' = Reading /\ ReadingAll' = ReadingAll
  BY BusStep DEF Reading, ReadingAll
<1>2. IsFiniteSet(Counting) /\ unread \in Nat /\ counter \in Int /\ Cardinality(Reading) \in Nat
  BY FS_CardinalityType DEF UnreadInv, TypeOK
<1>3. ASSUME UNCHANGED inbox, ~Insert(a), ~Count(a)
      PROVE  UnreadInv'
  <2>1. ~At(a, "count")
    BY <1>3 DEF Bus, Emit, LoadRow, FillCache, CheckDedup, ClearLower, CheckRate, At
  <2>2. Counting' = Counting \ {a} /\ a \notin Counting
    BY <1>1, <1>3, <2>1, Arrivals, CountingSteps DEF Counting
  <2> QED
    BY <1>1, <1>3, <2>2, QuietInbox
<1>4. CASE Insert(a)
  <2>1. a \notin Counting
    BY <1>4 DEF Insert, Counting, At
  <2>2. CASE /\ unread' = unread + 1 /\ alone' = {} /\ Go(a, "count")
             /\ UNCHANGED <<counter, skewed>>
    <3>1. Counting' = Counting \cup {a}
      BY <1>1, <2>2, Moves, CountingSteps DEF AlertPlaces
    <3>2. IsFiniteSet(Counting') /\ Cardinality(Counting') = Cardinality(Counting) + 1
            /\ Cardinality(Counting) \in Nat
      BY <1>2, <2>1, <3>1, OneMore
    <3>3. Balanced'
      BY <1>1, <1>2, <2>2, <3>2 DEF Balanced, UnreadInv
    <3>4. Floored'
      BY <1>1, <2>2, Zenon DEF Floored, UnreadInv
    <3> QED
      BY <1>1, <2>2, <3>2, <3>3, <3>4 DEF UnreadInv, Balanced, Floored
  <2>3. CASE End(a) /\ UNCHANGED inbox
    <3>1. Counting' = Counting
      BY <1>1, <2>1, <2>3, Moves, CountingSteps
    <3> QED
      BY <1>1, <2>3, <3>1, QuietInbox
  <2> QED
    BY <1>4, <2>2, <2>3 DEF Insert, inbox
<1>5. CASE Count(a)
  <2>1. a \in Counting /\ UNCHANGED <<unread, alone>> /\ End(a)
    BY <1>5 DEF Count, Counting, At
  <2>2. Counting' = Counting \ {a}
    BY <1>1, <2>1, Moves, CountingSteps
  <2>3. IsFiniteSet(Counting') /\ Cardinality(Counting') = Cardinality(Counting) - 1
          /\ Cardinality(Counting) \in Nat
    BY <1>2, <2>1, <2>2, OneMore
  <2>4. alone' = {}
    BY <2>1 DEF UnreadInv
  <2>5. \/ counter' = counter + 1 /\ UNCHANGED skewed
        \/ skewed' = TRUE
    BY <1>5 DEF Count
  <2>6. Balanced'
    BY <1>1, <1>2, <2>1, <2>3, <2>5 DEF Balanced, UnreadInv
  <2>7. Floored'
    <3>1. CASE UNCHANGED skewed
      BY <1>1, <3>1, Zenon DEF Floored, UnreadInv
    <3>2. CASE skewed' = TRUE
      BY <3>2, Zenon DEF Floored
    <3> QED
      BY <2>5, <3>1, <3>2
  <2> QED
    BY <1>1, <2>3, <2>4, <2>6, <2>7 DEF UnreadInv, Balanced, Floored
<1>6. UNCHANGED inbox \/ Insert(a) \/ Count(a)
  BY DEF Bus, Emit, LoadRow, FillCache, CheckDedup, ClearLower, CheckRate
<1> QED
  BY <1>3, <1>4, <1>5, <1>6

\* Reading one, reading all, and what follows at the counter.
LEMMA UnreadOwner ==
  ASSUME TypeOK, UnreadInv, NEW r \in Requests, Owner(r)
  PROVE  UnreadInv'
<1>1. /\ OnlyRequest(r) /\ alerts' = alerts /\ Counting' = Counting
      /\ requests[r] \in Request /\ requests \in [Requests -> Request]
  BY OwnerStep DEF Counting, At, TypeOK
<1>2. /\ IsFiniteSet(Counting) /\ IsFiniteSet(Reading) /\ unread \in Nat /\ counter \in Int
      /\ Cardinality(Counting) \in Nat
  BY FS_CardinalityType DEF UnreadInv, TypeOK
<1>3. CASE SelectPreferences(r) \/ InvalidatePreferences(r)
             \/ \E v \in Settings : WritePreferences(r, v)
  <2>1. UNCHANGED inbox /\ requests[r].at \notin {"decrement", "floor", "reset"}
    BY <1>3 DEF SelectPreferences, InvalidatePreferences, WritePreferences
  <2>2. requests'[r].at \in {"write", "invalidate", "end"}
    BY <1>1, <1>3 DEF SelectPreferences, InvalidatePreferences, WritePreferences, Close, Closed, Request
  <2>3. Reading' = Reading /\ ReadingAll' = ReadingAll
    BY <1>1, <2>1, <2>2, ReadingSteps DEF Reading, ReadingAll
  <2>4. \A q \in Requests : requests'[q].at = "floor" => requests[q].at = "floor"
    BY <1>1, <2>2 DEF OnlyRequest
  <2> QED
    BY <1>1, <2>1, <2>3, <2>4, QuietInbox
<1>4. CASE MarkRead(r)
  <2>1. /\ r \notin Reading /\ r \notin ReadingAll /\ unread' = unread - 1 /\ alone' = {}
        /\ UNCHANGED <<counter, skewed>>
    BY <1>4 DEF MarkRead, Reading, ReadingAll
  <2>2. requests'[r].at = "decrement"
    BY <1>1, <1>4 DEF MarkRead, Request
  <2>3. Reading' = Reading \cup {r} /\ ReadingAll' = ReadingAll
    <3>1. ReadingAll' = ReadingAll \ {r}
      BY <1>1, <2>2, ReadingSteps
    <3>2. Reading' = Reading \cup {r}
      BY <1>1, <2>2, ReadingSteps
    <3> QED
      BY <2>1, <3>1, <3>2
  <2>4. /\ IsFiniteSet(Reading') /\ Cardinality(Reading') = Cardinality(Reading) + 1
        /\ Cardinality(Reading) \in Nat
    BY <1>2, <2>1, <2>3, OneMore
  <2>5. Balanced'
    BY <1>1, <1>2, <2>1, <2>3, <2>4 DEF Balanced, UnreadInv
  <2>6. Floored'
    BY <1>1, <2>1, <2>2 DEF Floored, UnreadInv, OnlyRequest
  <2> QED
    BY <1>1, <1>2, <2>1, <2>4, <2>5, <2>6 DEF UnreadInv, Balanced, Floored
<1>5. CASE Decrement(r)
  <2>1. r \in Reading /\ r \notin ReadingAll /\ UNCHANGED <<unread, alone>>
    BY <1>5 DEF Decrement, Reading, ReadingAll
  <2>2. alone' = {}
    BY <2>1 DEF UnreadInv
  <2>3. \/ requests'[r].at = "end" /\ counter' = counter - 1 /\ UNCHANGED skewed
        \/ requests'[r].at \in {"end", "floor"} /\ skewed' = TRUE
    BY <1>1, <1>5 DEF Decrement, Close, Closed, Request
  <2>4. ReadingAll' = ReadingAll /\ IsFiniteSet(Reading')
    <3>1. Reading' = Reading \ {r} \/ Reading' = Reading
      <4>1. CASE requests'[r].at = "end"
        BY <1>1, <4>1, ReadingSteps
      <4>2. CASE requests'[r].at = "floor"
        <5>1. Reading' = Reading \cup {r}
          BY <1>1, <4>2, ReadingSteps
        <5> QED
          BY <2>1, <5>1
      <4> QED
        BY <2>3, <4>1, <4>2
    <3>2. ReadingAll' = ReadingAll \ {r}
      <4>1. requests'[r].at # "reset"
        BY <2>3
      <4> QED
        BY <1>1, <4>1, ReadingSteps
    <3> QED
      BY <1>2, <2>1, <3>1, <3>2, OneMore
  <2>5. Balanced' /\ Floored'
    <3>1. CASE requests'[r].at = "end" /\ counter' = counter - 1 /\ UNCHANGED skewed
      <4>1. Reading' = Reading \ {r}
        BY <1>1, <3>1, ReadingSteps
      <4>2. Cardinality(Reading') = Cardinality(Reading) - 1 /\ Cardinality(Reading) \in Nat
        BY <1>2, <2>1, <4>1, OneMore
      <4>3. Balanced'
        BY <1>1, <1>2, <2>1, <2>4, <3>1, <4>2 DEF Balanced, UnreadInv
      <4>4. Floored'
        BY <1>1, <3>1 DEF Floored, UnreadInv, OnlyRequest
      <4> QED
        BY <4>3, <4>4
    <3>2. CASE skewed' = TRUE
      BY <3>2, Zenon DEF Balanced, Floored
    <3> QED
      BY <2>3, <3>1, <3>2
  <2> QED
    BY <1>1, <1>2, <2>2, <2>4, <2>5 DEF UnreadInv, Balanced, Floored
<1>6. CASE Floor(r)
  <2>1. r \in Reading /\ skewed /\ skewed' = skewed /\ UNCHANGED <<unread, alone>>
    BY <1>6 DEF Floor, Reading, UnreadInv
  <2>2. alone' = {}
    BY <2>1 DEF UnreadInv
  <2>3. requests'[r].at = "end"
    BY <1>1, <1>6 DEF Floor, Close, Closed
  <2>4. Reading' = Reading \ {r}
    BY <1>1, <2>3, ReadingSteps
  <2>5. IsFiniteSet(Reading')
    BY <1>2, <2>4, OneMore
  <2>6. Balanced' /\ Floored'
    BY <2>1 DEF Balanced, Floored
  <2> QED
    BY <1>1, <1>2, <2>2, <2>5, <2>6 DEF UnreadInv, Balanced, Floored
<1>7. CASE ReadAll(r)
  <2>1. /\ r \notin Reading /\ unread' = 0 /\ UNCHANGED <<counter, skewed>>
        /\ alone' = IF Counting \cup Reading \cup ReadingAll = {} THEN {r} ELSE {}
    BY <1>7 DEF ReadAll, Reading
  <2>2. requests'[r].at = "reset"
    BY <1>1, <1>7 DEF ReadAll, Request
  <2>3. Reading' = Reading /\ ReadingAll' = ReadingAll \cup {r}
    BY <1>1, <2>1, <2>2, ReadingSteps
  <2>4. Alone'
    BY <1>1, <2>1, <2>3 DEF Alone
  <2>5. Balanced'
    BY <2>3 DEF Balanced
  <2>6. Floored'
    BY <1>1, <2>1, <2>2 DEF Floored, UnreadInv, OnlyRequest
  <2> QED
    BY <1>1, <1>2, <2>3, <2>4, <2>5, <2>6 DEF UnreadInv, Alone, Balanced, Floored
<1>8. CASE Reset(r)
  <2>1. /\ r \notin Reading /\ r \in ReadingAll /\ unread' = unread /\ alone' = alone \ {r}
    BY <1>8 DEF Reset, Reading, ReadingAll
  <2>2. requests'[r].at = "end"
    BY <1>1, <1>8 DEF Reset, Close, Closed
  <2>3. Reading' = Reading /\ ReadingAll' = ReadingAll \ {r}
    BY <1>1, <2>1, <2>2, ReadingSteps
  <2>4. alone' = {}
    BY <2>1 DEF UnreadInv
  <2>5. Balanced' /\ Floored'
    <3>1. CASE counter' = 0 /\ skewed' = (r \notin alone) /\ r \in alone
      <4>1. Counting = {} /\ Reading = {} /\ unread = 0
        BY <3>1 DEF UnreadInv
      <4>2. Balanced'
        BY <1>1, <2>1, <2>3, <3>1, <4>1, FS_EmptySet DEF Balanced
      <4>3. Floored'
        BY <1>1, <2>3, <4>1 DEF Floored, Reading
      <4> QED
        BY <4>2, <4>3
    <3>2. CASE skewed'
      BY <3>2, Zenon DEF Balanced, Floored
    <3>3. \/ counter' = 0 /\ skewed' = (r \notin alone) /\ r \in alone
          \/ skewed'
      BY <1>8, Zenon DEF Reset
    <3> QED
      BY <3>1, <3>2, <3>3
  <2> QED
    BY <1>1, <1>2, <2>3, <2>4, <2>5 DEF UnreadInv, Balanced, Floored
<1> QED
  BY <1>3, <1>4, <1>5, <1>6, <1>7, <1>8 DEF Owner

\* What the counter misses or has too much stays under way.
LEMMA UnreadStep ==
  ASSUME TypeOK, UnreadInv, Next
  PROVE  UnreadInv'
<1>1. CASE \/ \E l \in Levels : KeyExpires(l)
           \/ CacheExpires \/ RateWindowEnds
  <2>1. UNCHANGED <<inbox, alerts, requests>>
    BY <1>1 DEF KeyExpires, CacheExpires, RateWindowEnds
  <2> QED
    BY <2>1, QuietInbox DEF Counting, Reading, ReadingAll, At
<1>2. CASE RedisRestarts
  <2>1. /\ Counting' = Counting /\ Reading' = Reading /\ ReadingAll' = ReadingAll
        /\ unread' = unread /\ alone' = alone /\ skewed' = TRUE
    BY <1>2 DEF RedisRestarts, Counting, Reading, ReadingAll, At
  <2>2. Balanced' /\ Floored'
    BY <2>1 DEF Balanced, Floored
  <2>3. Alone'
    BY <2>1 DEF UnreadInv, Alone
  <2> QED
    BY <2>1, <2>2, <2>3 DEF UnreadInv, Alone, Balanced, Floored
<1> QED
  BY <1>1, <1>2, UnreadBus, UnreadOwner DEF Next

\* Initially nothing is under way.
LEMMA Initially == Init => IInv
<1> SUFFICES ASSUME Init
             PROVE  IInv
  OBVIOUS
<1>1. TypeOK
  <2>1. 1 \in Levels
    BY DEF Levels
  <2>2. alerts \in [Alerts -> Alert]
    BY <2>1 DEF Init, Alert
  <2>3. requests \in [Requests -> Request]
    BY DEF Init, Request
  <2>4. passed \in [Levels -> Nat] /\ row \in Settings \cup {"none"}
          /\ cache \in Settings \cup {"none"}
    BY DEF Init, Settings
  <2>5. stale \in BOOLEAN /\ skewed \in BOOLEAN
    BY DEF Init
  <2> QED
    BY <2>2, <2>3, <2>4, <2>5 DEF Init, TypeOK
<1>2. Counting = {} /\ Reading = {} /\ ReadingAll = {}
  BY DEF Init, Counting, Reading, ReadingAll, At
<1>3. UnreadInv
  BY <1>2, FS_EmptySet DEF Init, UnreadInv
<1>4. DedupWindows /\ ReaderInv /\ CachedPreferences
  BY DEF Init, DedupWindows, ReaderInv, CachedPreferences, At
<1> QED
  BY <1>1, <1>3, <1>4 DEF IInv

\* Every step keeps the inductive invariant.
LEMMA Inductive == IInv /\ [Next]_vars => IInv'
<1> SUFFICES ASSUME IInv, [Next]_vars
             PROVE  IInv'
  OBVIOUS
<1>1. CASE Next
  <2>1. TypeOK' /\ ReaderInv' /\ CachedPreferences' /\ UnreadInv'
    BY <1>1, TypeStep, ReaderStep, CacheStep, UnreadStep DEF IInv
  <2>2. Windows' /\ Outranked'
    BY <1>1, DedupStep DEF IInv, DedupWindows, Windows, Outranked
  <2> QED
    BY <2>1, <2>2 DEF IInv, DedupWindows, Windows, Outranked
<1>2. CASE UNCHANGED vars
  <2>1. UNCHANGED <<row, cache, keys, rate, unread, counter, alerts, requests, passed,
                    outranked, kept, late, stale, alone, skewed, failures>>
    BY <1>2 DEF vars, dedup, settings, inbox
  <2>2. TypeOK'
    BY <2>1 DEF IInv, TypeOK
  <2>3. DedupWindows' /\ ReaderInv' /\ CachedPreferences'
    BY <2>1 DEF IInv, DedupWindows, ReaderInv, CachedPreferences, At
  <2>4. UnreadInv'
    BY <2>1 DEF IInv, UnreadInv, Counting, Reading, ReadingAll, At
  <2> QED
    BY <2>2, <2>3, <2>4 DEF IInv
<1> QED
  BY <1>1, <1>2

\* The inductive invariant holds in every reachable state.
THEOREM NotificationsInvariant == Spec => []IInv
BY Initially, Inductive, PTL DEF Spec

\* Columns, Redis keys and locals hold values of their kinds.
THEOREM TypeCorrect == Spec => []TypeOK
<1>1. IInv => TypeOK
  BY DEF IInv
<1> QED
  BY <1>1, NotificationsInvariant, PTL

\* Of the alerts of a level one goes on per deduplication key, and an escalation
\* clears the keys of the levels below it unless Redis fails.
THEOREM EscalationsOpenLowerWindows == Spec => []DedupWindows
<1>1. IInv => DedupWindows
  BY DEF IInv
<1> QED
  BY <1>1, NotificationsInvariant, PTL

\* Cached preferences differ from the row only while a request is about to delete
\* them, after a deletion that failed, or when a deletion overtook a reader.
THEOREM CacheFollowsTheRow == Spec => []CachedPreferences
<1>1. IInv => CachedPreferences
  BY DEF IInv
<1> QED
  BY <1>1, NotificationsInvariant, PTL

\* At rest the owner is shown the number of unread notifications, unless the
\* counter was lost, went below zero or was reset over others.
THEOREM ShownIsUnread == Spec => []UnreadIsShown
<1>1. IInv => UnreadIsShown
  <2> SUFFICES ASSUME IInv, ~skewed, Counting \cup Reading \cup ReadingAll = {}
               PROVE  Shown = unread
    BY DEF UnreadIsShown
  <2>1. Counting = {} /\ Reading = {} /\ ReadingAll = {}
    OBVIOUS
  <2>2. counter + Cardinality(Counting) = unread + Cardinality(Reading)
    BY <2>1 DEF IInv, UnreadInv
  <2>3. Cardinality(Counting) = 0 /\ Cardinality(Reading) = 0
    BY <2>1, FS_EmptySet
  <2>4. counter \in Int /\ unread \in Nat
    BY DEF IInv, TypeOK
  <2> QED
    BY <2>2, <2>3, <2>4 DEF Shown
<1> QED
  BY <1>1, NotificationsInvariant, PTL

=============================================================================
