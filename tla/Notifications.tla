---------------------------- MODULE Notifications ----------------------------
(***************************************************************************)
(* Health factor alerts of one position on their way to its owner's inbox: *)
(* emissions of the bus read the preferences through a cache, are held     *)
(* against the deduplication keys and the rate limit, and are stored and   *)
(* counted as unread, while the owner reads the inbox and changes the      *)
(* preferences.  Every await is a step of its own; Redis holds the cache,  *)
(* the keys, the rate and the unread counter, the database the rest.       *)
(*                                                                         *)
(* Redis is fail-open: when it answers with an error an alert goes on.     *)
(***************************************************************************)
EXTENDS Integers, FiniteSets

CONSTANTS Alerts,       \* calls of emit
          Requests,     \* requests of the owner
          Critical,     \* the highest level; 1 is caution
          RateLimit,    \* alerts per window of the in_app channel
          MaxFailures   \* bound: failing statements and restarts of Redis

ASSUME NotificationsAssumption ==
  /\ Critical \in Nat \ {0}
  /\ RateLimit \in Nat
  /\ MaxFailures \in Nat

VARIABLES
  row,       \* financial_enabled in notification_preferences, "none" without a row
  cache,     \* the same in Redis
  keys,      \* levels with a deduplication key
  rate,      \* count of the rate limit's window
  unread,    \* notifications with no read_at
  counter,   \* notification:unread
  alerts,    \* emissions: where they are, the level, the preference read
  requests,  \* the owner's requests: where they are, whether a row was found
  passed,    \* history: alerts of a level the deduplication key let through
  outranked, \* history: levels with a key from before a higher alert
  kept,      \* history: levels whose key an escalation failed to clear
  late,      \* history: emissions that read the row before an invalidation
  stale,     \* history: the cache was filled late, or not invalidated
  alone,     \* history: requests that read all and met nothing else since
  skewed,    \* history: the counter was lost, or written over others
  failures

redis == <<cache, keys, rate, counter>>
dedup == <<keys, passed, outranked, kept>>
settings == <<row, cache, late, stale>>
inbox == <<unread, counter, alone, skewed>>
vars == <<dedup, settings, inbox, rate, alerts, requests, failures>>

Levels == 1..Critical
Settings == {"on", "off"}
Ended == [at |-> "end", level |-> 1, seen |-> "none"]
Closed == [at |-> "end", found |-> FALSE]

Init ==
  /\ row \in {"none", "on"}
  /\ cache = "none"
  /\ keys = {}
  /\ rate = 0
  /\ unread = 0
  /\ counter = 0
  /\ alerts = [a \in Alerts |-> [at |-> "idle", level |-> 1, seen |-> "none"]]
  /\ requests = [r \in Requests |-> [at |-> "idle", found |-> FALSE]]
  /\ passed = [l \in Levels |-> 0]
  /\ outranked = {}
  /\ kept = {}
  /\ late = {}
  /\ stale = FALSE
  /\ alone = {}
  /\ skewed = FALSE
  /\ failures = 0

Fail == failures < MaxFailures /\ failures' = failures + 1
At(a, place) == alerts[a].at = place
Go(a, place) == alerts' = [alerts EXCEPT ![a].at = place]
\* Locals that are not read again are forgotten.
Forget(a, place) == alerts' = [alerts EXCEPT ![a] =
                      [at |-> place, level |-> 1, seen |-> "none"]]
End(a) == Forget(a, "end")
Close(r) == requests' = [requests EXCEPT ![r] = Closed]

-----------------------------------------------------------------------------
(* Preferences *)

\* emit, up to the look at the cache, where an error counts as a miss; a category
\* that is off ends it.
Emit(a, l) ==
  /\ At(a, "idle")
  /\ \E found \in {cache, "none"} :
       /\ IF found = cache THEN UNCHANGED failures ELSE Fail
       /\ alerts' = [alerts EXCEPT ![a] =
            IF found = "off" THEN Ended
            ELSE [at |-> IF found = "none" THEN "load" ELSE "dedup",
                  level |-> l, seen |-> "none"]]
  /\ UNCHANGED <<dedup, settings, inbox, rate, requests>>

\* The SELECT; the defaults, which are on, stand in for a missing row and an error.
LoadRow(a) ==
  /\ At(a, "load")
  /\ \/ row = "none" /\ Go(a, "dedup") /\ UNCHANGED failures
     \/ /\ row # "none"
        /\ alerts' = [alerts EXCEPT ![a] =
             [at |-> "fill", level |-> @.level, seen |-> row]]
        /\ UNCHANGED failures
     \/ Fail /\ Go(a, "dedup")
  /\ UNCHANGED <<dedup, settings, inbox, rate, requests>>

FillCache(a) ==
  /\ At(a, "fill")
  /\ \/ /\ cache' = alerts[a].seen
        /\ stale' = (a \in late)
        /\ UNCHANGED failures
     \/ Fail /\ UNCHANGED <<cache, stale>>
  /\ late' = late \ {a}
  /\ IF alerts[a].seen = "off"
       THEN End(a)
       ELSE alerts' = [alerts EXCEPT ![a] =
              [at |-> "dedup", level |-> @.level, seen |-> "none"]]
  /\ UNCHANGED <<row, dedup, inbox, rate, requests>>

\* PUT /notifications/preferences up to the look for a row.
SelectPreferences(r) ==
  /\ requests[r].at = "idle"
  /\ requests' = [requests EXCEPT ![r] = [at |-> "write", found |-> row # "none"]]
  /\ UNCHANGED <<dedup, settings, inbox, rate, alerts, failures>>

\* UPDATE or INSERT; the column is unique, so a second INSERT is an error.
WritePreferences(r, v) ==
  /\ requests[r].at = "write"
  /\ \/ /\ requests[r].found \/ row = "none"
        /\ row' = v
        /\ requests' = [requests EXCEPT ![r].at = "invalidate"]
        /\ UNCHANGED failures
     \/ /\ ~requests[r].found /\ row # "none"
        /\ Close(r)
        /\ UNCHANGED <<row, failures>>
     \/ Fail /\ Close(r) /\ UNCHANGED row
  /\ UNCHANGED <<cache, late, stale, dedup, inbox, rate, alerts>>

\* Mutant of InvalidatePreferences: only an INSERT invalidates.
InvalidateInserted(r) ==
  /\ requests[r].at = "invalidate"
  /\ \/ /\ cache' = IF requests[r].found THEN cache ELSE "none"
        /\ stale' = FALSE /\ UNCHANGED failures
     \/ Fail /\ stale' = TRUE /\ UNCHANGED cache
  /\ late' = late \cup {a \in Alerts : At(a, "fill")}
  /\ Close(r)
  /\ UNCHANGED <<row, dedup, inbox, rate, alerts>>

\* The cached preferences are deleted; whoever read the row is late with them.
InvalidatePreferences(r) ==
  /\ requests[r].at = "invalidate"
  /\ \/ cache' = "none" /\ stale' = FALSE /\ UNCHANGED failures
     \/ Fail /\ stale' = TRUE /\ UNCHANGED cache
  /\ late' = late \cup {a \in Alerts : At(a, "fill")}
  /\ Close(r)
  /\ UNCHANGED <<row, dedup, inbox, rate, alerts>>

-----------------------------------------------------------------------------
(* Deduplication and rate *)

\* A level's key goes: its window ends, or an escalation deletes it.
Remove(levels) ==
  /\ keys' = keys \ levels
  /\ passed' = [l \in Levels |-> IF l \in levels THEN 0 ELSE passed[l]]
  /\ outranked' = outranked \ levels
  /\ kept' = kept \ levels

\* An alert that goes on clears the lower levels' keys if there are any.
AfterDedup(l) == IF l > 1 THEN "clear" ELSE "rate"
Outrank(l) == outranked' = (outranked \ {l}) \cup {k \in keys : k < l}

\* checkDedup: SET key EX window NX.
CheckDedup(a) ==
  LET l == alerts[a].level
  IN  /\ At(a, "dedup")
      /\ \/ /\ l \in keys
            /\ End(a) /\ UNCHANGED <<dedup, failures>>
         \/ /\ l \notin keys
            /\ keys' = keys \cup {l}
            /\ passed' = [passed EXCEPT ![l] = @ + 1]
            /\ Outrank(l) /\ kept' = kept \ {l}
            /\ Go(a, AfterDedup(l)) /\ UNCHANGED failures
         \/ Fail /\ Outrank(l) /\ Go(a, AfterDedup(l)) /\ UNCHANGED <<keys, passed, kept>>
      /\ UNCHANGED <<settings, inbox, rate, requests>>

\* Mutant of ClearLower: the slice ends one level too early.
ClearLowerShort(a) ==
  LET lower == 1..(alerts[a].level - 2)
  IN  /\ At(a, "clear")
      /\ \/ Remove(lower) /\ UNCHANGED failures
         \/ Fail /\ kept' = kept \cup lower /\ UNCHANGED <<keys, passed, outranked>>
      /\ Go(a, "rate")
      /\ UNCHANGED <<settings, inbox, rate, requests>>

\* clearHfDedupOnEscalation.
ClearLower(a) ==
  LET lower == 1..(alerts[a].level - 1)
  IN  /\ At(a, "clear")
      /\ \/ Remove(lower) /\ UNCHANGED failures
         \/ Fail /\ kept' = kept \cup lower /\ UNCHANGED <<keys, passed, outranked>>
      /\ Go(a, "rate")
      /\ UNCHANGED <<settings, inbox, rate, requests>>

\* checkRateLimit; critical alerts are neither counted nor held back.
CheckRate(a) ==
  /\ At(a, "rate")
  /\ \/ /\ alerts[a].level = Critical
        /\ Forget(a, "insert") /\ UNCHANGED <<rate, failures>>
     \/ /\ alerts[a].level < Critical
        /\ rate' = rate + 1
        /\ IF rate < RateLimit THEN Forget(a, "insert") ELSE End(a)
        /\ UNCHANGED failures
     \/ /\ alerts[a].level < Critical
        /\ Fail /\ Forget(a, "insert") /\ UNCHANGED rate
  /\ UNCHANGED <<dedup, settings, inbox, requests>>

-----------------------------------------------------------------------------
(* The inbox *)

\* Statements that count or read, the reading of all aside.
Counting == {a \in Alerts : At(a, "count")}
Reading == {r \in Requests : requests[r].at \in {"decrement", "floor"}}
ReadingAll == {r \in Requests : requests[r].at = "reset"}

\* Mutant of Insert: a row that could not be stored is counted all the same.
InsertOrNot(a) ==
  /\ At(a, "insert")
  /\ \/ /\ unread' = unread + 1
        /\ alone' = {}
        /\ Go(a, "count") /\ UNCHANGED failures
     \/ Fail /\ Go(a, "count") /\ alone' = {} /\ UNCHANGED unread
  /\ UNCHANGED <<counter, skewed, dedup, settings, rate, requests>>

\* deliver of the in_app channel; without the row the alert is given up.
Insert(a) ==
  /\ At(a, "insert")
  /\ \/ /\ unread' = unread + 1
        /\ alone' = {}
        /\ Go(a, "count") /\ UNCHANGED failures
     \/ Fail /\ End(a) /\ UNCHANGED <<unread, alone>>
  /\ UNCHANGED <<counter, skewed, dedup, settings, rate, requests>>

Count(a) ==
  /\ At(a, "count")
  /\ \/ counter' = counter + 1 /\ UNCHANGED <<skewed, failures>>
     \/ Fail /\ skewed' = TRUE /\ UNCHANGED counter
  /\ End(a)
  /\ UNCHANGED <<unread, alone, dedup, settings, rate, requests>>

\* Mutant of MarkRead: read_at IS NULL is left out of the WHERE.
MarkReadAgain(r) ==
  /\ requests[r].at = "idle"
  /\ unread' = unread - 1
  /\ alone' = {}
  /\ requests' = [requests EXCEPT ![r].at = "decrement"]
  /\ UNCHANGED <<counter, skewed, dedup, settings, rate, alerts, failures>>

\* PUT /notifications/:id/read of an unread notification.
MarkRead(r) ==
  /\ requests[r].at = "idle"
  /\ unread > 0
  /\ unread' = unread - 1
  /\ alone' = {}
  /\ requests' = [requests EXCEPT ![r].at = "decrement"]
  /\ UNCHANGED <<counter, skewed, dedup, settings, rate, alerts, failures>>

\* decrementUnreadCount: below zero, a second statement follows.
Decrement(r) ==
  /\ requests[r].at = "decrement"
  /\ \/ /\ counter' = counter - 1
        /\ IF counter = 0
             THEN requests' = [requests EXCEPT ![r].at = "floor"] /\ skewed' = TRUE
             ELSE Close(r) /\ UNCHANGED skewed
        /\ UNCHANGED failures
     \/ Fail /\ skewed' = TRUE /\ Close(r) /\ UNCHANGED counter
  /\ UNCHANGED <<unread, alone, dedup, settings, rate, alerts>>

Floor(r) ==
  /\ requests[r].at = "floor"
  /\ \/ counter' = 0 /\ UNCHANGED failures
     \/ Fail /\ UNCHANGED counter
  /\ Close(r)
  /\ UNCHANGED <<unread, alone, skewed, dedup, settings, rate, alerts>>

\* PUT /notifications/read-all.
ReadAll(r) ==
  /\ requests[r].at = "idle"
  /\ unread' = 0
  /\ alone' = IF Counting \cup Reading \cup ReadingAll = {} THEN {r} ELSE {}
  /\ requests' = [requests EXCEPT ![r].at = "reset"]
  /\ UNCHANGED <<counter, skewed, dedup, settings, rate, alerts, failures>>

\* resetUnreadCount.
Reset(r) ==
  /\ requests[r].at = "reset"
  /\ \/ /\ counter' = 0
        /\ skewed' = (r \notin alone)
        /\ UNCHANGED failures
     \/ Fail /\ skewed' = TRUE /\ UNCHANGED counter
  /\ alone' = alone \ {r}
  /\ Close(r)
  /\ UNCHANGED <<unread, dedup, settings, rate, alerts>>

\* GET /notifications/unread-count.
Shown == IF counter = 0 THEN unread ELSE counter

-----------------------------------------------------------------------------
(* Redis *)

KeyExpires(l) ==
  /\ l \in keys
  /\ Remove({l})
  /\ UNCHANGED <<settings, inbox, rate, alerts, requests, failures>>

CacheExpires ==
  /\ cache # "none"
  /\ cache' = "none"
  /\ stale' = FALSE
  /\ UNCHANGED <<row, late, dedup, inbox, rate, alerts, requests, failures>>

RateWindowEnds ==
  /\ rate > 0
  /\ rate' = 0
  /\ UNCHANGED <<dedup, settings, inbox, alerts, requests, failures>>

\* Redis comes back empty.
RedisRestarts ==
  /\ Fail
  /\ Remove(Levels)
  /\ cache' = "none"
  /\ stale' = FALSE
  /\ rate' = 0
  /\ counter' = 0
  /\ skewed' = TRUE
  /\ UNCHANGED <<row, late, unread, alone, alerts, requests>>

-----------------------------------------------------------------------------
Bus(a) ==
  \/ \E l \in Levels : Emit(a, l)
  \/ LoadRow(a) \/ FillCache(a)
  \/ CheckDedup(a) \/ ClearLower(a) \/ CheckRate(a)
  \/ Insert(a) \/ Count(a)

Owner(r) ==
  \/ SelectPreferences(r) \/ InvalidatePreferences(r)
  \/ \E v \in Settings : WritePreferences(r, v)
  \/ MarkRead(r) \/ Decrement(r) \/ Floor(r)
  \/ ReadAll(r) \/ Reset(r)

Next ==
  \/ \E a \in Alerts : Bus(a)
  \/ \E r \in Requests : Owner(r)
  \/ \E l \in Levels : KeyExpires(l)
  \/ CacheExpires \/ RateWindowEnds \/ RedisRestarts

Spec == Init /\ [][Next]_vars

-----------------------------------------------------------------------------
(* Properties *)

Alert == [at : {"idle", "load", "fill", "dedup", "clear", "rate", "insert", "count", "end"},
          level : Levels, seen : Settings \cup {"none"}]
Request == [at : {"idle", "write", "invalidate", "decrement", "floor", "reset", "end"},
            found : BOOLEAN]

\* Every variable holds values of the column or the Redis key it stands for.
TypeOK ==
  /\ row \in Settings \cup {"none"}
  /\ cache \in Settings \cup {"none"}
  /\ keys \subseteq Levels
  /\ rate \in Nat
  /\ unread \in Nat
  /\ counter \in Int
  /\ alerts \in [Alerts -> Alert]
  /\ requests \in [Requests -> Request]
  /\ passed \in [Levels -> Nat]
  /\ outranked \subseteq Levels
  /\ kept \subseteq Levels
  /\ late \subseteq Alerts
  /\ stale \in BOOLEAN
  /\ alone \subseteq Requests
  /\ skewed \in BOOLEAN
  /\ failures \in Nat

\* Of the alerts of a level one goes on between two removals of its key, and a
\* key older than a higher alert is about to be cleared or could not be: back
\* on the lower level, the owner is told again.
DedupWindows ==
  /\ \A l \in Levels : passed[l] = IF l \in keys THEN 1 ELSE 0
  /\ \A l \in outranked : \/ l \in kept
                          \/ \E a \in Alerts : At(a, "clear") /\ alerts[a].level > l

\* Cached preferences are those of the row, unless a request that changed the
\* row is about to delete them, could not, or a reader was overtaken by one.
CachedPreferences ==
  cache # "none" /\ cache # row =>
    stale \/ \E r \in Requests : requests[r].at = "invalidate"

\* With nothing under way the owner is shown the number of unread notifications,
\* unless the counter was lost, went below zero or was reset over others; and
\* reading all with nothing else under way repairs it.
UnreadIsShown ==
  ~skewed /\ Counting \cup Reading \cup ReadingAll = {} => Shown = unread
\* What the counter misses or has too much is under way, unless it is skewed.
UnreadInv ==
  /\ IsFiniteSet(Counting) /\ IsFiniteSet(Reading)
  /\ \A r \in alone :
       Counting = {} /\ Reading = {} /\ ReadingAll = {r} /\ unread = 0
  /\ \A r \in Requests : requests[r].at = "floor" => skewed
  /\ ~skewed /\ ReadingAll = {} =>
       counter + Cardinality(Counting) = unread + Cardinality(Reading)

\* The preferences a reader holds are those of the row, or it is late or about to be.
ReaderInv ==
  \A a \in Alerts : At(a, "fill") =>
    \/ alerts[a].seen = row
    \/ a \in late
    \/ \E r \in Requests : requests[r].at = "invalidate"

IInv == TypeOK /\ DedupWindows /\ ReaderInv /\ CachedPreferences /\ UnreadInv
=============================================================================
