------------------------------ MODULE Sharing ------------------------------
(***************************************************************************)
(* The share of one file and its visitors.  The handler of the CDN looks   *)
(* at the row of the share, at its limit of downloads, at the cache, and   *)
(* serves; what it counts it counts in goroutines, after the answer.       *)
(***************************************************************************)
EXTENDS Naturals, FiniteSets

CONSTANTS Visitors,   \* clients of the link, one request at a time each
          Transforms, \* valid transforms that ask for a processed picture
          Limits,     \* the values of max_downloads a share may get
          MaxVisits,  \* bound: requests
          MaxLosses,  \* bound: failed statements, lost goroutines
          None

ASSUME ConstantsAssumption == /\ IsFiniteSet(Visitors)
                              /\ Limits \subseteq Nat /\ None \notin Limits

VARIABLES
  share,      \* the row: state, password, max
  file,       \* the file: TRUE until it is deleted
  counted, accesses,   \* download_count, access_count
  uncounted, unopened, \* goroutines that still have to add to them
  visit,      \* per visitor: the request and its next step
  cache,      \* transform_cache: the request_count of each row
  produced,   \* transforms processed, per transform
  served, lost,        \* downloads answered; additions that failed
  behind,     \* most downloads not yet counted when one more was let through
  blind,      \* downloads let through because the limit could not be read
  visits, losses

counters == <<counted, accesses, uncounted, unopened>>
results == <<cache, produced, served, lost, behind, blind>>
shareVars == <<share, file, counters, visit, results, visits, losses>>

cacheThreshold == 3
Away == [at |-> "away"]

SharingInit ==
  /\ share = [state |-> "none", password |-> FALSE, max |-> None]
  /\ file = TRUE
  /\ counted = 0 /\ accesses = 0 /\ uncounted = 0 /\ unopened = 0
  /\ visit = [v \in Visitors |-> Away]
  /\ cache = [t \in {} |-> 0]
  /\ produced = [t \in Transforms |-> 0]
  /\ served = 0 /\ lost = 0 /\ behind = 0 /\ blind = 0
  /\ visits = 0 /\ losses = 0

Lose == losses < MaxLosses /\ losses' = losses + 1
Leave(v) == visit' = [visit EXCEPT ![v] = Away]

----------------------------------------------------------------------------
(* The owner.                                                              *)

CreateShare(password, max) ==
  /\ share.state = "none" /\ file
  /\ share' = [state |-> "open", password |-> password, max |-> max]
  /\ UNCHANGED <<file, counters, visit, results, visits, losses>>

\* Deleting, expiring and deleting the file all make the link unknown.
CloseShare ==
  /\ share.state = "open" /\ file
  /\ \/ share' = [share EXCEPT !.state = "deleted"] /\ UNCHANGED file
     \/ share' = [share EXCEPT !.state = "expired"] /\ UNCHANGED file
     \/ file' = FALSE /\ UNCHANGED share
  /\ UNCHANGED <<counters, visit, results, visits, losses>>

----------------------------------------------------------------------------
(* A request: token, password, limit, transform, answer.                   *)

GetFileShareByToken == share.state = "open" /\ file

Arrive(v, t, knows) ==
  /\ visit[v] = Away
  /\ visits < MaxVisits
  /\ visits' = visits + 1
  /\ visit' = [visit EXCEPT ![v] =
                 IF GetFileShareByToken /\ (share.password => knows)
                 THEN [at |-> "limit", transform |-> t] ELSE Away]
  /\ UNCHANGED <<share, file, counters, results, losses>>

\* Mutant: one download too many.
LimitExceeded == counted > share.max

IsShareDownloadLimitReached == counted >= share.max

\* What was let through and is not counted yet.
Unseen == uncounted + lost
          + Cardinality({v \in Visitors : visit[v].at \in {"parse", "serve", "process"}})

LetThrough(v) ==
  /\ visit' = [visit EXCEPT ![v].at = "parse"]
  /\ unopened' = unopened + 1
  /\ behind' = IF Unseen > behind THEN Unseen ELSE behind

ReadLimit(v) ==
  /\ visit[v].at = "limit"
  /\ share.max = None \/ share.state # "deleted"
  /\ IF share.max # None /\ IsShareDownloadLimitReached
     THEN Leave(v) /\ UNCHANGED <<unopened, behind>>
     ELSE LetThrough(v)
  /\ UNCHANGED <<share, file, counted, accesses, uncounted, cache, produced, served,
                 lost, blind, visits, losses>>

\* A limit that cannot be read, be it that its row is gone, stops nobody.
MissLimit(v) ==
  /\ visit[v].at = "limit"
  /\ share.max # None
  /\ IF share.state = "deleted" THEN UNCHANGED losses ELSE Lose
  /\ LetThrough(v)
  /\ blind' = blind + 1
  /\ UNCHANGED <<share, file, counted, accesses, uncounted, cache, produced, served,
                 lost, visits>>

\* The syntax of the transforms and the bounds on their values.
ParseTransforms(t) == t # "invalid"

\* "_", "original" or nothing at all asks for the file as it is.
RequiresProcessing(t) == t # "original"

ReadTransforms(v) ==
  LET t == visit[v].transform IN
  /\ visit[v].at = "parse"
  /\ visit' = [visit EXCEPT ![v] =
                 IF ~ParseTransforms(t) THEN Away
                 ELSE [@ EXCEPT !.at = IF RequiresProcessing(t) THEN "process" ELSE "serve"]]
  /\ UNCHANGED <<share, file, counters, results, visits, losses>>

\* The download is counted whether or not the address can be signed.
ServeOriginal(v) ==
  /\ visit[v].at = "serve"
  /\ Leave(v)
  /\ uncounted' = uncounted + 1
  /\ \/ served' = served + 1 /\ UNCHANGED losses
     \/ Lose /\ UNCHANGED served
  /\ UNCHANGED <<share, file, counted, accesses, unopened, cache, produced, lost,
                 behind, blind, visits>>

GetTransformRequestCount(t) == IF t \in DOMAIN cache THEN cache[t] ELSE 0

\* The picture is stored if its row says that it was asked for often enough.
CacheResult(t) ==
  cache' = IF GetTransformRequestCount(t) >= cacheThreshold
           THEN [u \in DOMAIN cache \cup {t} |-> IF u = t THEN 1 ELSE cache[u]]
           ELSE cache

\* A cached picture is served from the cache, another one is processed.
ServeTransform(v) ==
  LET t == visit[v].transform IN
  /\ visit[v].at = "process"
  /\ Leave(v)
  /\ \/ /\ uncounted' = uncounted + 1
        /\ served' = served + 1
        /\ IF t \in DOMAIN cache
           THEN cache' = [cache EXCEPT ![t] = @ + 1] /\ UNCHANGED produced
           ELSE produced' = [produced EXCEPT ![t] = @ + 1] /\ CacheResult(t)
        /\ UNCHANGED losses
     \/ Lose /\ UNCHANGED <<uncounted, served, produced, cache>>
  /\ UNCHANGED <<share, file, counted, accesses, unopened, lost, behind, blind,
                 visits>>

----------------------------------------------------------------------------
(* The goroutines.                                                         *)

IncrementShareAccessCount ==
  /\ unopened > 0
  /\ unopened' = unopened - 1
  /\ \/ /\ accesses' = IF share.state = "deleted" THEN accesses ELSE accesses + 1
        /\ UNCHANGED losses
     \/ Lose /\ UNCHANGED accesses
  /\ UNCHANGED <<share, file, counted, uncounted, visit, results, visits>>

IncrementShareDownloadCount ==
  /\ uncounted > 0
  /\ uncounted' = uncounted - 1
  /\ \/ /\ share.state # "deleted"
        /\ counted' = counted + 1
        /\ UNCHANGED <<losses, lost>>
     \/ /\ IF share.state = "deleted" THEN UNCHANGED losses ELSE Lose
        /\ lost' = lost + 1
        /\ UNCHANGED counted
  /\ UNCHANGED <<share, file, accesses, unopened, visit, cache, produced, served,
                 behind, blind, visits>>

SharingNext ==
  \/ \E p \in BOOLEAN, m \in Limits \cup {None} : CreateShare(p, m)
  \/ CloseShare
  \/ \E v \in Visitors :
       \/ \E t \in Transforms \cup {"original", "invalid"}, k \in BOOLEAN : Arrive(v, t, k)
       \/ ReadLimit(v) \/ MissLimit(v) \/ ReadTransforms(v)
       \/ ServeOriginal(v) \/ ServeTransform(v)
  \/ IncrementShareAccessCount \/ IncrementShareDownloadCount

SharingSpec == SharingInit /\ [][SharingNext]_shareVars

----------------------------------------------------------------------------
\* A share with a limit serves no more than the limit, what was still
\* uncounted when a request was let through, and what was let through
\* without a look at the limit.
ServedBounded == share.max # None => served <= share.max + behind + blind

\* "Transforms requested 3 or more times are automatically cached."
CachedAfterThree ==
  \A t \in Transforms : produced[t] >= cacheThreshold => t \in DOMAIN cache
============================================================================
