----------------------------- MODULE RosterCache -----------------------------
(***************************************************************************)
(* The memoized agent roster: Roster of internal/registry/client.go, which *)
(* every dispatch calls before anything else.                              *)
(*                                                                         *)
(* One mutex is held over the whole call, the HTTP request to the agent    *)
(* registry included, whose timeout is two seconds.  Time is discrete, and *)
(* passes only while a request is under way that has not reached its       *)
(* timeout, or while no call is in progress.  A roster is known by the     *)
(* moment at which the registry served it.  The registry is taken never to *)
(* answer the JSON value null.                                             *)
(***************************************************************************)
EXTENDS Naturals

CONSTANTS
  Callers,   \* dispatch handlers
  Nobody,    \* holds the mutex when it is free
  None,      \* no roster
  TTL,       \* rosterTTL
  Timeout,   \* of the HTTP client
  MaxClock,  \* bound on time
  Failing    \* whether requests to the registry may fail

ASSUME CallerAssumption == Nobody \notin Callers
ASSUME TimeAssumption   == {TTL, Timeout, MaxClock} \subseteq Nat /\ None \notin Nat
ASSUME FailAssumption   == Failing \in BOOLEAN

VARIABLES
  clock,
  holder,   \* who holds rosterMu, and is inside fetchRosterFrom when anybody is
  cache,    \* rosterCache: the moment its roster was served
  fetched,  \* rosterFetched
  began,    \* when the request under way was sent
  answer,   \* the roster the registry has served to it, None until then
  calling,  \* callers inside Roster
  since,    \* when they called
  result    \* what their last call returned

cvars == <<clock, holder, cache, fetched, began, answer, calling, since, result>>
------------------------------------------------------------------------------
Init == /\ clock   = 0
        /\ holder  = Nobody
        /\ cache   = None
        /\ fetched = 0
        /\ began   = 0
        /\ answer  = None
        /\ calling = {}
        /\ since   = [c \in Callers |-> 0]
        /\ result  = [c \in Callers |-> None]

Expired == clock - began >= Timeout \/ clock = MaxClock

Tick == /\ clock < MaxClock
        /\ IF holder = Nobody THEN calling = {} ELSE ~Expired
        /\ clock' = clock + 1
        /\ UNCHANGED <<holder, cache, fetched, began, answer, calling, since, result>>

Call(c) == /\ c \notin calling
           /\ calling' = calling \union {c}
           /\ since' = [since EXCEPT ![c] = clock]
           /\ UNCHANGED <<clock, holder, cache, fetched, began, answer, result>>

Return(c, r) == /\ result'  = [result EXCEPT ![c] = r]
                /\ calling' = calling \ {c}

\* Mutant: a roster once fetched is served for ever.
FreshForEver == cache # None

Fresh == cache # None /\ clock - fetched < TTL

\* A fresh roster is returned at once ...
Hit(c) == /\ c \in calling
          /\ holder = Nobody
          /\ Fresh
          /\ Return(c, cache)
          /\ UNCHANGED <<clock, holder, cache, fetched, began, answer, since>>

\* ... otherwise the mutex is kept over a request to the registry.
Miss(c) == /\ c \in calling
           /\ holder = Nobody
           /\ ~Fresh
           /\ holder' = c
           /\ began'  = clock
           /\ answer' = None
           /\ UNCHANGED <<clock, cache, fetched, calling, since, result>>

\* The registry reads its roster; the response is still on its way.
Serve == /\ holder # Nobody
         /\ answer = None
         /\ answer' = clock
         /\ UNCHANGED <<clock, holder, cache, fetched, began, calling, since, result>>

\* Mutant: what is stored is the moment the roster expires.
FetchedDeadline(c) == /\ holder = c
                      /\ answer # None
                      /\ cache'   = answer
                      /\ fetched' = clock + TTL
                      /\ holder'  = Nobody
                      /\ Return(c, answer)
                      /\ UNCHANGED <<clock, began, answer, since>>

Fetched(c) == /\ holder = c
              /\ answer # None
              /\ cache'   = answer
              /\ fetched' = clock
              /\ holder'  = Nobody
              /\ Return(c, answer)
              /\ UNCHANGED <<clock, began, answer, since>>

\* Mutants: a failed request loses the last good roster; its early return keeps the mutex.
FetchFailsEmpty(c) == /\ Failing
                      /\ holder = c
                      /\ holder' = Nobody
                      /\ cache'  = None
                      /\ Return(c, None)
                      /\ UNCHANGED <<clock, fetched, began, answer, since>>

FetchFailsLocked(c) == /\ Failing
                       /\ holder = c
                       /\ holder' = c
                       /\ Return(c, cache)
                       /\ UNCHANGED <<clock, cache, fetched, began, answer, since>>

\* Connection refused, a bad status or body, or the timeout: the last good roster, if any.
FetchFails(c) == /\ Failing
                 /\ holder = c
                 /\ holder' = Nobody
                 /\ Return(c, cache)
                 /\ UNCHANGED <<clock, cache, fetched, began, answer, since>>

Take(c) == Hit(c) \/ Miss(c)
End(c)  == Fetched(c) \/ FetchFails(c)

Next == Tick \/ Serve \/ \E c \in Callers : Call(c) \/ Take(c) \/ End(c)

Spec == Init /\ [][Next]_cvars
------------------------------------------------------------------------------
TypeOK == /\ clock \in 0..MaxClock
          /\ holder \in Callers \union {Nobody}
          /\ {cache, answer} \subseteq 0..MaxClock \union {None}
          /\ fetched \in 0..MaxClock
          /\ began \in 0..MaxClock
          /\ calling \subseteq Callers
          /\ since \in [Callers -> 0..MaxClock]
          /\ result \in [Callers -> 0..MaxClock \union {None}]

(* "rosterTTL bounds how stale the cached roster may be": a call that returns *)
(* gives a roster that was the registry's at most TTL, and the time a         *)
(* request may take, ago.                                                     *)
StaleBounded == [][\A c \in Callers : c \in calling /\ c \notin calling' /\ result'[c] # None =>
                     clock - result'[c] <= TTL + Timeout]_cvars

(* The same for a roster that is served without a request of one's own, also  *)
(* while the registry is failing: only a call whose own request has failed    *)
(* returns an older one.                                                      *)
CachedIsFresh == [][\A c \in Callers \ {holder} :
                      c \in calling /\ c \notin calling' /\ result'[c] # None =>
                        clock - result'[c] <= TTL + Timeout]_cvars

(* Callers never see the roster go back: what a call returns is at least as   *)
(* recent as anything that any call has returned before, failed requests      *)
(* included, and a roster once fetched is never lost.                         *)
NeverBackwards == [][\A c \in Callers : \A d \in Callers :
                       c \in calling /\ c \notin calling' /\ result[d] # None =>
                         result'[c] # None /\ result'[c] >= result[d]]_cvars

(* "a down or slow registry degrades per-agent RAG targeting ... rather than  *)
(* blocking dispatch": no call takes longer than one request.                 *)
WaitBounded == \A c \in calling : clock - since[c] <= Timeout
=============================================================================
