----------------------------- MODULE Politeness -----------------------------
(***************************************************************************)
(* How the tasks of one run fetch: robots.txt through RobotsCache          *)
(* (crawler/robots.py), then the page through Fetcher (crawler/fetcher.py),*)
(* which keeps a delay between hits to a host with a lock and a time per   *)
(* host.  The tasks are coroutines, so a step lasts from one await to the  *)
(* next.                                                                   *)
(*                                                                         *)
(* Time is counted in ticks.  A clock value only matters as the time since *)
(* then, and that only up to the delay, so the variables hold ages.        *)
(***************************************************************************)
EXTENDS Naturals, SequencesExt

CONSTANTS
    Tasks, NoTask,
    Hosts,          \* names of hosts
    Sites, NoSite,  \* scheme and netloc
    HostOf,         \* HostOf[s]: host_of a URL of site s
    Guarded,        \* sites with a robots.txt that keeps crawlers off some pages
    Obey,           \* settings.crawl_obey_robots
    Delay           \* settings.crawl_host_delay, in ticks

ASSUME PolitenessAssumption ==
    /\ NoTask \notin Tasks /\ NoSite \notin Sites
    /\ HostOf \in [Sites -> Hosts] /\ Guarded \subseteq Sites
    /\ Obey \in BOOLEAN /\ Delay \in Nat

VARIABLES
    pc,         \* where each task is
    site,       \* the site of the URL it handles, or NoSite
    private,    \* whether that is one of the pages a robots.txt is about
    parser,     \* the cached parser of each site
    holder,     \* who has the lock of each host
    waiters,    \* who waits for it, in order
    sinceHit,   \* time since _last_hit of each host
    sleep,      \* time each task has yet to sleep
    sincePage,  \* observed: time since a page was requested from each host
    early,      \* observed: hosts whose pages were requested before time
    unread      \* observed: sites whose robots.txt could not be loaded

cacheVars == <<site, private, parser>>
lockVars == <<holder, waiters>>
clocks == <<sinceHit, sleep>>
observed == <<sincePage, early>>
vars == <<pc, cacheVars, lockVars, clocks, observed, unread>>

TypeOK ==
    /\ pc \in [Tasks -> {"idle", "loading", "waiting", "sleeping", "fetching", "gone"}]
    /\ site \in [Tasks -> Sites \cup {NoSite}] /\ private \in [Tasks -> BOOLEAN]
    /\ parser \in [Sites -> {"none", "rules", "all"}]
    /\ holder \in [Hosts -> Tasks \cup {NoTask}]
    /\ waiters \in [Hosts -> Seq(Tasks)]
    /\ sinceHit \in [Hosts -> 0..Delay] /\ sleep \in [Tasks -> 0..Delay]
    /\ sincePage \in [Hosts -> 0..Delay]
    /\ early \subseteq Hosts /\ unread \subseteq Sites

(* Nothing has been requested yet, which is as good as long ago.           *)
Init ==
    /\ pc = [t \in Tasks |-> "idle"]
    /\ site = [t \in Tasks |-> NoSite] /\ private = [t \in Tasks |-> FALSE]
    /\ parser = [s \in Sites |-> "none"]
    /\ holder = [h \in Hosts |-> NoTask]
    /\ waiters = [h \in Hosts |-> <<>>]
    /\ sinceHit = [h \in Hosts |-> Delay] /\ sleep = [t \in Tasks |-> 0]
    /\ sincePage = [h \in Hosts |-> Delay]
    /\ early = {} /\ unread = {}

-----------------------------------------------------------------------------
Host(t) == HostOf[site[t]]
GoTo(t, place) == pc' = [pc EXCEPT ![t] = place]

(* Task t is given a URL, or is through with it.                           *)
Handle(t, s, priv) ==
    /\ site' = [site EXCEPT ![t] = s]
    /\ private' = [private EXCEPT ![t] = priv]
Leave(t, place) == Handle(t, NoSite, FALSE) /\ GoTo(t, place)

(* A page is requested from host h.                                        *)
ObservePage(h) ==
    /\ sincePage' = [sincePage EXCEPT ![h] = 0]
    /\ early' = IF sincePage[h] < Delay THEN early \cup {h} ELSE early

(* The lock of a host is taken, or queued for.                             *)
JoinLock(t, h) ==
    IF holder[h] = NoTask
    THEN holder' = [holder EXCEPT ![h] = t] /\ UNCHANGED waiters
    ELSE waiters' = [waiters EXCEPT ![h] = Append(@, t)] /\ UNCHANGED holder

(* Mutant of PassLock: nobody is woken.                                    *)
DropLock(h) == holder' = [holder EXCEPT ![h] = NoTask] /\ UNCHANGED waiters

(* The lock is released and goes to the first that waits.                  *)
PassLock(h) ==
    IF waiters[h] = <<>>
    THEN holder' = [holder EXCEPT ![h] = NoTask] /\ UNCHANGED waiters
    ELSE /\ holder' = [holder EXCEPT ![h] = Head(waiters[h])]
         /\ waiters' = [waiters EXCEPT ![h] = Tail(@)]

(* What the parser p says of a page.                                       *)
Allowed(p, priv) == p = "all" \/ ~priv

(* The task is given a URL whose robots.txt is cached and allows it, or    *)
(* need not be asked.  (A URL it forbids is dealt with at once.)           *)
Ask(t, s, priv) ==
    /\ pc[t] = "idle"
    /\ Obey => parser[s] # "none" /\ Allowed(parser[s], priv)
    /\ Handle(t, s, priv)
    /\ JoinLock(t, HostOf[s])
    /\ GoTo(t, "waiting")
    /\ UNCHANGED <<parser, clocks, observed, unread>>

(* Mutant of AskRobots: an empty parser is cached while the file loads.    *)
AskRobotsEarly(t, s, priv) ==
    /\ pc[t] = "idle"
    /\ Obey /\ parser[s] = "none"
    /\ parser' = [parser EXCEPT ![s] = "all"]
    /\ Handle(t, s, priv)
    /\ GoTo(t, "loading")
    /\ UNCHANGED <<lockVars, clocks, observed, unread>>

(* robots.txt is not cached: it is requested, without the host's lock and  *)
(* delay.                                                                  *)
AskRobots(t, s, priv) ==
    /\ pc[t] = "idle"
    /\ Obey /\ parser[s] = "none"
    /\ Handle(t, s, priv)
    /\ GoTo(t, "loading")
    /\ UNCHANGED <<parser, lockVars, clocks, observed, unread>>

(* The parser is cached, whatever has been cached meanwhile; a file that   *)
(* cannot be loaded allows all.                                            *)
LoadRobots(t) ==
    /\ pc[t] = "loading"
    /\ \E ok \in BOOLEAN :
          LET p == IF ok /\ site[t] \in Guarded THEN "rules" ELSE "all"
          IN  /\ parser' = [parser EXCEPT ![site[t]] = p]
              /\ unread' = IF ok THEN unread ELSE unread \cup {site[t]}
              /\ IF Allowed(p, private[t])
                 THEN /\ JoinLock(t, Host(t)) /\ GoTo(t, "waiting")
                      /\ UNCHANGED <<site, private>>
                 ELSE Leave(t, "idle") /\ UNCHANGED lockVars
    /\ UNCHANGED <<clocks, observed>>

(* Mutant of HasLock: there is no lock.                                    *)
NeedsNoLock(t) == TRUE

HasLock(t) == holder[Host(t)] = t

(* _last_hit is set, the lock is released and the page is requested.       *)
RequestPage(t) ==
    /\ sinceHit' = [sinceHit EXCEPT ![Host(t)] = 0]
    /\ PassLock(Host(t))
    /\ ObservePage(Host(t))
    /\ GoTo(t, "fetching")

(* The lock is held: sleep for what is left of the delay ...               *)
Sleep(t) ==
    /\ pc[t] = "waiting" /\ HasLock(t)
    /\ sinceHit[Host(t)] < Delay
    /\ sleep' = [sleep EXCEPT ![t] = Delay - sinceHit[Host(t)]]
    /\ GoTo(t, "sleeping")
    /\ UNCHANGED <<cacheVars, lockVars, sinceHit, observed, unread>>

(* ... or go ahead at once.                                                *)
GoAhead(t) ==
    /\ pc[t] = "waiting" /\ HasLock(t)
    /\ sinceHit[Host(t)] >= Delay
    /\ RequestPage(t)
    /\ UNCHANGED <<cacheVars, sleep, unread>>

Wake(t) ==
    /\ pc[t] = "sleeping" /\ sleep[t] = 0
    /\ RequestPage(t)
    /\ UNCHANGED <<cacheVars, sleep, unread>>

(* A response, an error or a timeout.                                      *)
Answer(t) ==
    /\ pc[t] = "fetching"
    /\ Leave(t, "idle")
    /\ UNCHANGED <<parser, lockVars, clocks, observed, unread>>

(* Mutant of CancelTask: a lock that is held is not released.              *)
CancelLocked(t) ==
    /\ pc[t] # "gone"
    /\ waiters' = [h \in Hosts |-> RemoveFirst(waiters[h], t)]
    /\ Leave(t, "gone")
    /\ UNCHANGED <<parser, holder, clocks, observed, unread>>

(* async with releases the lock of a task that is cancelled while it has   *)
(* the lock, and takes a task that waits out of the queue.                 *)
CancelTask(t) ==
    /\ pc[t] # "gone"
    /\ IF pc[t] \in {"waiting", "sleeping"} /\ HasLock(t)
       THEN PassLock(Host(t))
       ELSE /\ waiters' = [h \in Hosts |-> RemoveFirst(waiters[h], t)]
            /\ UNCHANGED holder
    /\ Leave(t, "gone")
    /\ sleep' = [sleep EXCEPT ![t] = 0]
    /\ UNCHANGED <<parser, sinceHit, observed, unread>>

Older(age) == IF age < Delay THEN age + 1 ELSE age

Tick ==
    /\ sleep' = [t \in Tasks |-> IF sleep[t] > 0 THEN sleep[t] - 1 ELSE 0]
    /\ sinceHit' = [h \in Hosts |-> Older(sinceHit[h])]
    /\ sincePage' = [h \in Hosts |-> Older(sincePage[h])]
    /\ UNCHANGED <<pc, cacheVars, lockVars, early, unread>>

-----------------------------------------------------------------------------
TaskStep(t) == LoadRobots(t) \/ Sleep(t) \/ GoAhead(t) \/ Wake(t) \/ Answer(t)

Next ==
    \/ \E t \in Tasks :
          \/ \E s \in Sites, priv \in BOOLEAN : Ask(t, s, priv) \/ AskRobots(t, s, priv)
          \/ TaskStep(t) \/ CancelTask(t)
    \/ Tick

Spec == Init /\ [][Next]_vars

(* Requests come to an end (crawl_timeout), coroutines that can go on do,  *)
(* and time passes.  Nobody has to hand out URLs.                          *)
Fairness == WF_vars(Tick) /\ \A t \in Tasks : WF_vars(TaskStep(t))

LiveSpec == Spec /\ Fairness

-----------------------------------------------------------------------------
(* "a minimum delay between hits to a host" (fetcher.py:23), as far as the *)
(* Fetcher knows of them: two requests for pages of a host are never       *)
(* closer than the delay, whichever tasks and sites they are of.           *)
PagesSpaced == early = {}

(* A host's lock is with one of the tasks that are about to request a page *)
(* from it, if there are any, and all the others are in its queue, once.   *)
LockSound ==
    \A h \in Hosts :
        LET here == {t \in Tasks : pc[t] \in {"waiting", "sleeping"} /\ Host(t) = h}
            w == waiters[h]
        IN  IF holder[h] = NoTask THEN here = {} /\ w = <<>>
            ELSE /\ here = {holder[h]} \cup Range(w)
                 /\ holder[h] \notin Range(w) /\ IsInjective(w)

(* No page that a robots.txt is about is requested from a site that guards *)
(* it, even while other tasks load the file, unless it could not be loaded.*)
GuardRespected ==
    Obey => \A t \in Tasks :
        /\ pc[t] \in {"waiting", "sleeping", "fetching"}
        /\ private[t] /\ site[t] \in Guarded
        => site[t] \in unread

(* Whoever waits for a host gets its turn.                                 *)
Served == \A t \in Tasks : pc[t] = "waiting" ~> pc[t] \in {"fetching", "gone"}

=============================================================================
